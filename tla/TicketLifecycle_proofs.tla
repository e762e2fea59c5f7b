------------------------ MODULE TicketLifecycle_proofs ------------------------
(***************************************************************************)
(* Proofs about TicketLifecycle, for every set of nodes, employees and     *)
(* providers, every budget and every threshold.                            *)
(***************************************************************************)
EXTENDS TicketLifecycle, TicketProjection_proofs, FiniteSetTheorems

(* While an employee is being frozen, what they still run is to be         *)
(* contained.                                                              *)
FreezeReaches ==
  txn.op = "freeze" =>
    /\ txn.who \in Employees
    /\ \A t \in Tickets :
         store.status[t] = "EXECUTING" /\ store.owner[t] = txn.who => t \in txn.todo

(* An incident is about a ticket.                                          *)
IncidentsNameTickets ==
  \A i \in Incidents : incident[i].status # "NONE" => incident[i].ticket \in Tickets

(* The inductive invariant.                                                *)
IInv ==
  /\ TypeOK
  /\ IncidentsNameTickets
  /\ Consistent(store)
  /\ ExecutingOwnerActive
  /\ FreezeReaches

-----------------------------------------------------------------------------
(* The payload of a ticket a client creates.                               *)
LEMMA CreatedSpec ==
  ASSUME NEW n \in Nodes, NEW p \in Tickets \cup {NoTicket},
         NEW gates \in SUBSET Tickets, NEW a \in Employees \cup {NoOne},
         NEW staged \in BOOLEAN
  PROVE  LET sp == [Blank(n) EXCEPT !.parent = p, !.gates = gates,
                                    !.assignee = a, !.staged = staged]
         IN sp \in Specs /\ sp.retries = 0
BY BlankType DEF Blank, Specs

(* The columns the proofs look at, one by one.                             *)
LEMMA StoreColumns ==
  ASSUME TypeOK
  PROVE  /\ store \in Databases
         /\ store.status \in [Tickets -> Statuses]
         /\ store.owner \in [Tickets -> Employees \cup {NoOne}]
         /\ store.spec \in [Tickets -> Specs]
BY DEF TypeOK, Databases

(* The payloads recovery and containment write again, for the same node.   *)
LEMMA FollowupSpec ==
  ASSUME NEW sp \in Specs, NEW p \in Tickets
  PROVE  /\ [sp EXCEPT !.parent = p] \in Specs
         /\ [sp EXCEPT !.parent = p].node = sp.node
BY DEF Specs

(* A payload requeued by a freeze: for the same node.                      *)
LEMMA RequeuedSpec ==
  ASSUME NEW sp \in Specs, NEW ex \in SUBSET Employees, NEW e \in Employees
  PROVE  /\ [sp EXCEPT !.excluded = ex, !.frozenFor = e] \in Specs
         /\ [sp EXCEPT !.excluded = ex, !.frozenFor = e].node = sp.node
BY DEF Specs

(* A payload readmitted by a restore: for the same node.                   *)
LEMMA ReadmittedSpec ==
  ASSUME NEW sp \in Specs, NEW ex \in SUBSET Employees
  PROVE  /\ [sp EXCEPT !.excluded = ex] \in Specs
         /\ [sp EXCEPT !.excluded = ex].node = sp.node
BY DEF Specs

(* A cancellation changes the status of no other ticket.                   *)
LEMMA CancelledAlone ==
  ASSUME NEW db \in Databases, NEW t \in Tickets, NEW u \in Tickets, u # t
  PROVE  /\ Exists(TicketCancelled(db, t), u) <=> Exists(db, u)
         /\ NodeOf(TicketCancelled(db, t), t) = NodeOf(db, t)
<1>1. db.status \in [Tickets -> Statuses]
  BY DEF Databases
<1> QED BY <1>1, CancelledColumns DEF Exists, NodeOf

(* A retry is one more event of the same kind.                             *)
LEMMA RetryConsistent ==
  ASSUME NEW db, Consistent(db), NEW t \in Tickets, NEW n \in FreshIds(db)
  PROVE  Consistent(ScheduleRetry(db, t, n))
BY RetryType, FreshAreFree, CreatedConsistent DEF ScheduleRetry, Consistent

(* Opening an incident, or starting its recovery, writes an incident row   *)
(* about a ticket.                                                         *)
IncidentsFine ==
  incident \in [Incidents -> IncidentRows] /\ IncidentsNameTickets

(* Opening an incident about a ticket.                                     *)
LEMMA OpenedFine ==
  ASSUME IncidentsFine, NEW type \in IncidentTypes, NEW t \in Tickets,
         NEW p \in Providers \cup {NoProvider}, OpenIncident(type, t, p)
  PROVE  IncidentsFine'
<1> DEFINE row == [status |-> "OPEN", breaker |-> "OPEN", type |-> type,
                   ticket |-> t, provider |-> p, followup |-> NoTicket]
<1>1. PICK i \in FreshIncidents : incident' = [incident EXCEPT ![i] = row]
  BY DEF OpenIncident
<1>2. row \in IncidentRows /\ row.ticket \in Tickets
  BY DEF IncidentRows
<1> HIDE DEF row
<1> QED BY <1>1, <1>2 DEF IncidentsFine, IncidentsNameTickets

(* Starting the recovery of an open one.                                   *)
LEMMA RecoveringFine ==
  ASSUME IncidentsFine, NEW i \in Incidents, NEW n \in Tickets \cup {NoTicket},
         Tripped(i), StartRecovery(i, n)
  PROVE  IncidentsFine'
<1> DEFINE row == incident[i]
           new == [row EXCEPT !.status = "RECOVERING", !.breaker = "CLOSED",
                              !.followup = n]
<1>1. row \in IncidentRows /\ row.ticket \in Tickets
  BY DEF IncidentsFine, IncidentsNameTickets, Tripped
<1>2. incident' = [incident EXCEPT ![i] = new]
  BY DEF StartRecovery, IncidentsFine
<1> HIDE DEF row
<1>3. new \in IncidentRows /\ new.ticket \in Tickets
  BY <1>1 DEF IncidentRows
<1> HIDE DEF new
<1> QED BY <1>2, <1>3 DEF IncidentsFine, IncidentsNameTickets

-----------------------------------------------------------------------------
(* The database after a failure, retried or not.                           *)
LEMMA FailConsistent ==
  ASSUME Consistent(store), NEW t \in Tickets, NEW kind \in FailureKinds,
         NEW named, FailTicket(t, kind, named)
  PROVE  Consistent(store')
<1> DEFINE db == TicketFailed(store, t, kind)
<1>1. Consistent(db)
  BY EndedConsistent
<1>2. \/ store' = db
      \/ \E n \in FreshIds(db) : store' = ScheduleRetry(db, t, n)
  BY DEF FailTicket
<1> QED BY <1>1, <1>2, RetryConsistent

(* Every command on one ticket appends events that keep the node rows.     *)
LEMMA CommandConsistent ==
  ASSUME IInv, TicketCommand
  PROVE  Consistent(store')
<1> USE DEF IInv
<1>1. ASSUME Create PROVE Consistent(store')
  <2>1. PICK t \in Tickets, n \in Nodes, p \in ParentChoices \cup {NoTicket},
             gates \in GateChoices \cup {{}}, a \in Assignees \cup {NoOne} :
               CreateTicket(t, n, p, gates, a, p # NoTicket)
    BY <1>1 DEF Create
  <2>2. /\ p \in Tickets \cup {NoTicket} /\ gates \in SUBSET Tickets
        /\ a \in Employees \cup {NoOne} /\ (p # NoTicket) \in BOOLEAN
    BY LifecycleAssumption
  <2>3. ~ Exists(store, t)
    BY <2>1, FreshAreFree DEF CreateTicket
  <2> QED BY <2>1, <2>2, <2>3, CreatedSpec, CreatedConsistent DEF CreateTicket
<1>2. ASSUME NEW t \in Tickets, NEW e \in Employees, Lease(t, e)
      PROVE  Consistent(store')
  BY <1>2, LeasedConsistent DEF Lease
<1>3. ASSUME NEW t \in Tickets, NEW e \in Employees, Start(t, e)
      PROVE  Consistent(store')
  BY <1>3, StartedConsistent DEF Start
<1>4. ASSUME NEW t \in Tickets, Heartbeat(t) PROVE Consistent(store')
  <2>1. store.overdue[t] \ {"beat due"} \in SUBSET Deadlines
    BY DEF TypeOK, Databases
  <2> QED BY <1>4, <2>1, TimersConsistent DEF Heartbeat, HeartbeatRecorded
<1>5. ASSUME NEW t \in Tickets, Cancel(t) PROVE Consistent(store')
  BY <1>5, CancelRequestedConsistent, CancelledConsistent DEF Cancel
<1>6. ASSUME NEW t \in Tickets, CompleteTicket(t) PROVE Consistent(store')
  BY <1>6, EndedConsistent DEF CompleteTicket
<1>7. ASSUME NEW t \in Tickets, CeoRetry(t) PROVE Consistent(store')
  BY <1>7, RetryConsistent DEF CeoRetry
<1>8. ASSUME NEW t \in Tickets, NEW k \in FailureReports,
             NEW p \in NamedProviders \cup {NoProvider}, FailTicket(t, k, p)
      PROVE  Consistent(store')
  BY <1>8, FailConsistent DEF FailureReports
<1>9. ASSUME NEW t \in Tickets, SubmitRead(t) \/ SubmitDropped(t)
      PROVE  Consistent(store')
  BY <1>9 DEF SubmitRead, SubmitDropped
<1>10. ASSUME NEW t \in Tickets, SubmitLate(t) PROVE Consistent(store')
  BY <1>10, CancelledConsistent DEF SubmitLate
<1> QED BY <1>1, <1>2, <1>3, <1>4, <1>5, <1>6, <1>7, <1>8, <1>9, <1>10
        DEF TicketCommand, Complete, Fail, SubmitFail, SubmitComplete

(* So does every step of a tick.                                           *)
LEMMA TickConsistent ==
  ASSUME IInv, Tick
  PROVE  Consistent(store')
<1> USE DEF IInv
<1>1. ASSUME NEW extra, TickBegin(extra) PROVE Consistent(store')
  BY <1>1 DEF TickBegin
<1>2. ASSUME DispatchBegin \/ TickEnd PROVE Consistent(store')
  BY <1>2 DEF DispatchBegin, TickEnd
<1>3. ASSUME NEW t \in Tickets, TimeOut(t) PROVE Consistent(store')
  <2> DEFINE db == TicketTimedOut(store, t)
  <2>1. Consistent(db)
    BY EndedConsistent
  <2>2. \/ store' = db
        \/ \E n \in FreshIds(db) : store' = ScheduleRetry(db, t, n)
    BY <1>3 DEF TimeOut
  <2> QED BY <2>1, <2>2, RetryConsistent
<1>4. ASSUME NEW t \in Tickets, DispatchFail(t) PROVE Consistent(store')
  BY <1>4, EndedConsistent DEF DispatchFail, FailureKinds
<1>5. ASSUME NEW t \in Tickets, DispatchSkip(t) PROVE Consistent(store')
  BY <1>5 DEF DispatchSkip
<1>6. ASSUME NEW t \in Tickets, NEW e \in Employees, Dispatch(t, e)
      PROVE  Consistent(store')
  BY <1>6, LeasedConsistent DEF Dispatch
<1> QED BY <1>1, <1>2, <1>3, <1>4, <1>5, <1>6 DEF Tick

(* So does every step of a recovery.                                       *)
LEMMA RecoveryConsistent ==
  ASSUME IInv, Recovery
  PROVE  Consistent(store')
<1> USE DEF IInv
<1>1. ASSUME NEW i \in Incidents, RestoreOnly(i) PROVE Consistent(store')
  BY <1>1 DEF RestoreOnly
<1>2. ASSUME NEW i \in Incidents, Resolvable(i)
      PROVE  incident[i].ticket \in Tickets
  BY <1>2 DEF Resolvable, Tripped, IncidentsNameTickets
<1>3. ASSUME NEW i \in Incidents, RestoreAndRetry(i) PROVE Consistent(store')
  BY <1>2, <1>3, RetryConsistent DEF RestoreAndRetry
<1>4. ASSUME NEW i \in Incidents, RecoverContained(i) PROVE Consistent(store')
  <2> DEFINE t  == incident[i].ticket
             db == IF store.status[t] = "CANCEL_REQUESTED"
                   THEN TicketCancelled(store, t) ELSE store
             sp == [store.spec[t] EXCEPT !.parent = t]
  <2>1. /\ t \in Tickets
        /\ store.status[t] \in {"CANCEL_REQUESTED", "CANCELLED"}
    BY <1>2, <1>4 DEF RecoverContained
  <2>2. PICK n \in FreshIds(store) : store' = TicketCreated(db, n, sp)
    BY <1>4 DEF RecoverContained
  <2>3. n \in Tickets /\ ~ Exists(store, n) /\ n # t
    BY <2>1, FreshAreFree DEF Exists
  <2>4. Consistent(db) /\ ~ Exists(db, n)
    <3>1. CASE store.status[t] = "CANCEL_REQUESTED"
      <4>1. Consistent(TicketCancelled(store, t))
        BY <2>1, CancelledConsistent
      <4>2. ~ Exists(TicketCancelled(store, t), n)
        BY <2>1, <2>3, StoreColumns, CancelledAlone
      <4> QED BY <3>1, <4>1, <4>2
    <3>2. CASE store.status[t] # "CANCEL_REQUESTED"
      BY <2>3, <3>2
    <3> QED BY <3>1, <3>2
  <2>5. sp \in Specs
    BY <2>1, StoreColumns, FollowupSpec
  <2> QED BY <2>2, <2>3, <2>4, <2>5, CreatedConsistent
<1>5. ASSUME NEW t \in Tickets, Recreate(t) PROVE Consistent(store')
  <2> DEFINE p  == store.spec[t].parent
             db == TicketCancelled(store, t)
             sp == [store.spec[t] EXCEPT !.parent = txn.instead[p]]
  <2>1. PICK n \in FreshIds(store) : store' = TicketCreated(db, n, sp)
    BY <1>5 DEF Recreate
  <2>2. n \in Tickets /\ ~ Exists(store, n)
    BY FreshAreFree
  <2>3. /\ p \in Tickets
        /\ txn.instead[p] \in Tickets
    BY <1>5, SpecFields DEF Recreate, Replaced, TypeOK, Transactions
  <2>4. sp \in Specs /\ sp.node = NodeOf(store, t)
    BY <2>3, StoreColumns, FollowupSpec DEF NodeOf
  <2>5. Consistent(db) /\ (~ Exists(db, n) \/ sp.node = NodeOf(db, n))
    <3>1. CASE n = t
      BY <2>4, <3>1, CancelledConsistent, CancelledColumns DEF NodeOf, TypeOK
    <3>2. CASE n # t
      <4>1. Consistent(TicketCancelled(store, t))
        BY CancelledConsistent
      <4>2. ~ Exists(TicketCancelled(store, t), n)
        BY <2>2, <3>2, StoreColumns, CancelledAlone
      <4> QED BY <4>1, <4>2
    <3> QED BY <3>1, <3>2
  <2> QED BY <2>1, <2>2, <2>4, <2>5, CreatedConsistent
<1>6. ASSUME NEW t \in Tickets, RecreateSkip(t) PROVE Consistent(store')
  BY <1>6 DEF RecreateSkip
<1> QED BY <1>1, <1>3, <1>4, <1>5, <1>6 DEF Recovery

(* So does every step of a freeze or restore.                              *)
LEMMA StaffingConsistent ==
  ASSUME IInv, Staffing
  PROVE  Consistent(store')
<1> USE DEF IInv
<1>1. ASSUME NEW e \in Employees, FreezeBegin(e) \/ RestoreBegin(e)
      PROVE  Consistent(store')
  BY <1>1 DEF FreezeBegin, RestoreBegin
<1>2. ASSUME FreezeEnd \/ RestoreEnd PROVE Consistent(store')
  BY <1>2 DEF FreezeEnd, RestoreEnd
<1>3. ASSUME NEW t \in Tickets
      PROVE  /\ store.spec[t].excluded \in SUBSET Employees
             /\ txn.who \in Employees \cup {NoOne}
  BY DEF TypeOK, Databases, Specs, Transactions
<1>4. ASSUME NEW t \in Tickets, Requeue(t) PROVE Consistent(store')
  <2> DEFINE ex == store.spec[t].excluded \cup {txn.who}
             sp == [store.spec[t] EXCEPT !.excluded = ex, !.frozenFor = txn.who]
  <2>1. txn.who \in Employees
    BY <1>4 DEF Requeue, FreezeReaches
  <2>2. ex \in SUBSET Employees
    BY <1>3, <2>1
  <2>3. sp \in Specs /\ sp.node = NodeOf(store, t)
    BY <2>1, <2>2, StoreColumns, RequeuedSpec DEF NodeOf
  <2>4. store' = TicketCreated(store, t, sp)
    BY <1>4 DEF Requeue
  <2> QED BY <2>3, <2>4, CreatedConsistent
<1>5. ASSUME NEW t \in Tickets, Contain(t) PROVE Consistent(store')
  BY <1>5, CancelRequestedConsistent DEF Contain
<1>6. ASSUME NEW t \in Tickets, Readmit(t) PROVE Consistent(store')
  <2> DEFINE ex == store.spec[t].excluded \ {txn.who}
             sp == [store.spec[t] EXCEPT !.excluded = ex]
  <2>1. ex \in SUBSET Employees
    BY <1>3
  <2>2. sp \in Specs /\ sp.node = NodeOf(store, t)
    BY <2>1, StoreColumns, ReadmittedSpec DEF NodeOf
  <2>3. store' = TicketCreated(store, t, sp)
    BY <1>6 DEF Readmit
  <2> QED BY <2>2, <2>3, CreatedConsistent
<1> QED BY <1>1, <1>2, <1>4, <1>5, <1>6 DEF Staffing

-----------------------------------------------------------------------------
(* The other variables keep their types.                                   *)
RestFine ==
  /\ IncidentsFine
  /\ employee \in [Employees -> {"ACTIVE", "FROZEN"}]
  /\ attempt \in [Tickets -> {"none", "late", "work"}]
  /\ retried \in SUBSET Tickets
  /\ txn \in Transactions

(* The invariant says so of the current state.                             *)
LEMMA RestIsFine == ASSUME IInv PROVE RestFine /\ IncidentsFine
BY DEF IInv, TypeOK, RestFine, IncidentsFine

(* A free lock is a lock.                                                  *)
LEMMA IdleType == Idle \in Transactions
<1>1. 0 \in 0 .. MaxDispatches
  BY LifecycleAssumption
<1> QED BY <1>1 DEF Idle, Transactions

(* The lock taken by a tick, and by a change of staff.                     *)
LEMMA TickTakes ==
  ASSUME NEW todo \in SUBSET Tickets, NEW extra \in SUBSET Employees,
         NEW tripped \in SUBSET Nodes
  PROVE  [Idle EXCEPT !.op = "time out", !.todo = todo, !.extra = extra,
                      !.tripped = tripped] \in Transactions
<1> DEFINE i == Idle
<1>1. i \in Transactions
  BY IdleType
<1> HIDE DEF i
<1>2. [i EXCEPT !.op = "time out", !.todo = todo, !.extra = extra,
                !.tripped = tripped] \in Transactions
  BY <1>1 DEF Transactions
<1> QED BY <1>2 DEF i

(* The lock taken by a freeze or restore.                                  *)
LEMMA StaffingTakes ==
  ASSUME NEW todo \in SUBSET Tickets, NEW who \in Employees
  PROVE  /\ [Idle EXCEPT !.op = "freeze", !.todo = todo, !.who = who] \in Transactions
         /\ [Idle EXCEPT !.op = "restore", !.who = who, !.todo = todo] \in Transactions
<1> DEFINE i == Idle
<1>1. i \in Transactions
  BY IdleType
<1> HIDE DEF i
<1>2. [i EXCEPT !.op = "freeze", !.todo = todo, !.who = who] \in Transactions
  BY <1>1 DEF Transactions
<1>3. [i EXCEPT !.op = "restore", !.who = who, !.todo = todo] \in Transactions
  BY <1>1 DEF Transactions
<1> QED BY <1>2, <1>3 DEF i

(* A ticket a loop is done with.                                           *)
LEMMA DoneType ==
  ASSUME txn \in Transactions, NEW t
  PROVE  [txn EXCEPT !.todo = @ \ {t}] \in Transactions
BY DEF Transactions

(* The provider a failure is blamed on is a provider, if any.              *)
LEMMA ProviderType ==
  ASSUME TypeOK, NEW t \in Tickets, NEW named \in NamedProviders \cup {NoProvider}
  PROVE  FailingProvider(t, named) \in Providers \cup {NoProvider}
<1>1. store.owner[t] \in Employees \cup {NoOne}
  BY StoreColumns
<1> QED BY <1>1, LifecycleAssumption DEF FailingProvider

(* A failure opens at most one incident.                                   *)
LEMMA FailFine ==
  ASSUME IInv, NEW t \in Tickets, NEW kind \in FailureKinds,
         NEW named \in NamedProviders \cup {NoProvider}, FailTicket(t, kind, named)
  PROVE  IncidentsFine'
<1>1. FailingProvider(t, named) \in Providers \cup {NoProvider}
  BY ProviderType DEF IInv
<1>2. \/ UNCHANGED incident
      \/ OpenIncident("PROVIDER", t, FailingProvider(t, named))
      \/ OpenIncident("FAILURE", t, NoProvider)
  BY DEF FailTicket
<1>3. "PROVIDER" \in IncidentTypes /\ "FAILURE" \in IncidentTypes
  BY DEF IncidentTypes
<1>4. CASE UNCHANGED incident
  BY <1>4, RestIsFine DEF IncidentsFine, IncidentsNameTickets
<1> QED BY <1>1, <1>2, <1>3, <1>4, RestIsFine, OpenedFine

(* A completion closes the incidents that waited for it.                   *)
LEMMA CompleteFine ==
  ASSUME IInv, NEW t \in Tickets, CompleteTicket(t)
  PROVE  IncidentsFine'
<1>1. ASSUME NEW i \in Incidents
      PROVE  /\ incident'[i] \in IncidentRows
             /\ incident[i].status = "NONE" => incident'[i].status = "NONE"
             /\ incident'[i].ticket = incident[i].ticket
  <2> DEFINE row == incident[i]
  <2>1. row \in IncidentRows
    BY RestIsFine DEF IncidentsFine
  <2>2. /\ incident'[i] = IF WaitsFor(i, t) THEN [row EXCEPT !.status = "CLOSED"] ELSE row
        /\ WaitsFor(i, t) => row.status = "RECOVERING"
    BY DEF CompleteTicket, WaitsFor
  <2> HIDE DEF row
  <2>3. /\ incident'[i] \in IncidentRows
        /\ row.status = "NONE" => incident'[i].status = "NONE"
        /\ incident'[i].ticket = row.ticket
    BY <2>1, <2>2 DEF IncidentRows
  <2> QED BY <2>3 DEF row
<1>2. incident' \in [Incidents -> IncidentRows]
  BY <1>1 DEF CompleteTicket
<1> QED BY <1>1, <1>2, RestIsFine DEF IncidentsFine, IncidentsNameTickets

(* What a step that leaves the incidents alone owes the other variables.   *)
LEMMA IncidentsKept ==
  ASSUME IInv, UNCHANGED incident PROVE IncidentsFine'
BY RestIsFine DEF IncidentsFine, IncidentsNameTickets

(* The commands on one ticket keep the other variables' types.             *)
LEMMA CommandFine ==
  ASSUME IInv, TicketCommand
  PROVE  RestFine'
<1> USE RestIsFine, IncidentsKept DEF RestFine
<1>1. ASSUME Create PROVE RestFine'
  BY <1>1 DEF Create, CreateTicket
<1>2. ASSUME NEW t \in Tickets, NEW e \in Employees, Lease(t, e) \/ Start(t, e)
      PROVE  RestFine'
  BY <1>2 DEF Lease, Start
<1>3. ASSUME NEW t \in Tickets, Heartbeat(t) \/ Cancel(t) PROVE RestFine'
  BY <1>3 DEF Heartbeat, Cancel
<1>4. ASSUME NEW t \in Tickets, Complete(t) PROVE RestFine'
  BY <1>4, CompleteFine DEF Complete, CompleteTicket
<1>5. ASSUME NEW t \in Tickets, CeoRetry(t) PROVE RestFine'
  BY <1>5 DEF CeoRetry
<1>6. ASSUME NEW t \in Tickets, NEW k \in FailureReports,
             NEW p \in NamedProviders \cup {NoProvider}, Fail(t, k, p)
      PROVE  RestFine'
  BY <1>6, FailFine DEF Fail, FailTicket, FailureReports
<1>7. ASSUME NEW t \in Tickets, NEW k \in FailureReports,
             NEW p \in NamedProviders \cup {NoProvider}, SubmitFail(t, k, p)
      PROVE  RestFine'
  BY <1>7, FailFine DEF SubmitFail, Submitted, FailTicket, FailureReports
<1>8. ASSUME NEW t \in Tickets, SubmitRead(t) PROVE RestFine'
  BY <1>8 DEF SubmitRead
<1>9. ASSUME NEW t \in Tickets, SubmitLate(t) \/ SubmitDropped(t)
      PROVE  RestFine'
  BY <1>9 DEF SubmitLate, SubmitDropped, Submitted
<1>10. ASSUME NEW t \in Tickets, SubmitComplete(t) PROVE RestFine'
  BY <1>10, CompleteFine DEF SubmitComplete, Submitted, CompleteTicket
<1> QED BY <1>1, <1>2, <1>3, <1>4, <1>5, <1>6, <1>7, <1>8, <1>9, <1>10
        DEF TicketCommand

(* So does every step of a tick.                                           *)
LEMMA TickFine ==
  ASSUME IInv, Tick
  PROVE  RestFine'
<1> USE RestIsFine, IncidentsKept DEF RestFine
<1>1. ASSUME NEW extra \in ExtraWorkers \cup {{}}, TickBegin(extra)
      PROVE  RestFine'
  <2>1. /\ Overdue \in SUBSET Tickets /\ NodesWithOpenIncident \in SUBSET Nodes
        /\ extra \in SUBSET Employees
    BY LifecycleAssumption DEF Overdue, NodesWithOpenIncident
  <2> QED BY <1>1, <2>1, TickTakes DEF TickBegin
<1>2. ASSUME DispatchBegin PROVE RestFine'
  <2>1. Dispatchable \in SUBSET Tickets /\ MaxDispatches \in 0 .. MaxDispatches
    BY LifecycleAssumption DEF Dispatchable
  <2>2. [txn EXCEPT !.op = "dispatch", !.todo = Dispatchable,
                    !.room = MaxDispatches] \in Transactions
    BY <2>1 DEF Transactions
  <2> QED BY <1>2, <2>2 DEF DispatchBegin
<1>3. ASSUME TickEnd PROVE RestFine'
  BY <1>3, IdleType DEF TickEnd
<1>4. ASSUME NEW t \in Tickets, TimeOut(t) PROVE RestFine'
  <2>1. UNCHANGED incident \/ OpenIncident("TIMEOUT", t, NoProvider)
    BY <1>4 DEF TimeOut
  <2>2. "TIMEOUT" \in IncidentTypes
    BY DEF IncidentTypes
  <2> QED BY <1>4, <2>1, <2>2, OpenedFine, DoneType DEF TimeOut
<1>5. ASSUME NEW t \in Tickets, DispatchFail(t) \/ DispatchSkip(t)
      PROVE  RestFine'
  BY <1>5, DoneType DEF DispatchFail, DispatchSkip, Considered
<1>6. ASSUME NEW t \in Tickets, NEW e \in Employees, Dispatch(t, e)
      PROVE  RestFine'
  <2>1. txn.room \in 0 .. MaxDispatches /\ txn.room > 0
    BY <1>6 DEF Dispatch, Considered, Transactions
  <2>2. txn.room - 1 \in 0 .. MaxDispatches
    BY <2>1, LifecycleAssumption
  <2>3. [txn EXCEPT !.todo = @ \ {t}, !.room = @ - 1] \in Transactions
    BY <2>2 DEF Transactions
  <2> QED BY <1>6, <2>3 DEF Dispatch, Considered
<1> QED BY <1>1, <1>2, <1>3, <1>4, <1>5, <1>6 DEF Tick

(* So does every step of a recovery.                                       *)
LEMMA RecoveryFine ==
  ASSUME IInv, Recovery
  PROVE  RestFine'
<1> USE RestIsFine DEF RestFine
<1>1. ASSUME NEW i \in Incidents, RestoreOnly(i) PROVE RestFine'
  BY <1>1, RecoveringFine DEF RestoreOnly, Resolvable
<1>2. ASSUME NEW i \in Incidents, RestoreAndRetry(i) PROVE RestFine'
  <2> DEFINE t == incident[i].ticket
  <2>1. PICK n \in FreshIds(store) :
          /\ StartRecovery(i, n)
          /\ txn' = IF Pending = {} THEN Idle
                    ELSE [Idle EXCEPT !.op = "recreate", !.todo = Pending,
                            !.instead = [u \in Tickets |->
                              IF u \in Lineage(store, t) THEN n ELSE NoTicket]]
    BY <1>2 DEF RestoreAndRetry
  <2>2. n \in Tickets
    BY FreshAreFree
  <2>3. txn' \in Transactions
    <3> DEFINE todo    == Pending
               instead == [u \in Tickets |->
                             IF u \in Lineage(store, t) THEN n ELSE NoTicket]
               idle    == Idle
    <3>1. todo \in SUBSET Tickets
      BY DEF Pending
    <3>2. instead \in [Tickets -> Tickets \cup {NoTicket}]
      BY <2>2
    <3>3. txn' = IF todo = {} THEN idle
                 ELSE [idle EXCEPT !.op = "recreate", !.todo = todo,
                                   !.instead = instead]
      BY <2>1
    <3>4. idle \in Transactions
      BY IdleType
    <3> HIDE DEF todo, instead, idle
    <3> QED BY <3>1, <3>2, <3>3, <3>4 DEF Transactions
  <2> QED BY <1>2, <2>1, <2>2, <2>3, RecoveringFine DEF RestoreAndRetry, Resolvable
<1>3. ASSUME NEW i \in Incidents, RecoverContained(i) PROVE RestFine'
  <2>1. PICK n \in FreshIds(store) : StartRecovery(i, n)
    BY <1>3 DEF RecoverContained
  <2> QED BY <1>3, <2>1, FreshAreFree, RecoveringFine DEF RecoverContained, Resolvable
<1>4. ASSUME NEW t \in Tickets, Recreate(t) PROVE RestFine'
  <2>1. PICK n \in FreshIds(store) :
          txn' = IF txn.todo = {t} THEN Idle
                 ELSE [txn EXCEPT !.todo = @ \ {t}, !.instead[t] = n]
    BY <1>4 DEF Recreate
  <2>2. n \in Tickets
    BY FreshAreFree
  <2>3. [txn.instead EXCEPT ![t] = n] \in [Tickets -> Tickets \cup {NoTicket}]
    BY <2>2 DEF Transactions
  <2>4. [txn EXCEPT !.todo = @ \ {t}, !.instead[t] = n] \in Transactions
    BY <2>3 DEF Transactions
  <2> QED BY <1>4, <2>1, <2>4, IdleType, IncidentsKept DEF Recreate
<1>5. ASSUME NEW t \in Tickets, RecreateSkip(t) PROVE RestFine'
  BY <1>5, IdleType, DoneType, IncidentsKept DEF RecreateSkip
<1> QED BY <1>1, <1>2, <1>3, <1>4, <1>5 DEF Recovery

(* So does every step of a freeze or restore.                              *)
LEMMA StaffingFine ==
  ASSUME IInv, Staffing
  PROVE  RestFine'
<1> USE RestIsFine, IncidentsKept DEF RestFine
<1>1. ASSUME NEW e \in Employees, FreezeBegin(e) PROVE RestFine'
  BY <1>1, StaffingTakes DEF FreezeBegin, Owned
<1>2. ASSUME NEW e \in Employees, RestoreBegin(e) PROVE RestFine'
  <2> DEFINE todo == {t \in Tickets : /\ store.status[t] = "PENDING"
                                      /\ store.spec[t].frozenFor = e
                                      /\ e \in store.spec[t].excluded}
  <2>1. todo \in SUBSET Tickets
    OBVIOUS
  <2>2. txn' = [Idle EXCEPT !.op = "restore", !.who = e, !.todo = todo]
    BY <1>2 DEF RestoreBegin
  <2> HIDE DEF todo
  <2>3. txn' \in Transactions
    BY <2>1, <2>2, StaffingTakes
  <2>4. UNCHANGED <<store, incident, employee, attempt, retried>>
    BY <1>2 DEF RestoreBegin
  <2> QED BY <2>3, <2>4
<1>3. ASSUME NEW t \in Tickets, Requeue(t) \/ Readmit(t) PROVE RestFine'
  BY <1>3, DoneType DEF Requeue, Readmit
<1>4. ASSUME NEW t \in Tickets, Contain(t) PROVE RestFine'
  <2>1. "STAFFING" \in IncidentTypes
    BY DEF IncidentTypes
  <2> QED BY <1>4, <2>1, OpenedFine, DoneType DEF Contain
<1>5. ASSUME FreezeEnd \/ RestoreEnd PROVE RestFine'
  BY <1>5, IdleType DEF FreezeEnd, RestoreEnd
<1> QED BY <1>1, <1>2, <1>3, <1>4, <1>5 DEF Staffing

(* The clock moves the timers only.                                        *)
LEMMA TimeFine ==
  ASSUME IInv, TimePasses
  PROVE  RestFine' /\ Consistent(store')
<1>1. PICK t \in Tickets, d \in Clocks : DeadlinePasses(t, d)
  BY DEF TimePasses
<1>2. store.overdue[t] \cup {d} \in SUBSET Deadlines
  BY LifecycleAssumption DEF IInv, TypeOK, Databases
<1>3. Consistent(store')
  BY <1>1, <1>2, TimersConsistent DEF DeadlinePasses, IInv
<1>4. RestFine'
  BY <1>1, RestIsFine, IncidentsKept DEF DeadlinePasses, RestFine
<1> QED BY <1>3, <1>4

-----------------------------------------------------------------------------
(* Who runs what.  A change of the database after which no ticket runs that *)
(* did not run, under the same owner, before it.                           *)
Quiet(db, new) ==
  \A u \in Tickets : new.status[u] = "EXECUTING" =>
    db.status[u] = "EXECUTING" /\ new.owner[u] = db.owner[u]

(* The columns are functions on the tickets.                               *)
LEMMA ColumnTypes ==
  ASSUME NEW db \in Databases
  PROVE  /\ db.status \in [Tickets -> Statuses]
         /\ db.owner \in [Tickets -> Employees \cup {NoOne}]
BY DEF Databases

(* Quiet changes compose.                                                  *)
LEMMA QuietTwice ==
  ASSUME NEW a, NEW b, NEW c, Quiet(a, b), Quiet(b, c) PROVE Quiet(a, c)
BY DEF Quiet

(* A created ticket does not run.                                          *)
LEMMA QuietCreated ==
  ASSUME NEW db \in Databases, NEW t \in Tickets, NEW sp \in Specs
  PROVE  Quiet(db, TicketCreated(db, t, sp))
<1> DEFINE new == TicketCreated(db, t, sp)
<1>1. /\ new.status = [db.status EXCEPT ![t] = "PENDING"]
      /\ new.owner = [db.owner EXCEPT ![t] = NoOne]
  BY CreatedColumns, ZenonT(30)
<1> HIDE DEF new
<1>2. ASSUME NEW u \in Tickets, new.status[u] = "EXECUTING"
      PROVE  db.status[u] = "EXECUTING" /\ new.owner[u] = db.owner[u]
  BY <1>1, <1>2, ColumnTypes
<1> QED BY <1>2 DEF Quiet, new

(* A leased one does not yet.                                              *)
LEMMA QuietLeased ==
  ASSUME NEW db \in Databases, NEW t \in Tickets, NEW e \in Employees
  PROVE  Quiet(db, TicketLeased(db, t, e))
<1> DEFINE new == TicketLeased(db, t, e)
<1>1. /\ new.status = [db.status EXCEPT ![t] = "LEASED"]
      /\ new.owner = [db.owner EXCEPT ![t] = e]
  BY LeasedColumns
<1> HIDE DEF new
<1>2. ASSUME NEW u \in Tickets, new.status[u] = "EXECUTING"
      PROVE  db.status[u] = "EXECUTING" /\ new.owner[u] = db.owner[u]
  BY <1>1, <1>2, ColumnTypes
<1> QED BY <1>2 DEF Quiet, new

(* One asked to stop no longer counts as running.                          *)
LEMMA QuietCancelRequested ==
  ASSUME NEW db \in Databases, NEW t \in Tickets
  PROVE  Quiet(db, TicketCancelRequested(db, t))
BY ColumnTypes, CancelRequestedColumns DEF Quiet

(* Nor does one that has ended, in any of the four ways.                   *)
LEMMA QuietCancelled ==
  ASSUME NEW db \in Databases, NEW t \in Tickets
  PROVE  Quiet(db, TicketCancelled(db, t))
<1> DEFINE new == TicketCancelled(db, t)
<1>1. /\ new.status = [db.status EXCEPT ![t] = "CANCELLED"]
      /\ new.owner = [db.owner EXCEPT ![t] = NoOne]
  BY CancelledColumns
<1> HIDE DEF new
<1>2. ASSUME NEW u \in Tickets, new.status[u] = "EXECUTING"
      PROVE  db.status[u] = "EXECUTING" /\ new.owner[u] = db.owner[u]
  BY <1>1, <1>2, ColumnTypes
<1> QED BY <1>2 DEF Quiet, new

(* Completed.                                                              *)
LEMMA QuietCompleted ==
  ASSUME NEW db \in Databases, NEW t \in Tickets
  PROVE  Quiet(db, TicketCompleted(db, t))
<1> DEFINE new == TicketCompleted(db, t)
<1>1. /\ new.status = [db.status EXCEPT ![t] = "COMPLETED"]
      /\ new.owner = [db.owner EXCEPT ![t] = NoOne]
  BY CompletedColumns
<1> HIDE DEF new
<1>2. ASSUME NEW u \in Tickets, new.status[u] = "EXECUTING"
      PROVE  db.status[u] = "EXECUTING" /\ new.owner[u] = db.owner[u]
  BY <1>1, <1>2, ColumnTypes
<1> QED BY <1>2 DEF Quiet, new

(* Timed out.                                                              *)
LEMMA QuietTimedOut ==
  ASSUME NEW db \in Databases, NEW t \in Tickets
  PROVE  Quiet(db, TicketTimedOut(db, t))
<1> DEFINE new == TicketTimedOut(db, t)
<1>1. /\ new.status = [db.status EXCEPT ![t] = "TIMED_OUT"]
      /\ new.owner = [db.owner EXCEPT ![t] = NoOne]
  BY TimedOutColumns
<1> HIDE DEF new
<1>2. ASSUME NEW u \in Tickets, new.status[u] = "EXECUTING"
      PROVE  db.status[u] = "EXECUTING" /\ new.owner[u] = db.owner[u]
  BY <1>1, <1>2, ColumnTypes
<1> QED BY <1>2 DEF Quiet, new

(* Failed.                                                                 *)
LEMMA QuietFailed ==
  ASSUME NEW db \in Databases, NEW t \in Tickets, NEW kind \in FailureKinds
  PROVE  Quiet(db, TicketFailed(db, t, kind))
<1> DEFINE new == TicketFailed(db, t, kind)
<1>1. /\ new.status = [db.status EXCEPT ![t] = "FAILED"]
      /\ new.owner = [db.owner EXCEPT ![t] = NoOne]
  BY FailedColumns
<1> HIDE DEF new
<1>2. ASSUME NEW u \in Tickets, new.status[u] = "EXECUTING"
      PROVE  db.status[u] = "EXECUTING" /\ new.owner[u] = db.owner[u]
  BY <1>1, <1>2, ColumnTypes
<1> QED BY <1>2 DEF Quiet, new

(* A retry is a created ticket.                                            *)
LEMMA QuietRetry ==
  ASSUME NEW db \in Databases, NEW t \in Tickets, NEW n \in FreshIds(db)
  PROVE  Quiet(db, ScheduleRetry(db, t, n))
BY RetryType, FreshAreFree, QuietCreated DEF ScheduleRetry

(* A quiet step that does not change the staff keeps the two facts about   *)
(* the owners of running tickets.                                          *)
Owners == ExecutingOwnerActive /\ FreezeReaches

(* Such a step, unless it takes the lock for a freeze, keeps both.         *)
LEMMA OwnersKept ==
  ASSUME IInv, Quiet(store, store'), UNCHANGED employee,
         txn'.op = "freeze" => UNCHANGED txn
  PROVE  Owners'
<1>1. ExecutingOwnerActive'
  BY DEF IInv, ExecutingOwnerActive, Quiet
<1>2. FreezeReaches'
  BY DEF IInv, FreezeReaches, Quiet
<1> QED BY <1>1, <1>2 DEF Owners

(* The database after a failure, retried or not.                           *)
LEMMA FailQuiet ==
  ASSUME IInv, NEW t \in Tickets, NEW kind \in FailureKinds,
         NEW named, FailTicket(t, kind, named)
  PROVE  Quiet(store, store')
<1> DEFINE db == TicketFailed(store, t, kind)
<1>1. Consistent(db) /\ Quiet(store, db)
  BY EndedConsistent, QuietFailed DEF IInv, Consistent
<1>2. \/ store' = db
      \/ \E n \in FreshIds(db) : store' = ScheduleRetry(db, t, n)
  BY DEF FailTicket
<1>3. ASSUME NEW n \in FreshIds(db) PROVE Quiet(store, ScheduleRetry(db, t, n))
  <2>1. Quiet(db, ScheduleRetry(db, t, n))
    BY <1>1, QuietRetry DEF Consistent
  <2> HIDE DEF db
  <2> QED BY <1>1, <2>1, QuietTwice
<1> QED BY <1>1, <1>2, <1>3

(* A change of the timers only.                                            *)
LEMMA TimersQuiet ==
  ASSUME NEW db \in Databases, NEW t \in Tickets, NEW due
  PROVE  Quiet(db, [db EXCEPT !.overdue[t] = due])
<1> DEFINE new == [db EXCEPT !.overdue[t] = due]
<1>1. new.status = db.status /\ new.owner = db.owner
  BY DEF Databases
<1> HIDE DEF new
<1> QED BY <1>1 DEF Quiet, new

(* A command on one ticket takes no lock.  Only a start makes a ticket     *)
(* run, and it has just looked at the worker's state.                      *)
LEMMA CommandOwners ==
  ASSUME IInv, TicketCommand
  PROVE  Owners'
<1>1. store \in Databases
  BY DEF IInv, Consistent
<1>2. ASSUME Create PROVE Owners'
  <2>1. PICK t \in Tickets, n \in Nodes, p \in ParentChoices \cup {NoTicket},
             gates \in GateChoices \cup {{}}, a \in Assignees \cup {NoOne} :
               CreateTicket(t, n, p, gates, a, p # NoTicket)
    BY <1>2 DEF Create
  <2>2. /\ p \in Tickets \cup {NoTicket} /\ gates \in SUBSET Tickets
        /\ a \in Employees \cup {NoOne} /\ (p # NoTicket) \in BOOLEAN
    BY LifecycleAssumption
  <2>3. Quiet(store, store')
    BY <1>1, <2>1, <2>2, CreatedSpec, QuietCreated DEF CreateTicket
  <2> QED BY <2>1, <2>3, OwnersKept DEF CreateTicket
<1>3. ASSUME NEW t \in Tickets, NEW e \in Employees, Lease(t, e) PROVE Owners'
  BY <1>1, <1>3, QuietLeased, OwnersKept DEF Lease
<1>4. ASSUME NEW t \in Tickets, NEW e \in Employees, Start(t, e) PROVE Owners'
  <2>1. /\ store'.status = [store.status EXCEPT ![t] = "EXECUTING"]
        /\ store'.owner = store.owner
        /\ store.owner[t] = e /\ employee[e] = "ACTIVE" /\ UNCHANGED employee
        /\ txn.op = "none" /\ UNCHANGED txn
    BY <1>1, <1>4, StartedColumns DEF Start, Unlocked
  <2>2. ExecutingOwnerActive'
    BY <1>1, <2>1, ColumnTypes DEF IInv, ExecutingOwnerActive
  <2>3. FreezeReaches'
    BY <2>1 DEF FreezeReaches
  <2> QED BY <2>2, <2>3 DEF Owners
<1>5. ASSUME NEW t \in Tickets, Heartbeat(t) PROVE Owners'
  <2>1. Quiet(store, store')
    BY <1>1, <1>5, TimersQuiet DEF Heartbeat, HeartbeatRecorded
  <2> QED BY <1>5, <2>1, OwnersKept DEF Heartbeat
<1>6. ASSUME NEW t \in Tickets, Cancel(t) PROVE Owners'
  <2>1. Quiet(store, store')
    BY <1>1, <1>6, QuietCancelRequested, QuietCancelled DEF Cancel
  <2> QED BY <1>6, <2>1, OwnersKept DEF Cancel
<1>7. ASSUME NEW t \in Tickets, CompleteTicket(t) PROVE Owners'
  <2>1. Quiet(store, store')
    BY <1>1, <1>7, QuietCompleted DEF CompleteTicket
  <2> QED BY <1>7, <2>1, OwnersKept DEF CompleteTicket
<1>8. ASSUME NEW t \in Tickets, CeoRetry(t) PROVE Owners'
  <2>1. Quiet(store, store')
    BY <1>1, <1>8, QuietRetry DEF CeoRetry
  <2> QED BY <1>8, <2>1, OwnersKept DEF CeoRetry
<1>9. ASSUME NEW t \in Tickets, NEW k \in FailureReports,
             NEW p \in NamedProviders \cup {NoProvider}, FailTicket(t, k, p)
      PROVE  Owners'
  <2>1. Quiet(store, store')
    BY <1>9, FailQuiet DEF FailureReports
  <2> QED BY <1>9, <2>1, OwnersKept DEF FailTicket
<1>10. ASSUME NEW t \in Tickets, SubmitRead(t) \/ SubmitDropped(t)
       PROVE  Owners'
  BY <1>10, OwnersKept DEF SubmitRead, SubmitDropped, Quiet
<1>11. ASSUME NEW t \in Tickets, SubmitLate(t) PROVE Owners'
  <2>1. Quiet(store, store')
    BY <1>1, <1>11, QuietCancelled DEF SubmitLate
  <2> QED BY <1>11, <2>1, OwnersKept DEF SubmitLate
<1> QED BY <1>2, <1>3, <1>4, <1>5, <1>6, <1>7, <1>8, <1>9, <1>10, <1>11
        DEF TicketCommand, Complete, Fail, SubmitFail, SubmitComplete

(* A tick makes nothing run, and is no freeze.                             *)
LEMMA TickOwners ==
  ASSUME IInv, Tick
  PROVE  Owners'
<1>1. store \in Databases
  BY DEF IInv, Consistent
<1>2. ASSUME NEW extra, TickBegin(extra) PROVE Owners'
  BY <1>2, OwnersKept DEF TickBegin, Idle, Quiet
<1>3. txn \in Transactions
  BY DEF IInv, TypeOK
<1>4. ASSUME DispatchBegin PROVE Owners'
  BY <1>3, <1>4, OwnersKept DEF DispatchBegin, Quiet, Transactions
<1>5. ASSUME TickEnd PROVE Owners'
  BY <1>5, OwnersKept DEF TickEnd, Idle, Quiet
<1>6. ASSUME NEW t \in Tickets, txn.op \in {"time out", "dispatch"}
      PROVE  [txn EXCEPT !.todo = @ \ {t}].op # "freeze"
  BY <1>3, <1>6 DEF Transactions
<1>7. ASSUME NEW t \in Tickets, TimeOut(t) PROVE Owners'
  <2> DEFINE db == TicketTimedOut(store, t)
  <2>1. Consistent(db) /\ Quiet(store, db)
    BY EndedConsistent, QuietTimedOut DEF IInv, Consistent
  <2>2. \/ store' = db
        \/ \E n \in FreshIds(db) : store' = ScheduleRetry(db, t, n)
    BY <1>7 DEF TimeOut
  <2>3. ASSUME NEW n \in FreshIds(db)
        PROVE  Quiet(store, ScheduleRetry(db, t, n))
    <3>1. Quiet(db, ScheduleRetry(db, t, n))
      BY <2>1, QuietRetry DEF Consistent
    <3> HIDE DEF db
    <3> QED BY <2>1, <3>1, QuietTwice
  <2>4. Quiet(store, store')
    BY <2>1, <2>2, <2>3
  <2>5. txn'.op # "freeze" /\ UNCHANGED employee
    BY <1>6, <1>7 DEF TimeOut
  <2> QED BY <2>4, <2>5, OwnersKept
<1>8. ASSUME NEW t \in Tickets, DispatchFail(t) PROVE Owners'
  <2>1. Quiet(store, store')
    BY <1>1, <1>8, QuietFailed DEF DispatchFail, FailureKinds
  <2>2. txn'.op # "freeze" /\ UNCHANGED employee
    BY <1>6, <1>8 DEF DispatchFail, Considered
  <2> QED BY <2>1, <2>2, OwnersKept
<1>9. ASSUME NEW t \in Tickets, DispatchSkip(t) PROVE Owners'
  <2>1. txn'.op # "freeze" /\ UNCHANGED employee
    BY <1>6, <1>9 DEF DispatchSkip, Considered
  <2> QED BY <1>9, <2>1, OwnersKept DEF DispatchSkip, Quiet
<1>10. ASSUME NEW t \in Tickets, NEW e \in Employees, Dispatch(t, e)
       PROVE  Owners'
  <2>1. Quiet(store, store')
    BY <1>1, <1>10, QuietLeased DEF Dispatch
  <2>2. txn'.op # "freeze"
    BY <1>3, <1>10 DEF Dispatch, Considered, Transactions
  <2> QED BY <1>10, <2>1, <2>2, OwnersKept DEF Dispatch, Considered
<1> QED BY <1>2, <1>4, <1>5, <1>7, <1>8, <1>9, <1>10 DEF Tick

(* Recovery creates and cancels.                                           *)
LEMMA RecoveryOwners ==
  ASSUME IInv, Recovery
  PROVE  Owners'
<1>1. store \in Databases
  BY DEF IInv, Consistent
<1>2. ASSUME NEW i \in Incidents, RestoreOnly(i) PROVE Owners'
  BY <1>2, OwnersKept DEF RestoreOnly, Quiet
<1>3. ASSUME NEW i \in Incidents, Resolvable(i)
      PROVE  incident[i].ticket \in Tickets /\ txn.op = "none"
  BY <1>3 DEF Resolvable, Accepts, Unlocked, Tripped, IInv, IncidentsNameTickets
<1>4. ASSUME NEW i \in Incidents, RestoreAndRetry(i) PROVE Owners'
  <2> DEFINE t == incident[i].ticket
  <2>1. PICK n \in FreshIds(store) :
          /\ store' = ScheduleRetry(store, t, n)
          /\ txn' = IF Pending = {} THEN Idle
                    ELSE [Idle EXCEPT !.op = "recreate", !.todo = Pending,
                            !.instead = [u \in Tickets |->
                              IF u \in Lineage(store, t) THEN n ELSE NoTicket]]
    BY <1>4 DEF RestoreAndRetry
  <2>2. t \in Tickets
    BY <1>3, <1>4 DEF RestoreAndRetry
  <2>3. Quiet(store, store')
    BY <1>1, <2>1, <2>2, QuietRetry
  <2>4. txn'.op # "freeze"
    BY <2>1 DEF Idle
  <2> QED BY <1>4, <2>3, <2>4, OwnersKept DEF RestoreAndRetry
<1>5. ASSUME NEW i \in Incidents, RecoverContained(i) PROVE Owners'
  <2> DEFINE t  == incident[i].ticket
             db == IF store.status[t] = "CANCEL_REQUESTED"
                   THEN TicketCancelled(store, t) ELSE store
             sp == [store.spec[t] EXCEPT !.parent = t]
  <2>1. PICK n \in FreshIds(store) : store' = TicketCreated(db, n, sp)
    BY <1>5 DEF RecoverContained
  <2>2. t \in Tickets
    BY <1>3, <1>5 DEF RecoverContained
  <2>3. Quiet(store, db) /\ db \in Databases
    BY <1>1, <2>2, QuietCancelled, CancelledConsistent DEF IInv, Consistent, Quiet
  <2>4. sp \in Specs
    BY <2>2, StoreColumns, FollowupSpec DEF IInv
  <2> HIDE DEF db, sp
  <2>5. Quiet(db, store')
    BY <2>1, <2>3, <2>4, FreshAreFree, QuietCreated
  <2>6. Quiet(store, store')
    BY <2>3, <2>5, QuietTwice
  <2> QED BY <1>5, <2>6, OwnersKept DEF RecoverContained
<1>6. ASSUME NEW t \in Tickets, Recreate(t) PROVE Owners'
  <2> DEFINE p  == store.spec[t].parent
             db == TicketCancelled(store, t)
             sp == [store.spec[t] EXCEPT !.parent = txn.instead[p]]
  <2>1. PICK n \in FreshIds(store) :
          /\ store' = TicketCreated(db, n, sp)
          /\ txn' = IF txn.todo = {t} THEN Idle
                    ELSE [txn EXCEPT !.todo = @ \ {t}, !.instead[t] = n]
    BY <1>6 DEF Recreate
  <2>2. Quiet(store, db) /\ db \in Databases
    BY <1>1, QuietCancelled, CancelledConsistent DEF IInv, Consistent
  <2>3. txn.instead[p] \in Tickets
    BY <1>1, <1>6, SpecFields DEF Recreate, Replaced, IInv, TypeOK, Transactions
  <2>4. sp \in Specs
    BY <2>3, StoreColumns, FollowupSpec DEF IInv
  <2> HIDE DEF db, sp
  <2>5. Quiet(db, store')
    BY <2>1, <2>2, <2>4, FreshAreFree, QuietCreated
  <2>6. Quiet(store, store')
    BY <2>2, <2>5, QuietTwice
  <2>7. txn'.op # "freeze"
    BY <1>6, <2>1 DEF Recreate, IInv, TypeOK, Transactions, Idle
  <2> QED BY <1>6, <2>6, <2>7, OwnersKept DEF Recreate
<1>7. ASSUME NEW t \in Tickets, RecreateSkip(t) PROVE Owners'
  <2>1. txn'.op # "freeze"
    BY <1>7 DEF RecreateSkip, IInv, TypeOK, Transactions, Idle
  <2> QED BY <1>7, <2>1, OwnersKept DEF RecreateSkip, Quiet
<1> QED BY <1>2, <1>4, <1>5, <1>6, <1>7 DEF Recovery

(* A freeze begins with everything its employee runs still to be           *)
(* contained, contains it ticket by ticket, and ends when nothing is left. *)
LEMMA StaffingOwners ==
  ASSUME IInv, Staffing
  PROVE  Owners'
<1>1. /\ store \in Databases /\ txn \in Transactions
      /\ ExecutingOwnerActive /\ FreezeReaches
      /\ employee \in [Employees -> {"ACTIVE", "FROZEN"}]
  BY DEF IInv, Consistent, TypeOK
<1>2. ASSUME NEW e \in Employees, FreezeBegin(e) PROVE Owners'
  <2>1. /\ txn' = [Idle EXCEPT !.op = "freeze", !.todo = Owned(e), !.who = e]
        /\ UNCHANGED <<store, employee>>
    BY <1>2 DEF FreezeBegin
  <2>2. txn'.who = e /\ txn'.todo = Owned(e)
    BY <2>1 DEF Idle
  <2>3. FreezeReaches'
    BY <2>1, <2>2 DEF FreezeReaches, Owned
  <2> QED BY <1>1, <2>1, <2>3 DEF Owners, ExecutingOwnerActive
<1>3. ASSUME NEW e \in Employees, RestoreBegin(e) PROVE Owners'
  BY <1>3, OwnersKept DEF RestoreBegin, Idle, Quiet
<1>4. ASSUME NEW t \in Tickets, Quiet(store, store'),
             store'.status[t] # "EXECUTING",
             txn' = [txn EXCEPT !.todo = @ \ {t}], UNCHANGED employee
      PROVE  Owners'
  <2>1. ExecutingOwnerActive'
    BY <1>1, <1>4 DEF ExecutingOwnerActive, Quiet
  <2>2. txn'.op = txn.op /\ txn'.who = txn.who /\ txn'.todo = txn.todo \ {t}
    BY <1>1, <1>4 DEF Transactions
  <2>3. FreezeReaches'
    BY <1>1, <1>4, <2>2 DEF FreezeReaches, Quiet
  <2> QED BY <2>1, <2>3 DEF Owners
<1>5. ASSUME NEW t \in Tickets, Requeue(t) PROVE Owners'
  <2> DEFINE ex == store.spec[t].excluded \cup {txn.who}
             sp == [store.spec[t] EXCEPT !.excluded = ex, !.frozenFor = txn.who]
  <2>1. txn.who \in Employees
    BY <1>1, <1>5 DEF Requeue, FreezeReaches
  <2>2. ex \in SUBSET Employees
    BY <1>1, <2>1 DEF Databases, Specs
  <2>3. sp \in Specs
    BY <2>1, <2>2, StoreColumns, RequeuedSpec DEF IInv
  <2>4. store' = TicketCreated(store, t, sp)
    BY <1>5 DEF Requeue
  <2> HIDE DEF sp, ex
  <2>5. Quiet(store, store') /\ store'.status[t] # "EXECUTING"
    <3>1. store'.status = [store.status EXCEPT ![t] = "PENDING"]
      BY <1>1, <2>3, <2>4, CreatedColumns
    <3>2. store'.status[t] = "PENDING"
      BY <1>1, <3>1, ColumnTypes
    <3>3. Quiet(store, store')
      BY <1>1, <2>3, <2>4, QuietCreated
    <3> QED BY <3>2, <3>3
  <2> QED BY <1>4, <1>5, <2>5 DEF Requeue
<1>6. ASSUME NEW t \in Tickets, Contain(t) PROVE Owners'
  <2>1. Quiet(store, store') /\ store'.status[t] # "EXECUTING"
    <3>1. CASE store.status[t] = "EXECUTING"
      <4>1. store' = TicketCancelRequested(store, t)
        BY <1>6, <3>1 DEF Contain
      <4>2. Quiet(store, store')
        BY <1>1, <3>1, <4>1, QuietCancelRequested
      <4>3. store'.status = [store.status EXCEPT ![t] = "CANCEL_REQUESTED"]
        BY <1>1, <4>1, CancelRequestedColumns
      <4>4. store'.status[t] = "CANCEL_REQUESTED"
        BY <1>1, <4>3, ColumnTypes
      <4> QED BY <4>2, <4>4
    <3>2. CASE store.status[t] # "EXECUTING"
      BY <1>6, <3>2 DEF Contain, Quiet
    <3> QED BY <3>1, <3>2
  <2> QED BY <1>4, <1>6, <2>1 DEF Contain
<1>7. ASSUME NEW t \in Tickets, Readmit(t) PROVE Owners'
  <2> DEFINE ex == store.spec[t].excluded \ {txn.who}
             sp == [store.spec[t] EXCEPT !.excluded = ex]
  <2>1. ex \in SUBSET Employees
    BY <1>1 DEF Databases, Specs
  <2>2. sp \in Specs
    BY <2>1, StoreColumns, ReadmittedSpec DEF IInv
  <2>3. store' = TicketCreated(store, t, sp)
    BY <1>7 DEF Readmit
  <2> HIDE DEF sp, ex
  <2>4. Quiet(store, store') /\ store'.status[t] # "EXECUTING"
    <3>1. store'.status = [store.status EXCEPT ![t] = "PENDING"]
      BY <1>1, <2>2, <2>3, CreatedColumns
    <3>2. store'.status[t] = "PENDING"
      BY <1>1, <3>1, ColumnTypes
    <3>3. Quiet(store, store')
      BY <1>1, <2>2, <2>3, QuietCreated
    <3> QED BY <3>2, <3>3
  <2> QED BY <1>4, <1>7, <2>4 DEF Readmit
<1>8. ASSUME FreezeEnd PROVE Owners'
  <2>1. /\ txn.who \in Employees
        /\ \A t \in Tickets : store.status[t] = "EXECUTING" => store.owner[t] # txn.who
    BY <1>1, <1>8 DEF FreezeEnd, FreezeReaches
  <2>2. ExecutingOwnerActive'
    BY <1>1, <1>8, <2>1 DEF FreezeEnd, ExecutingOwnerActive
  <2> QED BY <1>8, <2>2 DEF Owners, FreezeEnd, FreezeReaches, Idle
<1>9. ASSUME RestoreEnd PROVE Owners'
  BY <1>1, <1>9 DEF Owners, RestoreEnd, ExecutingOwnerActive, FreezeReaches, Idle
<1> QED BY <1>2, <1>3, <1>5, <1>6, <1>7, <1>8, <1>9 DEF Staffing

(* The clock makes nothing run.                                            *)
LEMMA TimeOwners ==
  ASSUME IInv, TimePasses
  PROVE  Owners'
<1>1. PICK t \in Tickets, d \in Clocks : DeadlinePasses(t, d)
  BY DEF TimePasses
<1>2. Quiet(store, store')
  BY <1>1, TimersQuiet DEF DeadlinePasses, IInv, Consistent
<1> QED BY <1>1, <1>2, OwnersKept DEF DeadlinePasses

-----------------------------------------------------------------------------
(* IInv holds to begin with.                                               *)
LEMMA Initially == Init => IInv
<1> SUFFICES ASSUME Init PROVE IInv
  OBVIOUS
<1>1. Consistent(store)
  BY EmptyType DEF Init
<1>2. \A t \in Tickets : store.status[t] = "NONE"
  BY DEF Init, EmptyDatabase
<1>3. NoIncident \in IncidentRows
  BY DEF NoIncident, IncidentRows
<1>4. TypeOK
  BY <1>1, <1>3, IdleType DEF Init, TypeOK, Consistent
<1> QED BY <1>1, <1>2, <1>4
        DEF Init, IInv, IncidentsNameTickets, NoIncident, ExecutingOwnerActive,
            FreezeReaches, Idle

(* Every step keeps it.                                                    *)
LEMMA Step == IInv /\ [Next]_vars => IInv'
<1> SUFFICES ASSUME IInv, [Next]_vars PROVE IInv'
  OBVIOUS
<1>1. ASSUME Consistent(store'), RestFine', Owners' PROVE IInv'
  BY <1>1 DEF IInv, TypeOK, Consistent, RestFine, IncidentsFine, Owners
<1>2. CASE TicketCommand
  BY <1>1, <1>2, CommandConsistent, CommandFine, CommandOwners
<1>3. CASE Tick
  BY <1>1, <1>3, TickConsistent, TickFine, TickOwners
<1>4. CASE Recovery
  BY <1>1, <1>4, RecoveryConsistent, RecoveryFine, RecoveryOwners
<1>5. CASE Staffing
  BY <1>1, <1>5, StaffingConsistent, StaffingFine, StaffingOwners
<1>6. CASE TimePasses
  BY <1>1, <1>6, TimeFine, TimeOwners
<1>7. CASE UNCHANGED vars
  BY <1>7 DEF vars, IInv, TypeOK, IncidentsNameTickets, ExecutingOwnerActive,
              FreezeReaches, Consistent
<1> QED BY <1>2, <1>3, <1>4, <1>5, <1>6, <1>7 DEF Next

(* So it always holds.                                                     *)
LEMMA Invariance == Spec => []IInv
BY Initially, Step, PTL DEF Spec

(* Every handler leaves every projection well formed.                      *)
THEOREM TypeCorrect == Spec => []TypeOK
<1>1. IInv => TypeOK
  BY DEF IInv
<1> QED BY <1>1, Invariance, PTL

(* Whatever the handlers do, a node row agrees with the ticket row it      *)
(* points at: checking one row is as good as checking both.                *)
THEOREM NodeRowsAgree == Spec => []NodeMirrorsTicket
<1>1. IInv => NodeMirrorsTicket
  BY DEF IInv, Consistent, Mirrors, NodeMirrorsTicket
<1> QED BY <1>1, Invariance, PTL

(* However freezes interleave with leases, starts, ticks and recoveries,   *)
(* nobody who is frozen runs a ticket.                                     *)
THEOREM RunningOwnersActive == Spec => []ExecutingOwnerActive
<1>1. IInv => ExecutingOwnerActive
  BY DEF IInv
<1> QED BY <1>1, Invariance, PTL

-----------------------------------------------------------------------------
(* What the steps do to the tickets, for the properties below: each step   *)
(* moves at most two of them, in one of the ways listed here.              *)

(* Operators may resolve incidents, or the CEO may retry old tickets.      *)
MayOperate == Commands \cap {"resolve", "ceo retry"} # {}

Still(db, new) ==
  /\ \A u \in Tickets : SameTicket(db, new, u)
  /\ \A n \in Nodes : SameNode(db, new, n)

(* A ticket that nobody had: within its budget, unless an operator acts,   *)
(* and on a node that takes one, unless operators or the CEO may.          *)
Queued(db, new, t, sp) ==
  /\ db.status[t] = "NONE" /\ sp \in Specs
  /\ MayOperate \/ /\ db.nodeStatus[sp.node] \in {"NONE", "REWORK_REQUIRED"}
                   /\ sp.parent # NoTicket => Exists(db, sp.parent)
  /\ sp.retries <= RetryBudget \/ OperatorActs
  /\ Turns(db, new, t, "PENDING", NoOne, db.outcome[t], sp)

Requeued(db, new, t, sp) ==
  /\ db.status[t] \in {"PENDING", "LEASED"} /\ sp \in Specs
  /\ sp.node = NodeOf(db, t) /\ sp.parent = db.spec[t].parent /\ OperatorActs
  /\ Turns(db, new, t, "PENDING", NoOne, db.outcome[t], sp)

(* The scheduler looks at what a lease by hand does not.                   *)
Scheduled(t, e) ==
  /\ GatesOpen(t) /\ ~ NodePaused(NodeOf(store, t)) /\ e \notin Busy

Claimed(db, new, t, e) ==
  /\ "lease" \in Commands \/ Scheduled(t, e)
  /\ db.status[t] \in {"PENDING", "LEASED"} /\ IsLatest(db, t) /\ e \in Employees
  /\ Turns(db, new, t, "LEASED", e, db.outcome[t], db.spec[t])

Started(db, new, t) ==
  /\ db.status[t] = "LEASED" /\ IsLatest(db, t) /\ db.owner[t] \in Employees
  /\ "lease" \notin db.overdue[t]
  /\ Turns(db, new, t, "EXECUTING", db.owner[t], db.outcome[t], db.spec[t])

AskedToStop(db, new, t) ==
  /\ db.status[t] = "EXECUTING"
  /\ Turns(db, new, t, "CANCEL_REQUESTED", db.owner[t], db.outcome[t], db.spec[t])

(* Cancelled at once, or late, after an execution was asked to stop.       *)
Cancelled(db, new, t) ==
  /\ Exists(db, t)
  /\ \/ MayOperate
     \/ IsLatest(db, t) /\ db.status[t] \notin DeadStatus
     \/ attempt[t] = "late"
  /\ Turns(db, new, t, "CANCELLED", NoOne, db.outcome[t], db.spec[t])

Ended(db, new, t, s, out) ==
  /\ \/ db.status[t] = "EXECUTING" /\ s \in {"COMPLETED", "FAILED", "TIMED_OUT"}
     \/ db.status[t] \in {"PENDING", "LEASED"} /\ s = "FAILED"
  /\ out = "COMPLETED" <=> s = "COMPLETED"
  /\ Turns(db, new, t, s, NoOne, out, db.spec[t])

(* The moves of one event.                                                 *)
Moves(db, new, t) ==
  \/ \E sp \in Specs : Queued(db, new, t, sp) \/ Requeued(db, new, t, sp)
  \/ \E e \in Employees : Claimed(db, new, t, e)
  \/ Started(db, new, t) \/ AskedToStop(db, new, t) \/ Cancelled(db, new, t)
  \/ \E s \in DeadStatus, out \in Outcomes : Ended(db, new, t, s, out)

(* The steps of one event, and those that create the next attempt at once. *)
OneEvent ==
  \E t \in Tickets : Moves(store, store', t)

TwoEvents ==
  \E t \in Tickets, n \in Tickets, mid \in Databases :
    /\ Consistent(mid)
    /\ Cancelled(store, mid, t) \/ \E s \in DeadStatus, out \in Outcomes : Ended(store, mid, t, s, out)
    /\ \E sp \in Specs : Queued(mid, store', n, sp)

StoreStep == Still(store, store') \/ OneEvent \/ TwoEvents

(* The looping handlers know the status of what is left to do.             *)
LoopsKnow ==
  /\ txn.op = "time out" => \A t \in txn.todo : store.status[t] = "EXECUTING"
  /\ txn.op \in {"restore", "recreate"} => \A t \in txn.todo : store.status[t] = "PENDING"
  /\ txn.op = "recreate" => MayOperate

(* A result is submitted for a ticket there is.                            *)
SubmissionsExist == \A t \in Tickets : attempt[t] # "none" => Exists(store, t)

(* A ticket that completed is done for good: it may only be cancelled yet. *)
CompletedStays(db) ==
  \A t \in Tickets : db.outcome[t] = "COMPLETED" => db.status[t] \in {"COMPLETED", "CANCELLED"}

(* The second inductive invariant, on top of the first.                    *)
JInv ==
  /\ IInv
  /\ LoopsKnow /\ SubmissionsExist /\ CompletedStays(store)
  /\ BreakerFollowsIncident /\ ClosedOnlyByFollowup

-----------------------------------------------------------------------------
(* The retry of a ticket that has just ended, within its budget.           *)
LEMMA RetryQueued ==
  ASSUME NEW db, Consistent(db), NEW t \in Tickets,
         IsLatest(db, t), db.status[t] \in {"FAILED", "TIMED_OUT"},
         db.spec[t].retries < RetryBudget, NEW n \in FreshIds(db)
  PROVE  Queued(db, ScheduleRetry(db, t, n), n, RetrySpec(db, t))
<1> DEFINE sp == RetrySpec(db, t)
<1>1. /\ db \in Databases /\ n \in Tickets /\ db.status[n] = "NONE"
      /\ sp \in Specs /\ sp.node = NodeOf(db, t) /\ sp.retries <= RetryBudget
  <2>1. db.spec[t].retries \in Nat /\ RetryBudget \in Nat
    BY SpecFields, LifecycleAssumption DEF Consistent
  <2> QED BY <2>1, RetryType, FreshAreFree DEF Consistent, Exists
<1>2. sp.parent = t
  BY <1>1, SpecFields DEF RetrySpec, Specs
<1>3. db.nodeStatus[sp.node] = "REWORK_REQUIRED"
  <2>1. NodeOf(db, t) \in Nodes /\ t # NoTicket
    BY <1>1, SpecFields, TicketsAreTickets
  <2> QED BY <1>1, <2>1 DEF Consistent, Mirrors, IsLatest, NodeStatusFor
<1>4. Turns(db, ScheduleRetry(db, t, n), n, "PENDING", NoOne, db.outcome[n], sp)
  BY <1>1, CreatedTurns DEF ScheduleRetry
<1> HIDE DEF sp
<1>5. Queued(db, ScheduleRetry(db, t, n), n, sp)
  BY <1>1, <1>2, <1>3, <1>4 DEF Queued, Exists
<1> QED BY <1>5 DEF sp

(* A timer that moves, of a lease or not.                                  *)
LEMMA TimersStill ==
  ASSUME NEW db \in Databases, NEW t \in Tickets, NEW due \in SUBSET Deadlines,
         "lease" \in db.overdue[t] => "lease" \in due
  PROVE  Still(db, [db EXCEPT !.overdue[t] = due])
<1> DEFINE new == [db EXCEPT !.overdue[t] = due]
<1>1. /\ new.status = db.status /\ new.owner = db.owner /\ new.outcome = db.outcome
      /\ new.spec = db.spec /\ new.latest = db.latest /\ new.nodeStatus = db.nodeStatus
      /\ new.overdue = [db.overdue EXCEPT ![t] = due]
  BY DEF Databases
<1> HIDE DEF new
<1>2. ASSUME NEW u \in Tickets PROVE SameTicket(db, new, u)
  BY <1>1 DEF SameTicket, Databases
<1>3. ASSUME NEW n \in Nodes PROVE SameNode(db, new, n)
  BY <1>1 DEF SameNode
<1> QED BY <1>2, <1>3 DEF Still, new

(* Nothing moves when nothing changes.                                     *)
LEMMA UnchangedStill == ASSUME NEW db PROVE Still(db, db)
BY DEF Still, SameTicket, SameNode

(* A node row that is queued or running points at a ticket that is.        *)
LEMMA LatestStatus ==
  ASSUME NEW db, Consistent(db), NEW t \in Tickets, IsLatest(db, t)
  PROVE  /\ Exists(db, t) /\ NodeOf(db, t) \in Nodes
         /\ db.nodeStatus[NodeOf(db, t)] = NodeStatusFor(db.status[t])
         /\ db.nodeStatus[NodeOf(db, t)] = "PENDING" => db.status[t] \in {"PENDING", "LEASED"}
<1>1. NodeOf(db, t) \in Nodes /\ t # NoTicket /\ db.status[t] \in Statuses
  BY SpecFields, TicketsAreTickets, ColumnTypes DEF Consistent
<1>2. Exists(db, t) /\ db.nodeStatus[NodeOf(db, t)] = NodeStatusFor(db.status[t])
  BY <1>1 DEF Consistent, Mirrors, IsLatest
<1> QED BY <1>1, <1>2 DEF NodeStatusFor, Statuses, LiveStatus, DeadStatus

(* An ended ticket, and the retry that may follow.                         *)
LEMMA EndsThenRetries ==
  ASSUME Consistent(store), NEW t \in Tickets, NEW db, Consistent(db),
         NEW s \in {"FAILED", "TIMED_OUT"}, NEW out \in Outcomes,
         Ended(store, db, t, s, out),
         store' = db \/ /\ BudgetLeft(t)
                        /\ \E n \in FreshIds(db) : store' = ScheduleRetry(db, t, n)
  PROVE  StoreStep
<1>1. s \in DeadStatus /\ db \in Databases
  BY DEF DeadStatus, Consistent
<1>2. CASE store' = db
  BY <1>1, <1>2 DEF StoreStep, OneEvent, Moves
<1>3. CASE BudgetLeft(t) /\ \E n \in FreshIds(db) : store' = ScheduleRetry(db, t, n)
  <2>1. PICK n \in FreshIds(db) : store' = ScheduleRetry(db, t, n)
    BY <1>3
  <2>2. db.spec[t] = store.spec[t] /\ db.status[t] = s /\ IsLatest(db, t)
    BY DEF Ended, Turns, IsLatest, NodeOf
  <2>3. Queued(db, store', n, RetrySpec(db, t))
    BY <1>3, <2>1, <2>2, RetryQueued DEF BudgetLeft
  <2>4. n \in Tickets /\ RetrySpec(db, t) \in Specs
    BY <1>1, RetryType, FreshAreFree
  <2>5. \E sp \in Specs : Queued(db, store', n, sp)
    BY <2>3, <2>4
  <2>6. TwoEvents
    BY <1>1, <2>4, <2>5 DEF TwoEvents
  <2> QED BY <2>6 DEF StoreStep
<1> QED BY <1>2, <1>3

(* A failure ends a running ticket; the retry comes with it.               *)
LEMMA FailStep ==
  ASSUME Consistent(store), NEW t \in Tickets, NEW kind \in FailureKinds, NEW named,
         FailTicket(t, kind, named)
  PROVE  StoreStep
<1> DEFINE db == TicketFailed(store, t, kind)
<1>1. Consistent(db) /\ Turns(store, db, t, "FAILED", NoOne, kind, store.spec[t])
  BY EndedConsistent, FailedTurns DEF Consistent
<1>2. kind \in Outcomes /\ kind # "COMPLETED"
  BY ProjectionAssumption DEF Outcomes, FailureKinds
<1>3. Ended(store, db, t, "FAILED", kind)
  BY <1>1, <1>2 DEF Ended, FailTicket, Executing
<1>4. store' = db \/ /\ BudgetLeft(t)
                     /\ \E n \in FreshIds(db) : store' = ScheduleRetry(db, t, n)
  BY DEF FailTicket, RetriesFailure
<1> HIDE DEF db
<1> QED BY <1>1, <1>2, <1>3, <1>4, EndsThenRetries

(* A cancellation is one of the ends that keep the outcome.                *)
LEMMA CancelStep ==
  ASSUME Consistent(store), NEW t \in Tickets, store' = TicketCancelled(store, t),
         Exists(store, t),
         \/ MayOperate
         \/ IsLatest(store, t) /\ store.status[t] \notin DeadStatus
         \/ attempt[t] = "late"
  PROVE  StoreStep
<1>1. Turns(store, store', t, "CANCELLED", NoOne, store.outcome[t], store.spec[t])
  BY CancelledTurns DEF Consistent
<1> QED BY <1>1 DEF StoreStep, OneEvent, Moves, Cancelled

(* The commands on one ticket.                                             *)
LEMMA CommandMoves ==
  ASSUME JInv, TicketCommand
  PROVE  StoreStep
<1>1. /\ Consistent(store) /\ store \in Databases
      /\ attempt \in [Tickets -> {"none", "late", "work"}] /\ SubmissionsExist
  BY DEF JInv, IInv, Consistent, TypeOK
<1>2. ASSUME Create PROVE StoreStep
  <2>1. PICK t \in Tickets, n \in Nodes, p \in ParentChoices \cup {NoTicket},
             gates \in GateChoices \cup {{}}, a \in Assignees \cup {NoOne} :
               CreateTicket(t, n, p, gates, a, p # NoTicket)
    BY <1>2 DEF Create
  <2>2. /\ p \in Tickets \cup {NoTicket} /\ gates \in SUBSET Tickets
        /\ a \in Employees \cup {NoOne} /\ (p # NoTicket) \in BOOLEAN
    BY LifecycleAssumption
  <2> DEFINE sp == [Blank(n) EXCEPT !.parent = p, !.gates = gates,
                                    !.assignee = a, !.staged = (p # NoTicket)]
  <2>3. sp \in Specs /\ sp.node = n /\ sp.parent = p /\ sp.retries <= RetryBudget
    <3>1. sp \in Specs /\ sp.node = n /\ sp.parent = p /\ sp.retries = 0
      BY <2>2, CreatedSpec DEF Blank
    <3> HIDE DEF sp
    <3> QED BY <3>1, LifecycleAssumption
  <2>4. /\ store' = TicketCreated(store, t, sp) /\ ~ Exists(store, t) /\ NodeTakesTicket(n)
        /\ p # NoTicket => Exists(store, p)
    BY <2>1, FreshAreFree DEF CreateTicket
  <2> HIDE DEF sp
  <2>5. Queued(store, store', t, sp)
    BY <1>1, <2>3, <2>4, CreatedTurns DEF Queued, NodeTakesTicket, Exists
  <2> QED BY <2>3, <2>5 DEF StoreStep, OneEvent, Moves
<1>3. ASSUME NEW t \in Tickets, NEW e \in Employees, Lease(t, e) PROVE StoreStep
  <2>1. Claimed(store, store', t, e)
    BY <1>1, <1>3, LeasedTurns DEF Lease, Accepts, Claimed
  <2> QED BY <2>1 DEF StoreStep, OneEvent, Moves
<1>4. ASSUME NEW t \in Tickets, NEW e \in Employees, Start(t, e) PROVE StoreStep
  <2>1. Started(store, store', t)
    BY <1>1, <1>4, StartedTurns DEF Start, Started
  <2> QED BY <2>1 DEF StoreStep, OneEvent, Moves
<1>5. ASSUME NEW t \in Tickets, Heartbeat(t) PROVE StoreStep
  <2>1. store.overdue[t] \ {"beat due"} \in SUBSET Deadlines
    BY <1>1 DEF Databases
  <2> QED BY <1>1, <1>5, <2>1, TimersStill DEF Heartbeat, HeartbeatRecorded, StoreStep
<1>6. ASSUME NEW t \in Tickets, Cancel(t) PROVE StoreStep
  <2>1. CASE store.status[t] = "EXECUTING"
    <3>1. AskedToStop(store, store', t)
      BY <1>1, <1>6, <2>1, CancelRequestedTurns DEF Cancel, AskedToStop
    <3> QED BY <3>1 DEF StoreStep, OneEvent, Moves
  <2>2. CASE store.status[t] # "EXECUTING"
    BY <1>1, <1>6, <2>2, CancelStep DEF Cancel
  <2> QED BY <2>1, <2>2
<1>7. ASSUME NEW t \in Tickets, CompleteTicket(t) PROVE StoreStep
  <2>1. /\ Ended(store, store', t, "COMPLETED", "COMPLETED")
        /\ "COMPLETED" \in DeadStatus /\ "COMPLETED" \in Outcomes
    BY <1>1, <1>7, CompletedTurns DEF CompleteTicket, Executing, Ended, DeadStatus, Outcomes
  <2> QED BY <2>1 DEF StoreStep, OneEvent, Moves
<1>8. ASSUME NEW t \in Tickets, CeoRetry(t) PROVE StoreStep
  <2>1. PICK n \in FreshIds(store) : store' = ScheduleRetry(store, t, n)
    BY <1>8 DEF CeoRetry
  <2>2. MayOperate
    BY <1>8 DEF CeoRetry, Accepts, MayOperate
  <2>3. /\ RetrySpec(store, t) \in Specs /\ n \in Tickets /\ store.status[n] = "NONE"
        /\ RetrySpec(store, t).retries <= RetryBudget
    <3>1. store.spec[t].retries < RetryBudget /\ store.spec[t].retries \in Nat /\ RetryBudget \in Nat
      BY <1>1, <1>8, SpecFields, LifecycleAssumption DEF CeoRetry, BudgetLeft, RetriesFailure
    <3> QED BY <1>1, <3>1, RetryType, FreshAreFree DEF Exists
  <2>4. Queued(store, store', n, RetrySpec(store, t))
    BY <1>1, <2>1, <2>2, <2>3, CreatedTurns DEF Queued, ScheduleRetry
  <2> QED BY <2>3, <2>4 DEF StoreStep, OneEvent, Moves
<1>9. ASSUME NEW t \in Tickets, NEW k \in FailureReports, NEW p, FailTicket(t, k, p)
      PROVE  StoreStep
  BY <1>1, <1>9, FailStep DEF FailureReports
<1>10. ASSUME NEW t \in Tickets, SubmitRead(t) \/ SubmitDropped(t) PROVE StoreStep
  BY <1>10, UnchangedStill DEF SubmitRead, SubmitDropped, StoreStep
<1>11. ASSUME NEW t \in Tickets, SubmitLate(t) PROVE StoreStep
  <2>1. attempt[t] = "late" /\ Exists(store, t)
    BY <1>1, <1>11 DEF SubmitLate, Submitted, SubmissionsExist
  <2> QED BY <1>1, <1>11, <2>1, CancelStep DEF SubmitLate
<1> QED BY <1>2, <1>3, <1>4, <1>5, <1>6, <1>7, <1>8, <1>9, <1>10, <1>11
        DEF TicketCommand, Complete, Fail, SubmitFail, SubmitComplete

(* The tick.                                                               *)
LEMMA TickMoves ==
  ASSUME JInv, Tick
  PROVE  StoreStep
<1>1. /\ Consistent(store) /\ store \in Databases /\ LoopsKnow
  BY DEF JInv, IInv, Consistent
<1>2. ASSUME NEW extra, TickBegin(extra) PROVE StoreStep
  BY <1>2, UnchangedStill DEF TickBegin, StoreStep
<1>3. ASSUME DispatchBegin \/ TickEnd PROVE StoreStep
  BY <1>3, UnchangedStill DEF DispatchBegin, TickEnd, StoreStep
<1>4. ASSUME NEW t \in Tickets, TimeOut(t) PROVE StoreStep
  <2> DEFINE db == TicketTimedOut(store, t)
  <2>1. store.status[t] = "EXECUTING"
    BY <1>1, <1>4 DEF TimeOut, LoopsKnow
  <2>2. Consistent(db) /\ Turns(store, db, t, "TIMED_OUT", NoOne, "TIMED_OUT", store.spec[t])
    BY <1>1, EndedConsistent, TimedOutTurns
  <2>3. Ended(store, db, t, "TIMED_OUT", "TIMED_OUT") /\ "TIMED_OUT" \in Outcomes
    BY <2>1, <2>2 DEF Ended, Outcomes
  <2>4. store' = db \/ /\ BudgetLeft(t)
                       /\ \E n \in FreshIds(db) : store' = ScheduleRetry(db, t, n)
    BY <1>4 DEF TimeOut
  <2>5. "TIMED_OUT" \in {"FAILED", "TIMED_OUT"}
    OBVIOUS
  <2> HIDE DEF db
  <2> QED BY <1>1, <2>2, <2>3, <2>4, <2>5, EndsThenRetries
<1>5. ASSUME NEW t \in Tickets, DispatchFail(t) PROVE StoreStep
  <2>1. DispatchInvalid \in FailureKinds /\ DispatchInvalid # "COMPLETED"
        /\ DispatchInvalid \in Outcomes /\ "FAILED" \in DeadStatus
    BY ProjectionAssumption DEF FailureKinds, Outcomes, DeadStatus
  <2>2. store.status[t] \in {"PENDING", "LEASED"}
    BY <1>1, <1>5, LatestStatus DEF DispatchFail, MayDispatch
  <2>3. Ended(store, store', t, "FAILED", DispatchInvalid)
    BY <1>1, <1>5, <2>1, <2>2, FailedTurns DEF DispatchFail, Ended
  <2> QED BY <2>1, <2>3 DEF StoreStep, OneEvent, Moves
<1>6. ASSUME NEW t \in Tickets, DispatchSkip(t) PROVE StoreStep
  BY <1>6, UnchangedStill DEF DispatchSkip, StoreStep
<1>7. ASSUME NEW t \in Tickets, NEW e \in Employees, Dispatch(t, e) PROVE StoreStep
  <2>1. store.status[t] \in {"PENDING", "LEASED"}
    BY <1>1, <1>7, LatestStatus DEF Dispatch, MayDispatch
  <2>2. Claimed(store, store', t, e)
    BY <1>1, <1>7, <2>1, LeasedTurns DEF Dispatch, MayDispatch, Selectable, Claimed, Scheduled
  <2> QED BY <2>2 DEF StoreStep, OneEvent, Moves
<1> QED BY <1>2, <1>3, <1>4, <1>5, <1>6, <1>7 DEF Tick

(* The row StartRecovery writes.                                           *)
LEMMA RecoveringRow ==
  ASSUME incident \in [Incidents -> IncidentRows],
         NEW i \in Incidents, NEW n, StartRecovery(i, n)
  PROVE  /\ incident'[i].status = "RECOVERING" /\ incident'[i].breaker = "CLOSED"
         /\ incident'[i].ticket = incident[i].ticket /\ incident'[i].type = incident[i].type
         /\ incident'[i].provider = incident[i].provider
         /\ \A j \in Incidents : j # i => incident'[j] = incident[j]
BY DEF StartRecovery, IncidentRows

(* A recovery creates tickets because an operator asked for it; the tickets *)
(* it replaces are cancelled first.                                        *)
LEMMA RecoveryMoves ==
  ASSUME JInv, Recovery
  PROVE  StoreStep
<1>1. /\ Consistent(store) /\ store \in Databases /\ LoopsKnow /\ TypeOK /\ IncidentsNameTickets
  BY DEF JInv, IInv, Consistent
<1>2. ASSUME NEW i \in Incidents, RestoreOnly(i) PROVE StoreStep
  BY <1>2, UnchangedStill DEF RestoreOnly, StoreStep
<1>3. ASSUME NEW i \in Incidents, Resolvable(i)
      PROVE  /\ incident[i].ticket \in Tickets /\ MayOperate
             /\ \A n : StartRecovery(i, n) => OperatorActs
  <2>1. incident \in [Incidents -> IncidentRows] /\ Tripped(i)
    BY <1>1, <1>3 DEF Resolvable, TypeOK
  <2>2. ASSUME NEW n, StartRecovery(i, n) PROVE OperatorActs
    BY <2>1, <2>2, RecoveringRow DEF Tripped, OperatorActs
  <2> QED BY <1>1, <1>3, <2>1, <2>2 DEF Resolvable, Accepts, MayOperate, Tripped, IncidentsNameTickets
<1>4. ASSUME NEW i \in Incidents, RestoreAndRetry(i) PROVE StoreStep
  <2> DEFINE t == incident[i].ticket
  <2>1. PICK n \in FreshIds(store) : store' = ScheduleRetry(store, t, n)
    BY <1>4 DEF RestoreAndRetry
  <2>2. t \in Tickets /\ MayOperate /\ OperatorActs
    BY <1>3, <1>4 DEF RestoreAndRetry
  <2> HIDE DEF t
  <2>3. /\ RetrySpec(store, t) \in Specs /\ n \in Tickets /\ store.status[n] = "NONE"
    BY <1>1, <2>2, RetryType, FreshAreFree DEF Exists
  <2>4. Queued(store, store', n, RetrySpec(store, t))
    BY <1>1, <2>1, <2>2, <2>3, CreatedTurns DEF Queued, ScheduleRetry
  <2> QED BY <2>3, <2>4 DEF StoreStep, OneEvent, Moves
<1>5. ASSUME NEW t \in Tickets, NEW n \in FreshIds(store), NEW sp \in Specs,
             MayOperate, OperatorActs, Exists(store, t),
             store' = TicketCreated(TicketCancelled(store, t), n, sp)
      PROVE  StoreStep
  <2> DEFINE mid == TicketCancelled(store, t)
  <2>1. /\ Consistent(mid) /\ mid \in Databases
        /\ Turns(store, mid, t, "CANCELLED", NoOne, store.outcome[t], store.spec[t])
    BY <1>1, CancelledConsistent, CancelledTurns DEF Consistent
  <2>2. Cancelled(store, mid, t)
    BY <1>5, <2>1 DEF Cancelled
  <2>3. /\ n \in Tickets /\ store' = TicketCreated(mid, n, sp) /\ n # t
        /\ store.status[n] = "NONE"
    BY <1>5, FreshAreFree DEF Exists
  <2> HIDE DEF mid
  <2>4. mid.status[n] = "NONE"
    BY <2>1, <2>3 DEF Turns, SameTicket
  <2>5. Queued(mid, store', n, sp)
    BY <1>5, <2>1, <2>3, <2>4, CreatedTurns DEF Queued
  <2>6. \E p \in Specs : Queued(mid, store', n, p)
    BY <1>5, <2>5
  <2>7. TwoEvents
    BY <2>1, <2>2, <2>3, <2>6 DEF TwoEvents
  <2> QED BY <2>7 DEF StoreStep
<1>6. ASSUME NEW i \in Incidents, RecoverContained(i) PROVE StoreStep
  <2> DEFINE t  == incident[i].ticket
             sp == [store.spec[t] EXCEPT !.parent = t]
  <2>1. t \in Tickets /\ MayOperate /\ OperatorActs /\ store.status[t] \in {"CANCEL_REQUESTED", "CANCELLED"}
    BY <1>3, <1>6 DEF RecoverContained
  <2>2. PICK n \in FreshIds(store) :
          store' = TicketCreated(IF store.status[t] = "CANCEL_REQUESTED"
                                 THEN TicketCancelled(store, t) ELSE store, n, sp)
    BY <1>6 DEF RecoverContained
  <2>3. sp \in Specs /\ Exists(store, t)
    BY <1>1, <2>1, StoreColumns, FollowupSpec DEF Exists
  <2> HIDE DEF t, sp
  <2>4. CASE store.status[t] = "CANCEL_REQUESTED"
    <3>1. store' = TicketCreated(TicketCancelled(store, t), n, sp)
      BY <2>2, <2>4
    <3> QED BY <1>5, <2>1, <2>3, <3>1
  <2>5. CASE store.status[t] # "CANCEL_REQUESTED"
    <3>1. store' = TicketCreated(store, n, sp) /\ n \in Tickets /\ store.status[n] = "NONE"
      BY <2>2, <2>5, FreshAreFree DEF Exists
    <3>2. Queued(store, store', n, sp)
      BY <1>1, <2>1, <2>3, <3>1, CreatedTurns DEF Queued
    <3> QED BY <2>3, <3>1, <3>2 DEF StoreStep, OneEvent, Moves
  <2> QED BY <2>4, <2>5
<1>7. ASSUME NEW t \in Tickets, Recreate(t) PROVE StoreStep
  <2> DEFINE p  == store.spec[t].parent
             sp == [store.spec[t] EXCEPT !.parent = txn.instead[p]]
  <2>1. PICK n \in FreshIds(store) :
          store' = TicketCreated(TicketCancelled(store, t), n, sp)
    BY <1>7 DEF Recreate
  <2>2. p \in Tickets /\ txn.instead[p] \in Tickets
    BY <1>1, <1>7, SpecFields DEF Recreate, Replaced, TypeOK, Transactions
  <2>3. sp \in Specs
    BY <1>1, <2>2, StoreColumns, FollowupSpec
  <2>4. MayOperate /\ OperatorActs /\ Exists(store, t)
    BY <1>1, <1>7 DEF Recreate, LoopsKnow, Exists, OperatorActs
  <2> HIDE DEF sp
  <2> QED BY <1>5, <2>1, <2>3, <2>4
<1>8. ASSUME NEW t \in Tickets, RecreateSkip(t) PROVE StoreStep
  BY <1>8, UnchangedStill DEF RecreateSkip, StoreStep
<1> QED BY <1>2, <1>4, <1>6, <1>7, <1>8 DEF Recovery

(* A freeze requeues what is leased and stops what runs; a restore queues  *)
(* again what is queued.                                                   *)
LEMMA StaffingMoves ==
  ASSUME JInv, Staffing
  PROVE  StoreStep
<1>1. /\ Consistent(store) /\ store \in Databases /\ LoopsKnow /\ TypeOK /\ FreezeReaches
  BY DEF JInv, IInv, Consistent
<1>2. ASSUME NEW e \in Employees, FreezeBegin(e) \/ RestoreBegin(e) PROVE StoreStep
  BY <1>2, UnchangedStill DEF FreezeBegin, RestoreBegin, StoreStep
<1>3. ASSUME FreezeEnd \/ RestoreEnd PROVE StoreStep
  BY <1>3, UnchangedStill DEF FreezeEnd, RestoreEnd, StoreStep
<1>4. ASSUME NEW t \in Tickets, NEW sp \in Specs, store.status[t] \in {"PENDING", "LEASED"},
             sp.node = NodeOf(store, t), sp.parent = store.spec[t].parent, OperatorActs,
             store' = TicketCreated(store, t, sp)
      PROVE  StoreStep
  <2>1. Requeued(store, store', t, sp)
    BY <1>1, <1>4, CreatedTurns DEF Requeued
  <2> QED BY <1>4, <2>1 DEF StoreStep, OneEvent, Moves
<1>5. ASSUME NEW t \in Tickets, Requeue(t) PROVE StoreStep
  <2> DEFINE ex == store.spec[t].excluded \cup {txn.who}
             sp == [store.spec[t] EXCEPT !.excluded = ex, !.frozenFor = txn.who]
  <2>1. txn.who \in Employees
    BY <1>1, <1>5 DEF Requeue, FreezeReaches
  <2>2. ex \in SUBSET Employees
    BY <1>1, <2>1 DEF Databases, Specs
  <2>3. sp \in Specs /\ sp.node = NodeOf(store, t)
    BY <1>1, <2>1, <2>2, StoreColumns, RequeuedSpec DEF NodeOf
  <2>4. sp.parent = store.spec[t].parent
    BY <1>1 DEF Databases, Specs
  <2>5. /\ store' = TicketCreated(store, t, sp) /\ store.status[t] \in {"PENDING", "LEASED"}
        /\ OperatorActs
    BY <1>5 DEF Requeue, OperatorActs
  <2> HIDE DEF sp, ex
  <2> QED BY <1>4, <2>3, <2>4, <2>5
<1>6. ASSUME NEW t \in Tickets, Contain(t) PROVE StoreStep
  <2>1. CASE store.status[t] = "EXECUTING"
    <3>1. AskedToStop(store, store', t)
      BY <1>1, <1>6, <2>1, CancelRequestedTurns DEF Contain, AskedToStop
    <3> QED BY <3>1 DEF StoreStep, OneEvent, Moves
  <2>2. CASE store.status[t] # "EXECUTING"
    BY <1>6, <2>2, UnchangedStill DEF Contain, StoreStep
  <2> QED BY <2>1, <2>2
<1>7. ASSUME NEW t \in Tickets, Readmit(t) PROVE StoreStep
  <2> DEFINE ex == store.spec[t].excluded \ {txn.who}
             sp == [store.spec[t] EXCEPT !.excluded = ex]
  <2>1. ex \in SUBSET Employees
    BY <1>1 DEF Databases, Specs
  <2>2. sp \in Specs /\ sp.node = NodeOf(store, t)
    BY <1>1, <2>1, StoreColumns, ReadmittedSpec DEF NodeOf
  <2>3. sp.parent = store.spec[t].parent
    BY <1>1 DEF Databases, Specs
  <2>4. /\ store' = TicketCreated(store, t, sp) /\ store.status[t] \in {"PENDING", "LEASED"}
        /\ OperatorActs
    BY <1>1, <1>7 DEF Readmit, LoopsKnow, OperatorActs
  <2> HIDE DEF sp, ex
  <2> QED BY <1>4, <2>2, <2>3, <2>4
<1> QED BY <1>2, <1>3, <1>5, <1>6, <1>7 DEF Staffing

(* The clock moves timers only.                                            *)
LEMMA TimeMoves ==
  ASSUME JInv, TimePasses
  PROVE  StoreStep
<1>1. PICK t \in Tickets, d \in Clocks : DeadlinePasses(t, d)
  BY DEF TimePasses
<1>2. /\ store \in Databases /\ d \in Deadlines
      /\ store.overdue[t] \cup {d} \in SUBSET Deadlines
  BY LifecycleAssumption DEF JInv, IInv, Consistent, Databases
<1> QED BY <1>1, <1>2, TimersStill DEF DeadlinePasses, StoreStep

(* So much for every step.                                                 *)
LEMMA StepKinds ==
  ASSUME JInv, [Next]_vars
  PROVE  StoreStep
<1>1. CASE UNCHANGED vars
  BY <1>1, UnchangedStill DEF vars, StoreStep
<1> QED BY <1>1, CommandMoves, TickMoves, RecoveryMoves, StaffingMoves, TimeMoves DEF Next

-----------------------------------------------------------------------------
(* What no event undoes: a ticket that is there stays, on its node and     *)
(* under its parent, and a completion is never forgotten.                  *)
Onward(db, new) ==
  \A u \in Tickets :
    /\ Exists(db, u) => /\ Exists(new, u) /\ NodeOf(new, u) = NodeOf(db, u)
                        /\ new.spec[u].parent = db.spec[u].parent
    /\ db.outcome[u] = "COMPLETED" => new.outcome[u] = "COMPLETED"

(* What the contract with the workers allows one ticket.                   *)
ContractOf(db, new, u) ==
  \/ new.status[u] = db.status[u] /\ new.owner[u] = db.owner[u]
  \/ /\ db.status[u] \in {"NONE", "PENDING", "LEASED"}
     /\ new.status[u] = "PENDING" /\ new.owner[u] = NoOne
  \/ /\ db.status[u] \in {"PENDING", "LEASED"}
     /\ new.status[u] = "LEASED" /\ new.owner[u] \in Employees
  \/ /\ db.status[u] = "LEASED" /\ db.owner[u] \in Employees
     /\ new.status[u] = "EXECUTING" /\ new.owner[u] = db.owner[u]
  \/ /\ db.status[u] = "EXECUTING"
     /\ new.status[u] = "CANCEL_REQUESTED" /\ new.owner[u] = db.owner[u]
  \/ /\ new.owner[u] = NoOne
     /\ \/ db.status[u] = "EXECUTING" /\ new.status[u] \in {"COMPLETED", "TIMED_OUT"}
        \/ db.status[u] \in {"PENDING", "LEASED", "EXECUTING"} /\ new.status[u] = "FAILED"
        \/ db.status[u] # "NONE" /\ new.status[u] = "CANCELLED"

(* Both hold of a ticket nothing happened to.                              *)
LEMMA SameIsFine ==
  ASSUME NEW db, NEW new, NEW u \in Tickets, SameTicket(db, new, u)
  PROVE  /\ ContractOf(db, new, u)
         /\ Exists(db, u) => /\ Exists(new, u) /\ NodeOf(new, u) = NodeOf(db, u)
                             /\ new.spec[u].parent = db.spec[u].parent
         /\ db.outcome[u] = "COMPLETED" => new.outcome[u] = "COMPLETED"
BY DEF SameTicket, ContractOf, Exists, NodeOf

(* Both hold of the ticket an event is about, and of all others.           *)
LEMMA MovesFine ==
  ASSUME NEW db, NEW new, NEW t \in Tickets, Moves(db, new, t), CompletedStays(db)
  PROVE  /\ Onward(db, new) /\ CompletedStays(new)
         /\ \A u \in Tickets : ContractOf(db, new, u)
         /\ \A u \in Tickets : u # t => SameTicket(db, new, u)
         /\ Exists(new, t)
<1> DEFINE Fine == /\ ContractOf(db, new, t) /\ Exists(new, t)
                   /\ Exists(db, t) => /\ NodeOf(new, t) = NodeOf(db, t)
                                       /\ new.spec[t].parent = db.spec[t].parent
                   /\ db.outcome[t] = "COMPLETED" =>
                        new.outcome[t] = "COMPLETED" /\ new.status[t] \in {"COMPLETED", "CANCELLED"}
                   /\ new.outcome[t] = "COMPLETED" => new.status[t] \in {"COMPLETED", "CANCELLED"}
                   /\ \A u \in Tickets : u # t => SameTicket(db, new, u)
<1>1. ASSUME NEW sp \in Specs, Queued(db, new, t, sp) PROVE Fine
  BY <1>1 DEF Queued, Turns, ContractOf, Exists, CompletedStays
<1>2. ASSUME NEW sp \in Specs, Requeued(db, new, t, sp) PROVE Fine
  BY <1>2 DEF Requeued, Turns, ContractOf, Exists, NodeOf, CompletedStays
<1>3. ASSUME NEW e \in Employees, Claimed(db, new, t, e) PROVE Fine
  BY <1>3 DEF Claimed, Turns, ContractOf, Exists, NodeOf, CompletedStays
<1>4. ASSUME Started(db, new, t) PROVE Fine
  BY <1>4 DEF Started, Turns, ContractOf, Exists, NodeOf, CompletedStays
<1>5. ASSUME AskedToStop(db, new, t) PROVE Fine
  BY <1>5 DEF AskedToStop, Turns, ContractOf, Exists, NodeOf, CompletedStays
<1>6. ASSUME Cancelled(db, new, t) PROVE Fine
  BY <1>6 DEF Cancelled, Turns, ContractOf, Exists, NodeOf, CompletedStays
<1>7. ASSUME NEW s \in DeadStatus, NEW out \in Outcomes, Ended(db, new, t, s, out) PROVE Fine
  BY <1>7 DEF Ended, Turns, ContractOf, Exists, NodeOf, CompletedStays, DeadStatus
<1>8. Fine
  BY <1>1, <1>2, <1>3, <1>4, <1>5, <1>6, <1>7 DEF Moves
<1>9. ASSUME NEW u \in Tickets, u # t
      PROVE  /\ ContractOf(db, new, u)
             /\ Exists(db, u) => /\ Exists(new, u) /\ NodeOf(new, u) = NodeOf(db, u)
                                 /\ new.spec[u].parent = db.spec[u].parent
             /\ db.outcome[u] = "COMPLETED" => new.outcome[u] = "COMPLETED"
             /\ new.outcome[u] = "COMPLETED" => new.status[u] \in {"COMPLETED", "CANCELLED"}
  <2>1. SameTicket(db, new, u)
    BY <1>8, <1>9
  <2> QED BY <2>1, SameIsFine DEF SameTicket, CompletedStays
<1>10. Onward(db, new)
  BY <1>8, <1>9 DEF Onward
<1>11. CompletedStays(new)
  BY <1>8, <1>9 DEF CompletedStays
<1> QED BY <1>8, <1>9, <1>10, <1>11

(* Nothing that moves on comes back in two moves.                          *)
LEMMA OnwardTwice ==
  ASSUME NEW a, NEW b, NEW c, Onward(a, b), Onward(b, c) PROVE Onward(a, c)
BY DEF Onward

(* So nothing is undone by a step.                                         *)
LEMMA StepFine ==
  ASSUME JInv, [Next]_vars
  PROVE  /\ Onward(store, store') /\ CompletedStays(store')
         /\ \A u \in Tickets : ContractOf(store, store', u)
<1>1. CompletedStays(store)
  BY DEF JInv
<1>2. CASE Still(store, store')
  <2>1. \A u \in Tickets : SameTicket(store, store', u)
    BY <1>2 DEF Still
  <2>2. Onward(store, store') /\ \A u \in Tickets : ContractOf(store, store', u)
    BY <2>1, SameIsFine DEF Onward
  <2>3. CompletedStays(store')
    BY <1>1, <2>1 DEF CompletedStays, SameTicket
  <2> QED BY <2>2, <2>3
<1>3. CASE OneEvent
  BY <1>1, <1>3, MovesFine DEF OneEvent
<1>4. CASE TwoEvents
  <2>1. PICK t \in Tickets, n \in Tickets, mid \in Databases :
          /\ Consistent(mid)
          /\ Cancelled(store, mid, t) \/ \E s \in DeadStatus, out \in Outcomes : Ended(store, mid, t, s, out)
          /\ \E sp \in Specs : Queued(mid, store', n, sp)
    BY <1>4 DEF TwoEvents
  <2>2. Moves(store, mid, t) /\ Moves(mid, store', n)
    BY <2>1 DEF Moves
  <2>3. /\ Onward(store, mid) /\ CompletedStays(mid) /\ Exists(mid, t)
        /\ \A u \in Tickets : ContractOf(store, mid, u)
        /\ \A u \in Tickets : u # t => SameTicket(store, mid, u)
    BY <1>1, <2>2, MovesFine
  <2>4. /\ Onward(mid, store') /\ CompletedStays(store')
        /\ \A u \in Tickets : ContractOf(mid, store', u)
        /\ \A u \in Tickets : u # n => SameTicket(mid, store', u)
    BY <2>2, <2>3, MovesFine
  <2>5. mid.status[n] = "NONE"
    BY <2>1 DEF Queued
  <2>6. ASSUME NEW u \in Tickets PROVE ContractOf(store, store', u)
    <3>1. CASE u # n
      BY <2>3, <2>4, <3>1 DEF ContractOf, SameTicket
    <3>2. CASE u = n
      <4>1. n # t
        BY <2>3, <2>5 DEF Exists
      <4> QED BY <2>3, <2>4, <3>2, <4>1 DEF ContractOf, SameTicket
    <3> QED BY <3>1, <3>2
  <2> QED BY <2>3, <2>4, <2>6, OnwardTwice
<1> QED BY <1>2, <1>3, <1>4, StepKinds DEF StoreStep

-----------------------------------------------------------------------------
(* What the steps do to the incidents: open one, on a cause that has none  *)
(* open as far as the handler looked, start the recovery of one, or close  *)
(* those that waited for a ticket that completes.                          *)
Opened(type, t, p) ==
  /\ store.status[t] \in {"EXECUTING", "CANCEL_REQUESTED"}
  /\ store'.status[t] \notin {"LEASED", "EXECUTING"}
  /\ OpenIncident(type, t, p)
  /\ \/ type = "STAFFING"
     \/ /\ type = "TIMEOUT" /\ txn.op = "time out" /\ t \in txn.todo
        /\ NodeOf(store, t) \notin txn.tripped
     \/ type = "FAILURE" /\ NodeOf(store, t) \notin NodesWithOpenIncident
     \/ /\ type = "PROVIDER"
        /\ ~ \E i \in Incidents : incident[i].status = "OPEN" /\ incident[i].provider = p

Closing(t) ==
  /\ store'.outcome[t] = "COMPLETED"
  /\ incident' = [i \in Incidents |->
       IF WaitsFor(i, t) THEN [incident[i] EXCEPT !.status = "CLOSED"] ELSE incident[i]]

IncidentStep ==
  \/ UNCHANGED incident
  \/ \E type \in IncidentTypes, t \in Tickets, p \in Providers \cup {NoProvider} :
       Opened(type, t, p)
  \/ /\ MayOperate
     /\ \E i \in Incidents, n \in Tickets \cup {NoTicket} : Tripped(i) /\ StartRecovery(i, n)
  \/ \E t \in Tickets : Closing(t)

(* A failure opens at most one, and looks first.                           *)
LEMMA FailIncident ==
  ASSUME IInv, NEW t \in Tickets, NEW kind \in FailureKinds,
         NEW named \in NamedProviders \cup {NoProvider}, FailTicket(t, kind, named)
  PROVE  IncidentStep
<1>1. /\ FailingProvider(t, named) \in Providers \cup {NoProvider}
      /\ store.status[t] = "EXECUTING" /\ TicketFailed(store, t, kind).status[t] = "FAILED"
  BY ProviderType, FailedTurns DEF IInv, Consistent, FailTicket, Executing, Turns
<1>2. \/ UNCHANGED incident
      \/ Opened("PROVIDER", t, FailingProvider(t, named))
      \/ Opened("FAILURE", t, NoProvider)
  BY <1>1 DEF FailTicket, Opened
<1> QED BY <1>1, <1>2 DEF IncidentStep, IncidentTypes

(* A completion closes those that waited for it.                           *)
LEMMA CompleteIncident ==
  ASSUME IInv, NEW t \in Tickets, CompleteTicket(t)
  PROVE  IncidentStep
<1>1. Turns(store, store', t, "COMPLETED", NoOne, "COMPLETED", store.spec[t])
  BY CompletedTurns DEF IInv, Consistent, CompleteTicket
<1> QED BY <1>1 DEF IncidentStep, Closing, CompleteTicket, Turns

(* Every step does one of these.                                           *)
LEMMA IncidentKinds ==
  ASSUME JInv, [Next]_vars
  PROVE  IncidentStep
<1>1. IInv /\ LoopsKnow /\ txn \in Transactions
  BY DEF JInv, IInv, TypeOK
<1>2. CASE TicketCommand
  <2>1. ASSUME NEW t \in Tickets, NEW k \in FailureReports, NEW p \in NamedProviders \cup {NoProvider},
               FailTicket(t, k, p)
        PROVE  IncidentStep
    BY <1>1, <2>1, FailIncident DEF FailureReports
  <2>2. ASSUME NEW t \in Tickets, CompleteTicket(t) PROVE IncidentStep
    BY <1>1, <2>2, CompleteIncident
  <2>3. \/ UNCHANGED incident
        \/ \E t \in Tickets : CompleteTicket(t)
        \/ \E t \in Tickets, k \in FailureReports, p \in NamedProviders \cup {NoProvider} :
             FailTicket(t, k, p)
    BY <1>2 DEF TicketCommand, Create, CreateTicket, Lease, Start, Heartbeat, Cancel, CeoRetry,
                SubmitRead, SubmitLate, SubmitDropped, Complete, Fail, SubmitFail, SubmitComplete
  <2> QED BY <2>1, <2>2, <2>3 DEF IncidentStep
<1>3. CASE Tick
  <2>1. ASSUME NEW t \in Tickets, TimeOut(t) PROVE IncidentStep
    <3>1. /\ txn.op = "time out" /\ t \in txn.todo /\ store.status[t] = "EXECUTING"
          /\ TicketTimedOut(store, t).status[t] = "TIMED_OUT"
      BY <1>1, <2>1, TimedOutTurns DEF TimeOut, LoopsKnow, IInv, Consistent, Turns
    <3>2. UNCHANGED incident \/ Opened("TIMEOUT", t, NoProvider)
      BY <2>1, <3>1 DEF TimeOut, Opened
    <3> QED BY <3>2 DEF IncidentStep, IncidentTypes
  <2>2. UNCHANGED incident \/ \E t \in Tickets : TimeOut(t)
    BY <1>3 DEF Tick, TickBegin, DispatchBegin, TickEnd, DispatchFail, DispatchSkip, Dispatch,
                Considered
  <2> QED BY <2>1, <2>2 DEF IncidentStep
<1>4. CASE Recovery
  <2>1. ASSUME NEW i \in Incidents, Resolvable(i) PROVE MayOperate /\ Tripped(i)
    BY <2>1 DEF Resolvable, Accepts, MayOperate
  <2>2. ASSUME NEW i \in Incidents, RestoreOnly(i) PROVE IncidentStep
    BY <2>1, <2>2 DEF RestoreOnly, IncidentStep
  <2>3. ASSUME NEW i \in Incidents, RestoreAndRetry(i) \/ RecoverContained(i) PROVE IncidentStep
    <3>1. PICK n \in FreshIds(store) : Resolvable(i) /\ StartRecovery(i, n)
      BY <2>3 DEF RestoreAndRetry, RecoverContained
    <3> QED BY <2>1, <3>1, FreshAreFree DEF IncidentStep
  <2>4. ASSUME NEW t \in Tickets, Recreate(t) \/ RecreateSkip(t) PROVE IncidentStep
    BY <2>4 DEF Recreate, RecreateSkip, IncidentStep
  <2> QED BY <1>4, <2>2, <2>3, <2>4 DEF Recovery
<1>5. CASE Staffing
  <2>1. ASSUME NEW t \in Tickets, Contain(t) PROVE IncidentStep
    <3>1. TicketCancelRequested(store, t).status[t] = "CANCEL_REQUESTED"
      BY <1>1, CancelRequestedTurns DEF IInv, Consistent, Turns
    <3>2. Opened("STAFFING", t, NoProvider)
      BY <2>1, <3>1 DEF Contain, Opened
    <3> QED BY <3>2 DEF IncidentStep, IncidentTypes
  <2>2. UNCHANGED incident \/ \E t \in Tickets : Contain(t)
    BY <1>5 DEF Staffing, FreezeBegin, RestoreBegin, Requeue, Readmit, FreezeEnd, RestoreEnd
  <2> QED BY <2>1, <2>2 DEF IncidentStep
<1>6. CASE TimePasses
  BY <1>6 DEF TimePasses, DeadlinePasses, IncidentStep
<1>7. CASE UNCHANGED vars
  BY <1>7 DEF vars, IncidentStep
<1> QED BY <1>2, <1>3, <1>4, <1>5, <1>6, <1>7 DEF Next

(* The row OpenIncident writes, and no other.                              *)
LEMMA OpenedRow ==
  ASSUME incident \in [Incidents -> IncidentRows],
         NEW type, NEW t, NEW p, OpenIncident(type, t, p)
  PROVE  \E i \in Incidents :
           /\ incident[i].status = "NONE"
           /\ incident'[i] = [status |-> "OPEN", breaker |-> "OPEN", type |-> type,
                              ticket |-> t, provider |-> p, followup |-> NoTicket]
           /\ \A j \in Incidents : j # i => incident'[j] = incident[j]
BY DEF OpenIncident, FreshIncidents, FreeIncidents

(* The rows a completion writes.                                           *)
LEMMA ClosingRow ==
  ASSUME incident \in [Incidents -> IncidentRows],
         NEW t, Closing(t), NEW i \in Incidents
  PROVE  \/ incident'[i] = incident[i]
         \/ /\ incident[i].status = "RECOVERING" /\ incident[i].followup = t
            /\ incident'[i].status = "CLOSED" /\ incident'[i].followup = t
            /\ incident'[i].breaker = incident[i].breaker
            /\ incident'[i].ticket = incident[i].ticket
BY DEF Closing, WaitsFor, IncidentRows

(* The columns of the incidents agree after every step.                    *)
LEMMA StepBreakers ==
  ASSUME JInv, [Next]_vars
  PROVE  BreakerFollowsIncident' /\ ClosedOnlyByFollowup'
<1> USE DEF BreakerFollowsIncident, ClosedOnlyByFollowup
<1>1. /\ incident \in [Incidents -> IncidentRows] /\ IncidentsNameTickets
      /\ BreakerFollowsIncident /\ ClosedOnlyByFollowup
  BY DEF JInv, IInv, TypeOK
<1>2. \A u \in Tickets : /\ Exists(store, u) => Exists(store', u)
                         /\ store.outcome[u] = "COMPLETED" => store'.outcome[u] = "COMPLETED"
  BY StepFine DEF Onward
<1> DEFINE Good(i) ==
      /\ incident'[i].status = "OPEN" <=> incident'[i].breaker = "OPEN"
      /\ incident'[i].status # "NONE" => Exists(store', incident'[i].ticket)
      /\ incident'[i].status = "CLOSED" =>
           incident'[i].followup # NoTicket /\ store'.outcome[incident'[i].followup] = "COMPLETED"
<1>3. ASSUME NEW i \in Incidents, incident'[i] = incident[i] PROVE Good(i)
  <2>1. incident[i].ticket \in Tickets \cup {NoTicket} /\ incident[i].followup \in Tickets \cup {NoTicket}
    BY <1>1 DEF IncidentRows
  <2> QED BY <1>1, <1>2, <1>3, <2>1 DEF IncidentsNameTickets
<1>4. ASSUME NEW i \in Incidents PROVE Good(i)
  <2>1. CASE UNCHANGED incident
    BY <1>3, <2>1
  <2>2. ASSUME NEW type \in IncidentTypes, NEW t \in Tickets,
               NEW p \in Providers \cup {NoProvider}, Opened(type, t, p)
        PROVE  Good(i)
    <3> DEFINE row == [status |-> "OPEN", breaker |-> "OPEN", type |-> type,
                       ticket |-> t, provider |-> p, followup |-> NoTicket]
    <3>0. OpenIncident(type, t, p)
      BY <2>2 DEF Opened
    <3>1. PICK j \in Incidents :
            /\ incident'[j] = row
            /\ \A k \in Incidents : k # j => incident'[k] = incident[k]
      BY <1>1, <3>0, OpenedRow
    <3>2. Exists(store', t)
      BY <1>2, <2>2 DEF Opened, Exists
    <3>3. CASE i = j
      BY <3>1, <3>2, <3>3
    <3> QED BY <1>3, <3>1, <3>3
  <2>3. ASSUME NEW j \in Incidents, NEW n \in Tickets \cup {NoTicket}, Tripped(j), StartRecovery(j, n)
        PROVE  Good(i)
    <3>1. /\ incident'[j].status = "RECOVERING" /\ incident'[j].breaker = "CLOSED"
          /\ incident'[j].ticket = incident[j].ticket
          /\ \A k \in Incidents : k # j => incident'[k] = incident[k]
      BY <1>1, <2>3, RecoveringRow
    <3>2. CASE i = j
      BY <1>1, <1>2, <2>3, <3>1, <3>2 DEF Tripped, IncidentsNameTickets
    <3> QED BY <1>3, <3>1, <3>2
  <2>4. ASSUME NEW t \in Tickets, Closing(t) PROVE Good(i)
    <3>1. CASE incident'[i] = incident[i]
      BY <1>3, <3>1
    <3>2. CASE /\ incident[i].status = "RECOVERING" /\ incident[i].followup = t
               /\ incident'[i].status = "CLOSED" /\ incident'[i].followup = t
               /\ incident'[i].breaker = incident[i].breaker
               /\ incident'[i].ticket = incident[i].ticket
      BY <1>1, <1>2, <2>4, <3>2, TicketsAreTickets DEF Closing, IncidentsNameTickets
    <3> QED BY <1>1, <2>4, <3>1, <3>2, ClosingRow
  <2> HIDE DEF Good
  <2> QED BY <2>1, <2>2, <2>3, <2>4, IncidentKinds DEF IncidentStep
<1> QED BY <1>4

-----------------------------------------------------------------------------
(* A loop that goes on to its other tickets leaves their status alone.     *)
LEMMA TimeOutOthers ==
  ASSUME IInv, NEW t \in Tickets, TimeOut(t), NEW u \in Tickets, u # t, Exists(store, u)
  PROVE  store'.status[u] = store.status[u]
<1> DEFINE db == TicketTimedOut(store, t)
<1>1. Consistent(db) /\ Turns(store, db, t, "TIMED_OUT", NoOne, "TIMED_OUT", store.spec[t])
  BY EndedConsistent, TimedOutTurns DEF IInv, Consistent
<1>2. store' = db \/ \E n \in FreshIds(db) : store' = ScheduleRetry(db, t, n)
  BY DEF TimeOut
<1> HIDE DEF db
<1>3. db.status[u] = store.status[u]
  BY <1>1 DEF Turns, SameTicket
<1>4. ASSUME NEW n \in FreshIds(db), store' = ScheduleRetry(db, t, n)
      PROVE  store'.status[u] = store.status[u]
  <2>1. n \in Tickets /\ n # u /\ RetrySpec(db, t) \in Specs /\ db \in Databases
    BY <1>1, <1>3, FreshAreFree, RetryType DEF Exists, Consistent
  <2>2. Turns(db, store', n, "PENDING", NoOne, db.outcome[n], RetrySpec(db, t))
    BY <1>4, <2>1, CreatedTurns DEF ScheduleRetry
  <2> QED BY <1>3, <2>1, <2>2 DEF Turns, SameTicket
<1> QED BY <1>2, <1>3, <1>4

(* So does the recreation of a queued ticket.                              *)
LEMMA RecreateOthers ==
  ASSUME IInv, NEW t \in Tickets, NEW n \in FreshIds(store), NEW sp \in Specs,
         store' = TicketCreated(TicketCancelled(store, t), n, sp),
         NEW u \in Tickets, u # t, Exists(store, u)
  PROVE  store'.status[u] = store.status[u]
<1> DEFINE db == TicketCancelled(store, t)
<1>1. /\ db \in Databases
      /\ Turns(store, db, t, "CANCELLED", NoOne, store.outcome[t], store.spec[t])
  BY CancelledConsistent, CancelledTurns DEF IInv, Consistent
<1>2. n \in Tickets /\ n # u
  BY FreshAreFree
<1>3. store' = TicketCreated(db, n, sp)
  OBVIOUS
<1> HIDE DEF db
<1>4. Turns(db, store', n, "PENDING", NoOne, db.outcome[n], sp)
  BY <1>1, <1>2, <1>3, CreatedTurns
<1> QED BY <1>1, <1>2, <1>4 DEF Turns, SameTicket

(* And that of any ticket of its own spec.                                 *)
LEMMA CreatedOthers ==
  ASSUME NEW db \in Databases, NEW t \in Tickets, NEW sp \in Specs,
         NEW u \in Tickets, u # t
  PROVE  TicketCreated(db, t, sp).status[u] = db.status[u]
BY CreatedTurns DEF Turns, SameTicket

(* The steps without the lock leave it free, unless they begin a loop.     *)
LEMMA CommandLock ==
  ASSUME TicketCommand \/ TimePasses \/ (\E i \in Incidents : RestoreOnly(i) \/ RecoverContained(i))
  PROVE  txn.op = "none" /\ UNCHANGED txn
<1> USE DEF Accepts, Unlocked
<1>1. CASE TicketCommand
  <2>1. CASE Create
    BY <2>1 DEF Create, CreateTicket
  <2>2. ASSUME NEW t, NEW e, Lease(t, e) \/ Start(t, e) PROVE txn.op = "none" /\ UNCHANGED txn
    BY <2>2 DEF Lease, Start
  <2>3. ASSUME NEW t, NEW k, NEW p, FailTicket(t, k, p) PROVE txn.op = "none" /\ UNCHANGED txn
    BY <2>3 DEF FailTicket
  <2>4. ASSUME NEW t, CompleteTicket(t) PROVE txn.op = "none" /\ UNCHANGED txn
    BY <2>4 DEF CompleteTicket
  <2>5. ASSUME NEW t, \/ Heartbeat(t) \/ Cancel(t) \/ CeoRetry(t)
                      \/ SubmitRead(t) \/ SubmitLate(t) \/ SubmitDropped(t)
        PROVE  txn.op = "none" /\ UNCHANGED txn
    BY <2>5 DEF Heartbeat, Cancel, CeoRetry, SubmitRead, SubmitLate, SubmitDropped
  <2> QED BY <1>1, <2>1, <2>2, <2>3, <2>4, <2>5
          DEF TicketCommand, Complete, Fail, SubmitFail, SubmitComplete
<1>2. CASE TimePasses
  BY <1>2 DEF TimePasses, DeadlinePasses
<1>3. CASE \E i \in Incidents : RestoreOnly(i) \/ RecoverContained(i)
  BY <1>3 DEF RestoreOnly, RecoverContained, Resolvable
<1> QED BY <1>1, <1>2, <1>3

(* The loops go on knowing what is left to do.                             *)
LEMMA StepLoops ==
  ASSUME JInv, [Next]_vars
  PROVE  LoopsKnow'
<1>1. /\ IInv /\ LoopsKnow /\ txn \in Transactions /\ store \in Databases
  BY DEF JInv, IInv, TypeOK
<1>2. CASE TicketCommand \/ TimePasses
  BY <1>2, CommandLock DEF LoopsKnow
<1>3. ASSUME NEW t \in Tickets, txn'.op = txn.op, txn'.todo = txn.todo \ {t},
             \A u \in txn'.todo : store'.status[u] = store.status[u]
      PROVE  LoopsKnow'
  BY <1>1, <1>3 DEF LoopsKnow
<1>4. ASSUME NEW t \in Tickets, txn' = [txn EXCEPT !.todo = @ \ {t}]
      PROVE  txn'.op = txn.op /\ txn'.todo = txn.todo \ {t} /\ txn'.todo \subseteq Tickets
  BY <1>1, <1>4 DEF Transactions
<1>5. CASE Tick
  <2>1. ASSUME NEW extra, TickBegin(extra) PROVE LoopsKnow'
    BY <2>1 DEF TickBegin, LoopsKnow, Idle, Overdue
  <2>2. CASE DispatchBegin
    <3>1. txn'.op = "dispatch"
      BY <1>1, <2>2 DEF DispatchBegin, Transactions
    <3> QED BY <3>1 DEF LoopsKnow
  <2>3. CASE TickEnd
    BY <2>3 DEF TickEnd, LoopsKnow, Idle
  <2>4. ASSUME NEW t \in Tickets, TimeOut(t) PROVE LoopsKnow'
    <3>1. /\ txn' = [txn EXCEPT !.todo = @ \ {t}]
          /\ \A u \in txn.todo : Exists(store, u)
      BY <1>1, <2>4 DEF TimeOut, LoopsKnow, Exists
    <3>2. txn'.op = txn.op /\ txn'.todo = txn.todo \ {t} /\ txn'.todo \subseteq Tickets
      BY <1>4, <3>1
    <3>3. ASSUME NEW u \in txn'.todo PROVE store'.status[u] = store.status[u]
      BY <1>1, <2>4, <3>1, <3>2, TimeOutOthers
    <3> QED BY <1>3, <3>2, <3>3
  <2>5. ASSUME NEW t \in Tickets, DispatchFail(t) \/ DispatchSkip(t) \/ \E e \in Employees : Dispatch(t, e)
        PROVE  LoopsKnow'
    <3>1. txn'.op = "dispatch"
      BY <1>1, <2>5 DEF DispatchFail, DispatchSkip, Dispatch, Considered, Transactions
    <3> QED BY <3>1 DEF LoopsKnow
  <2> QED BY <1>5, <2>1, <2>2, <2>3, <2>4, <2>5 DEF Tick
<1>6. CASE Recovery
  <2>1. ASSUME NEW i \in Incidents, RestoreAndRetry(i) PROVE LoopsKnow'
    <3> DEFINE t == incident[i].ticket
    <3>1. PICK n \in FreshIds(store) :
            /\ store' = ScheduleRetry(store, t, n)
            /\ txn' = IF Pending = {} THEN Idle
                      ELSE [Idle EXCEPT !.op = "recreate", !.todo = Pending,
                              !.instead = [u \in Tickets |->
                                IF u \in Lineage(store, t) THEN n ELSE NoTicket]]
      BY <2>1 DEF RestoreAndRetry
    <3>2. t \in Tickets /\ MayOperate
      BY <1>1, <2>1 DEF RestoreAndRetry, Resolvable, Accepts, MayOperate, Tripped,
                        IInv, IncidentsNameTickets
    <3> HIDE DEF t
    <3>3. CASE Pending = {}
      BY <3>1, <3>3 DEF LoopsKnow, Idle
    <3>4. CASE Pending # {}
      <4>1. txn'.op = "recreate" /\ txn'.todo = Pending
        BY <3>1, <3>4 DEF Idle
      <4>2. ASSUME NEW u \in Pending PROVE store'.status[u] = "PENDING"
        <5>1. /\ u \in Tickets /\ store.status[u] = "PENDING"
              /\ n \in Tickets /\ RetrySpec(store, t) \in Specs
          BY <1>1, <3>2, <4>2, FreshAreFree, RetryType DEF Pending
        <5>2. u # n
          BY <5>1, FreshAreFree DEF Exists
        <5> QED BY <1>1, <3>1, <5>1, <5>2, CreatedOthers DEF ScheduleRetry
      <4> QED BY <3>2, <4>1, <4>2 DEF LoopsKnow
    <3> QED BY <3>3, <3>4
  <2>2. ASSUME NEW t \in Tickets, txn.op = "recreate",
               txn'.op = "none" \/ (txn'.op = txn.op /\ txn'.todo = txn.todo \ {t}),
               \A u \in txn.todo \ {t} : store'.status[u] = store.status[u]
        PROVE  LoopsKnow'
    BY <1>1, <2>2 DEF LoopsKnow
  <2>3. ASSUME NEW t \in Tickets, Recreate(t) PROVE LoopsKnow'
    <3> DEFINE p  == store.spec[t].parent
               sp == [store.spec[t] EXCEPT !.parent = txn.instead[p]]
    <3>1. PICK n \in FreshIds(store) :
            /\ store' = TicketCreated(TicketCancelled(store, t), n, sp)
            /\ txn' = IF txn.todo = {t} THEN Idle
                      ELSE [txn EXCEPT !.todo = @ \ {t}, !.instead[t] = n]
      BY <2>3 DEF Recreate
    <3>2. p \in Tickets /\ txn.instead[p] \in Tickets
      BY <1>1, <2>3, SpecFields DEF Recreate, Replaced, Transactions
    <3>3. sp \in Specs
      BY <1>1, <3>2, StoreColumns, FollowupSpec DEF IInv
    <3> HIDE DEF sp
    <3>4. txn'.op = "none" \/ (txn'.op = txn.op /\ txn'.todo = txn.todo \ {t})
      BY <1>1, <3>1 DEF Idle, Transactions
    <3>5. ASSUME NEW u \in txn.todo \ {t} PROVE store'.status[u] = store.status[u]
      <4>1. u \in Tickets /\ u # t /\ Exists(store, u)
        BY <1>1, <2>3, <3>5 DEF Recreate, LoopsKnow, Transactions, Exists
      <4> QED BY <1>1, <3>1, <3>3, <4>1, RecreateOthers
    <3>6. txn.op = "recreate"
      BY <2>3 DEF Recreate
    <3> QED BY <2>2, <3>4, <3>5, <3>6
  <2>4. ASSUME NEW t \in Tickets, RecreateSkip(t) PROVE LoopsKnow'
    <3>1. txn'.op = "none" \/ (txn'.op = txn.op /\ txn'.todo = txn.todo \ {t})
      BY <1>1, <2>4 DEF RecreateSkip, Idle, Transactions
    <3> QED BY <2>2, <2>4, <3>1 DEF RecreateSkip
  <2>5. ASSUME NEW i \in Incidents, RestoreOnly(i) \/ RecoverContained(i) PROVE LoopsKnow'
    BY <2>5, CommandLock DEF LoopsKnow
  <2> QED BY <1>6, <2>1, <2>3, <2>4, <2>5 DEF Recovery
<1>7. CASE Staffing
  <2>1. ASSUME NEW e \in Employees, FreezeBegin(e) \/ RestoreBegin(e) PROVE LoopsKnow'
    <3>1. CASE FreezeBegin(e)
      BY <3>1 DEF FreezeBegin, LoopsKnow, Idle
    <3>2. CASE RestoreBegin(e)
      BY <3>2 DEF RestoreBegin, LoopsKnow, Idle
    <3> QED BY <2>1, <3>1, <3>2
  <2>2. ASSUME FreezeEnd \/ RestoreEnd PROVE LoopsKnow'
    <3>1. txn' = Idle
      BY <2>2 DEF FreezeEnd, RestoreEnd
    <3> QED BY <3>1 DEF LoopsKnow, Idle
  <2>3. ASSUME NEW t \in Tickets, Requeue(t) \/ Contain(t) PROVE LoopsKnow'
    <3>1. txn'.op = "freeze"
      BY <1>1, <2>3 DEF Requeue, Contain, Transactions
    <3> QED BY <3>1 DEF LoopsKnow
  <2>4. ASSUME NEW t \in Tickets, Readmit(t) PROVE LoopsKnow'
    <3> DEFINE ex == store.spec[t].excluded \ {txn.who}
               sp == [store.spec[t] EXCEPT !.excluded = ex]
    <3>1. ex \in SUBSET Employees
      BY <1>1 DEF Databases, Specs
    <3>2. sp \in Specs
      BY <1>1, <3>1, StoreColumns, ReadmittedSpec DEF IInv
    <3>3. store' = TicketCreated(store, t, sp) /\ txn' = [txn EXCEPT !.todo = @ \ {t}]
      BY <2>4 DEF Readmit
    <3> HIDE DEF sp, ex
    <3>4. txn'.op = txn.op /\ txn'.todo = txn.todo \ {t} /\ txn'.todo \subseteq Tickets
      BY <1>4, <3>3
    <3>5. ASSUME NEW u \in txn'.todo PROVE store'.status[u] = store.status[u]
      BY <1>1, <3>2, <3>3, <3>4, CreatedOthers
    <3> QED BY <1>3, <3>4, <3>5
  <2> QED BY <1>7, <2>1, <2>2, <2>3, <2>4 DEF Staffing
<1>8. CASE UNCHANGED vars
  BY <1>1, <1>8 DEF vars, LoopsKnow
<1> QED BY <1>2, <1>5, <1>6, <1>7, <1>8 DEF Next

(* A submission is read, or over: nothing else touches the attempts.       *)
LEMMA AttemptKinds ==
  ASSUME [Next]_vars
  PROVE  \/ UNCHANGED attempt
         \/ \E t \in Tickets : SubmitRead(t)
         \/ \E t \in Tickets : attempt' = [attempt EXCEPT ![t] = "none"]
<1>1. CASE TicketCommand
  BY <1>1 DEF TicketCommand, Create, CreateTicket, Lease, Start, Heartbeat, Cancel, CeoRetry,
     SubmitLate, SubmitDropped, Complete, Fail, SubmitFail, SubmitComplete, Submitted
<1>2. CASE Tick
  BY <1>2 DEF Tick, TickBegin, DispatchBegin, TickEnd, TimeOut, DispatchFail, DispatchSkip,
              Dispatch, Considered
<1>3. CASE Recovery
  BY <1>3 DEF Recovery, RestoreOnly, RestoreAndRetry, RecoverContained, Recreate, RecreateSkip
<1>4. CASE Staffing
  BY <1>4 DEF Staffing, FreezeBegin, RestoreBegin, Requeue, Contain, Readmit, FreezeEnd, RestoreEnd
<1>5. CASE TimePasses \/ UNCHANGED vars
  BY <1>5 DEF TimePasses, DeadlinePasses, vars
<1> QED BY <1>1, <1>2, <1>3, <1>4, <1>5 DEF Next

(* Submissions are read of tickets there are, and tickets stay.            *)
LEMMA StepSubmissions ==
  ASSUME JInv, [Next]_vars
  PROVE  SubmissionsExist'
<1>1. /\ attempt \in [Tickets -> {"none", "late", "work"}] /\ SubmissionsExist
      /\ \A u \in Tickets : Exists(store, u) => Exists(store', u)
  BY StepFine DEF JInv, IInv, TypeOK, Onward
<1>2. ASSUME NEW t \in Tickets, SubmitRead(t)
      PROVE  Exists(store, t) /\ \A u \in Tickets : u # t => attempt'[u] = attempt[u]
  BY <1>1, <1>2 DEF SubmitRead
<1> QED BY <1>1, <1>2, AttemptKinds DEF SubmissionsExist

(* The second invariant holds to begin with, and every step keeps it.      *)
LEMMA JInitially == Init => JInv
<1> SUFFICES ASSUME Init PROVE JInv
  OBVIOUS
<1> QED BY Initially DEF Init, JInv, LoopsKnow, Idle, SubmissionsExist, CompletedStays,
        EmptyDatabase, BreakerFollowsIncident, ClosedOnlyByFollowup, NoIncident

(* Every handler keeps what recovery, submissions and incidents rest on.   *)
LEMMA JStep == JInv /\ [Next]_vars => JInv'
<1> SUFFICES ASSUME JInv, [Next]_vars PROVE JInv'
  OBVIOUS
<1>1. IInv'
  BY Step DEF JInv
<1> QED BY <1>1, StepLoops, StepSubmissions, StepFine, StepBreakers DEF JInv

(* So it always holds.                                                     *)
LEMMA JInvariance == Spec => []JInv
BY JInitially, JStep, PTL DEF Spec

(* The breaker of an incident is open exactly while the incident is.       *)
THEOREM BreakersFollow == Spec => []BreakerFollowsIncident
<1>1. JInv => BreakerFollowsIncident
  BY DEF JInv
<1> QED BY <1>1, JInvariance, PTL

(* An incident is closed by the completion of its own follow-up, and       *)
(* nothing later undoes that completion.                                   *)
THEOREM ClosedByFollowup == Spec => []ClosedOnlyByFollowup
<1>1. JInv => ClosedOnlyByFollowup
  BY DEF JInv
<1> QED BY <1>1, JInvariance, PTL

(* The handlers, the tick, recovery and containment implement the contract *)
(* with the workers: whatever is interleaved, a ticket is queued, claimed  *)
(* by one worker, run by that worker and ended once.                       *)
THEOREM ContractRefined == Spec => ContractKept
<1>1. Init => Contract!ContractInit
  <2> SUFFICES ASSUME Init PROVE Contract!ContractInit
    OBVIOUS
  <2>1. /\ store.status = [t \in Tickets |-> "NONE"]
        /\ store.owner = [t \in Tickets |-> NoOne]
    BY DEF Init, EmptyDatabase
  <2> QED BY <2>1 DEF Contract!ContractInit
<1>2. JInv /\ [Next]_vars => [Contract!ContractNext]_(Contract!contractVars)
  <2> SUFFICES ASSUME JInv, [Next]_vars PROVE Contract!ContractNext
    OBVIOUS
  <2>1. ASSUME NEW u \in Tickets PROVE Contract!Moves(u)
    BY StepFine DEF ContractOf, Contract!Moves, Contract!Stays, Contract!Queues,
                    Contract!Claims, Contract!Runs, Contract!AskedToStop, Contract!Ends
  <2> QED BY <2>1 DEF Contract!ContractNext
<1> QED BY <1>1, <1>2, JInvariance, PTL DEF Spec, ContractKept, Contract!ContractSpec

(* Each move that queues a ticket again keeps to its budget, or an         *)
(* operator acts.                                                          *)
LEMMA QueuedInBudget ==
  ASSUME NEW db, NEW new, NEW t \in Tickets, Moves(db, new, t), NEW u \in Tickets,
         db.status[u] # "PENDING", new.status[u] = "PENDING", ~ OperatorActs
  PROVE  u = t /\ db.status[u] = "NONE" /\ new.spec[u].retries <= RetryBudget
<1>1. u = t
  BY DEF Moves, Queued, Requeued, Claimed, Started, AskedToStop, Cancelled, Ended, Turns, SameTicket
<1>2. \E sp \in Specs : Queued(db, new, t, sp)
  BY <1>1 DEF Moves, Requeued, Claimed, Started, AskedToStop, Cancelled, Ended, Turns, DeadStatus
<1> QED BY <1>1, <1>2 DEF Queued, Turns

(* A ticket is queued over its retry budget only when an operator resolves *)
(* an incident, or a loop an operator started creates it again.            *)
THEOREM BudgetKept == Spec => OverBudgetOnlyByOperator
<1>1. ASSUME JInv, [Next]_vars, NEW t \in Tickets,
             store.status[t] # "PENDING", store'.status[t] = "PENDING",
             store'.spec[t].retries > RetryBudget
      PROVE  OperatorActs
  <2> SUFFICES ASSUME ~ OperatorActs PROVE FALSE
    OBVIOUS
  <2>0. store'.spec[t].retries \in Nat /\ RetryBudget \in Nat
    BY <1>1, Step, SpecFields, LifecycleAssumption DEF JInv, IInv, Consistent
  <2>1. CASE Still(store, store')
    BY <1>1, <2>1 DEF Still, SameTicket
  <2>2. ASSUME NEW u \in Tickets, Moves(store, store', u) PROVE FALSE
    BY <1>1, <2>0, <2>2, QueuedInBudget
  <2>3. CASE TwoEvents
    <3>1. PICK u \in Tickets, n \in Tickets, mid \in Databases :
          /\ Cancelled(store, mid, u) \/ \E s \in DeadStatus, out \in Outcomes : Ended(store, mid, u, s, out)
          /\ \E sp \in Specs : Queued(mid, store', n, sp)
      BY <2>3 DEF TwoEvents
    <3>2. mid.status[t] # "PENDING"
      BY <1>1, <3>1 DEF Cancelled, Ended, Turns, SameTicket, DeadStatus
    <3>3. Moves(mid, store', n)
      BY <3>1 DEF Moves
    <3> QED BY <1>1, <2>0, <3>2, <3>3, QueuedInBudget
  <2> QED BY <1>1, <2>1, <2>2, <2>3, StepKinds DEF StoreStep, OneEvent
<1>2. JInv /\ [Next]_vars =>
        [\A t \in Tickets :
           /\ store.status[t] # "PENDING" /\ store'.status[t] = "PENDING"
           /\ store'.spec[t].retries > RetryBudget
           => OperatorActs]_vars
  BY <1>1
<1> QED BY <1>2, JInvariance, PTL DEF Spec, OverBudgetOnlyByOperator

-----------------------------------------------------------------------------
(* Without operators' resolutions and retries by the CEO, a node has at    *)
(* most one ticket that counts, and it is the one the node points at.      *)
Held == {"PENDING", "LEASED", "EXECUTING", "COMPLETED"}

Working == {"LEASED", "EXECUTING", "CANCEL_REQUESTED"}

(* A ticket asked to stop may be passed over only by the late cancellation *)
(* of an older ticket of its node, and then the node is cancelled.         *)
HeldByNode(db) ==
  \A t \in Tickets :
    /\ db.status[t] \in Held => IsLatest(db, t)
    /\ db.status[t] = "CANCEL_REQUESTED" =>
         IsLatest(db, t) \/ db.nodeStatus[NodeOf(db, t)] = "CANCELLED"
    /\ \A u \in Tickets :
         db.status[t] \in Working /\ db.status[u] \in Working /\ NodeOf(db, t) = NodeOf(db, u)
           => t = u

(* A late result is on its way only to a node that was asked to stop.      *)
LateStops(db) ==
  \A t \in Tickets : attempt[t] = "late" =>
    Exists(db, t) /\ db.nodeStatus[NodeOf(db, t)] \in {"CANCEL_REQUESTED", "CANCELLED"}

(* What is done stays done.                                                *)
DoneStays(db, new) ==
  /\ \A t \in Tickets : db.status[t] = "COMPLETED" => new.status[t] = "COMPLETED"
  /\ \A n \in Nodes : db.nodeStatus[n] = "COMPLETED" => new.nodeStatus[n] = "COMPLETED"

(* The rows of a node whose status is known.                               *)
LEMMA NodeTells ==
  ASSUME NEW db, Consistent(db), HeldByNode(db), NEW u \in Tickets
  PROVE  /\ NodeOf(db, u) \in Nodes
         /\ db.status[u] \in {"PENDING", "LEASED"} => db.nodeStatus[NodeOf(db, u)] = "PENDING"
         /\ db.status[u] = "EXECUTING" => db.nodeStatus[NodeOf(db, u)] = "EXECUTING"
         /\ db.status[u] = "COMPLETED" => db.nodeStatus[NodeOf(db, u)] = "COMPLETED"
         /\ db.status[u] = "CANCEL_REQUESTED" =>
              db.nodeStatus[NodeOf(db, u)] \in {"CANCEL_REQUESTED", "CANCELLED"}
<1>1. NodeOf(db, u) \in Nodes
  BY SpecFields DEF Consistent
<1>2. IsLatest(db, u) => db.nodeStatus[NodeOf(db, u)] = NodeStatusFor(db.status[u])
  BY LatestStatus
<1>3. /\ db.status[u] \in Held => IsLatest(db, u)
      /\ db.status[u] = "CANCEL_REQUESTED" =>
           IsLatest(db, u) \/ db.nodeStatus[NodeOf(db, u)] = "CANCELLED"
  BY DEF HeldByNode
<1> QED BY <1>1, <1>2, <1>3 DEF Held, NodeStatusFor

(* A move that lands on a node where nothing else counts.                  *)
LEMMA LandsAlone ==
  ASSUME NEW db \in Databases, NEW new, NEW t \in Tickets, NEW n \in Nodes,
         HeldByNode(db), LateStops(db),
         NodeOf(new, t) = n, new.latest[n] = t, Exists(new, t),
         Exists(db, t) => NodeOf(db, t) = n,
         \A u \in Tickets : u # t => SameTicket(db, new, u),
         \A m \in Nodes : m # n => SameNode(db, new, m),
         \A u \in Tickets : u # t /\ NodeOf(db, u) = n =>
           /\ db.status[u] \notin Held
           /\ db.status[u] = "CANCEL_REQUESTED" =>
                new.nodeStatus[n] = "CANCELLED" /\ new.status[t] \notin Working,
         db.nodeStatus[n] \in {"CANCEL_REQUESTED", "CANCELLED"} =>
           new.nodeStatus[n] \in {"CANCEL_REQUESTED", "CANCELLED"}
  PROVE  HeldByNode(new) /\ LateStops(new)
<1>1. ASSUME NEW u \in Tickets, u # t
      PROVE  /\ NodeOf(new, u) = NodeOf(db, u) /\ new.status[u] = db.status[u]
             /\ NodeOf(db, u) \in Nodes /\ Exists(new, u) <=> Exists(db, u)
             /\ NodeOf(db, u) # n => /\ new.latest[NodeOf(db, u)] = db.latest[NodeOf(db, u)]
                                     /\ new.nodeStatus[NodeOf(db, u)] = db.nodeStatus[NodeOf(db, u)]
  BY <1>1, SpecFields DEF SameTicket, SameNode, NodeOf, Exists
<1>2. ASSUME NEW u \in Tickets
      PROVE  /\ new.status[u] \in Held => IsLatest(new, u)
             /\ new.status[u] = "CANCEL_REQUESTED" =>
                  IsLatest(new, u) \/ new.nodeStatus[NodeOf(new, u)] = "CANCELLED"
  <2>1. CASE u = t
    BY <2>1 DEF IsLatest
  <2>2. CASE u # t /\ NodeOf(db, u) = n
    BY <1>1, <2>2
  <2>3. CASE u # t /\ NodeOf(db, u) # n
    BY <1>1, <2>3 DEF HeldByNode, IsLatest
  <2> QED BY <2>1, <2>2, <2>3
<1>3. ASSUME NEW u \in Tickets, NEW v \in Tickets, u # v,
             new.status[u] \in Working, new.status[v] \in Working, NodeOf(new, u) = NodeOf(new, v)
      PROVE  FALSE
  <2>1. CASE u # t /\ v # t
    BY <1>1, <1>3, <2>1 DEF HeldByNode
  <2>2. ASSUME NEW w \in Tickets, w # t, NodeOf(new, w) = n, new.status[w] \in Working,
               new.status[t] \in Working
        PROVE  FALSE
    BY <1>1, <2>2 DEF Working, Held
  <2> QED BY <1>3, <2>1, <2>2
<1>4. ASSUME NEW u \in Tickets, attempt[u] = "late"
      PROVE  Exists(new, u) /\ new.nodeStatus[NodeOf(new, u)] \in {"CANCEL_REQUESTED", "CANCELLED"}
  <2>1. Exists(db, u) /\ db.nodeStatus[NodeOf(db, u)] \in {"CANCEL_REQUESTED", "CANCELLED"}
    BY <1>4 DEF LateStops
  <2>2. CASE u = t
    BY <2>1, <2>2
  <2>3. CASE u # t /\ NodeOf(db, u) = n
    BY <1>1, <2>1, <2>3
  <2>4. CASE u # t /\ NodeOf(db, u) # n
    BY <1>1, <2>1, <2>4
  <2> QED BY <2>2, <2>3, <2>4
<1>5. HeldByNode(new)
  BY <1>2, <1>3 DEF HeldByNode
<1> QED BY <1>4, <1>5 DEF LateStops

(* Every move does, and none undoes what is done.                          *)
LEMMA MoveHeld ==
  ASSUME ~ MayOperate, NEW db, Consistent(db), NEW new, NEW t \in Tickets, Moves(db, new, t),
         HeldByNode(db), LateStops(db)
  PROVE  HeldByNode(new) /\ LateStops(new) /\ DoneStays(db, new)
<1>1. db \in Databases /\ NodeOf(db, t) \in Nodes
  BY SpecFields DEF Consistent
<1> DEFINE Goal == HeldByNode(new) /\ LateStops(new) /\ DoneStays(db, new)
<1>2. ASSUME NEW n \in Nodes, NodeOf(new, t) = n, new.latest[n] = t, Exists(new, t),
             Exists(db, t) => NodeOf(db, t) = n,
             \A u \in Tickets : u # t => SameTicket(db, new, u),
             \A m \in Nodes : m # n => SameNode(db, new, m),
             db.status[t] # "COMPLETED", db.nodeStatus[n] # "COMPLETED",
             \A u \in Tickets : u # t /\ NodeOf(db, u) = n =>
               /\ db.status[u] \notin Held
               /\ db.status[u] = "CANCEL_REQUESTED" =>
                    new.nodeStatus[n] = "CANCELLED" /\ new.status[t] \notin Working,
             db.nodeStatus[n] \in {"CANCEL_REQUESTED", "CANCELLED"} =>
               new.nodeStatus[n] \in {"CANCEL_REQUESTED", "CANCELLED"}
      PROVE  Goal
  <2>1. DoneStays(db, new)
    BY <1>2 DEF DoneStays, SameTicket, SameNode
  <2>2. HeldByNode(new) /\ LateStops(new)
    BY <1>1, <1>2, LandsAlone
  <2> QED BY <2>1, <2>2
(* A free node. *)
<1>3. ASSUME NEW sp \in Specs, Queued(db, new, t, sp) PROVE Goal
  <2>1. /\ sp.node \in Nodes /\ db.nodeStatus[sp.node] \in {"NONE", "REWORK_REQUIRED"}
        /\ db.status[t] = "NONE"
        /\ Turns(db, new, t, "PENDING", NoOne, db.outcome[t], sp)
    BY <1>3 DEF Queued, Specs
  <2>2. ASSUME NEW u \in Tickets, NodeOf(db, u) = sp.node
        PROVE  db.status[u] \notin Held /\ db.status[u] # "CANCEL_REQUESTED"
    BY <2>1, <2>2, NodeTells DEF Held
  <2>3. NodeOf(new, t) = sp.node /\ Exists(new, t) /\ ~ Exists(db, t)
    BY <2>1 DEF Turns, NodeOf, Exists
  <2> HIDE DEF Goal
  <2> QED BY <1>2, <2>1, <2>2, <2>3 DEF Turns
(* A node that has this ticket and no other.                               *)
<1>4. ASSUME NEW s, NEW o, NEW out, NEW sp, Turns(db, new, t, s, o, out, sp), sp.node = NodeOf(db, t),
             s # "NONE", db.status[t] \in {"PENDING", "LEASED", "EXECUTING"}
      PROVE  Goal
  <2> DEFINE n == NodeOf(db, t)
  <2>1. db.nodeStatus[n] \in {"PENDING", "EXECUTING"} /\ db.latest[n] = t
    BY <1>4, NodeTells DEF HeldByNode, Held, IsLatest
  <2>2. ASSUME NEW u \in Tickets, u # t, NodeOf(db, u) = n
        PROVE  db.status[u] \notin Held /\ db.status[u] # "CANCEL_REQUESTED"
    BY <2>1, <2>2, NodeTells DEF HeldByNode, Held, IsLatest
  <2>3. NodeOf(new, t) = n /\ Exists(new, t)
    BY <1>4 DEF Turns, NodeOf, Exists
  <2>4. /\ new.latest[n] = t /\ n \in Nodes
        /\ \A u \in Tickets : u # t => SameTicket(db, new, u)
        /\ \A m \in Nodes : m # n => SameNode(db, new, m)
    BY <1>1, <1>4 DEF Turns
  <2> HIDE DEF Goal, n
  <2>5. db.status[t] # "COMPLETED" /\ db.nodeStatus[n] # "COMPLETED" /\ Exists(db, t)
    BY <1>4, <2>1 DEF Exists
  <2>6. db.nodeStatus[n] \notin {"CANCEL_REQUESTED", "CANCELLED"} /\ NodeOf(db, t) = n
    BY <2>1 DEF n
  <2> QED BY <1>2, <2>2, <2>3, <2>4, <2>5, <2>6
(* A cancellation of what the node has, or late, on a node that stops.     *)
<1>5. ASSUME Cancelled(db, new, t) PROVE Goal
  <2> DEFINE n == NodeOf(db, t)
  <2>1. /\ Exists(db, t) /\ Turns(db, new, t, "CANCELLED", NoOne, db.outcome[t], db.spec[t])
        /\ \/ IsLatest(db, t) /\ db.status[t] \notin DeadStatus
           \/ attempt[t] = "late"
    BY <1>5 DEF Cancelled
  <2>2. /\ NodeOf(new, t) = n /\ Exists(new, t) /\ new.latest[n] = t
        /\ new.nodeStatus[n] = "CANCELLED" /\ new.status[t] = "CANCELLED"
        /\ \A u \in Tickets : u # t => SameTicket(db, new, u)
        /\ \A m \in Nodes : m # n => SameNode(db, new, m)
    BY <2>1 DEF Turns, NodeOf, Exists, NodeStatusFor
  <2>3. CASE db.status[t] \in {"PENDING", "LEASED", "EXECUTING"}
    BY <1>4, <2>1, <2>3 DEF NodeOf
  <2>4. CASE db.nodeStatus[n] \in {"CANCEL_REQUESTED", "CANCELLED"}
    <3>1. ASSUME NEW u \in Tickets, NodeOf(db, u) = n PROVE db.status[u] \notin Held
      BY <2>4, <3>1, NodeTells DEF Held
    <3>2. db.status[t] # "COMPLETED" /\ db.nodeStatus[n] # "COMPLETED"
      BY <2>4, <3>1 DEF Held
    <3>3. n \in Nodes
      BY <1>1
    <3>4. new.status[t] \notin Working
      BY <2>2 DEF Working
    <3>5. NodeOf(db, t) = n
      OBVIOUS
    <3> HIDE DEF Goal, n
    <3> QED BY <1>2, <2>1, <2>2, <3>1, <3>2, <3>3, <3>4, <3>5
  <2>5. \/ db.status[t] \in {"PENDING", "LEASED", "EXECUTING"}
        \/ db.nodeStatus[n] \in {"CANCEL_REQUESTED", "CANCELLED"}
    <3>1. db.status[t] \in LiveStatus => \/ db.status[t] \in {"PENDING", "LEASED", "EXECUTING"}
                                         \/ db.nodeStatus[n] \in {"CANCEL_REQUESTED", "CANCELLED"}
      BY NodeTells DEF LiveStatus
    <3>2. db.status[t] \in LiveStatus \/ attempt[t] = "late"
      BY <1>1, <2>1, ColumnTypes DEF Exists, Statuses
    <3> QED BY <3>1, <3>2 DEF LateStops
  <2> QED BY <2>3, <2>4, <2>5
<1>6. ASSUME NEW sp \in Specs, Requeued(db, new, t, sp) PROVE Goal
  BY <1>4, <1>6 DEF Requeued
<1>7. ASSUME NEW e \in Employees, Claimed(db, new, t, e) PROVE Goal
  BY <1>4, <1>7 DEF Claimed, NodeOf
<1>8. ASSUME Started(db, new, t) \/ AskedToStop(db, new, t) PROVE Goal
  BY <1>4, <1>8 DEF Started, AskedToStop, NodeOf
<1>9. ASSUME NEW s \in DeadStatus, NEW out \in Outcomes, Ended(db, new, t, s, out) PROVE Goal
  BY <1>4, <1>9 DEF Ended, NodeOf
<1> HIDE DEF Goal
<1> QED BY <1>3, <1>5, <1>6, <1>7, <1>8, <1>9 DEF Moves, Goal

LateStopping == LateStops(store)

(* So the invariant of the moves is kept by every step.                    *)
LEMMA StepHeld ==
  ASSUME ~ MayOperate, JInv, HeldByNode(store), LateStopping, [Next]_vars
  PROVE  HeldByNode(store') /\ LateStopping' /\ DoneStays(store, store')
<1>1. Consistent(store) /\ LateStops(store)
  BY DEF JInv, IInv, LateStopping
<1>2. HeldByNode(store') /\ LateStops(store') /\ DoneStays(store, store')
  <2>1. CASE Still(store, store')
    <3>1. \A u \in Tickets : SameTicket(store, store', u) /\ NodeOf(store, u) \in Nodes
      BY <1>1, <2>1, SpecFields DEF Still, Consistent
    <3>2. \A n \in Nodes : SameNode(store, store', n)
      BY <2>1 DEF Still
    <3>3. HeldByNode(store')
      BY <3>1, <3>2 DEF HeldByNode, SameTicket, SameNode, NodeOf, IsLatest
    <3>4. LateStops(store')
      BY <1>1, <3>1, <3>2 DEF LateStops, SameTicket, SameNode, NodeOf, Exists
    <3> QED BY <3>1, <3>2, <3>3, <3>4 DEF DoneStays, SameTicket, SameNode
  <2>2. CASE OneEvent
    BY <1>1, <2>2, MoveHeld DEF OneEvent
  <2>3. CASE TwoEvents
    <3>1. PICK t \in Tickets, n \in Tickets, mid \in Databases :
            /\ Consistent(mid)
            /\ Cancelled(store, mid, t) \/ \E s \in DeadStatus, out \in Outcomes : Ended(store, mid, t, s, out)
            /\ \E sp \in Specs : Queued(mid, store', n, sp)
      BY <2>3 DEF TwoEvents
    <3>2. Moves(store, mid, t) /\ Moves(mid, store', n)
      BY <3>1 DEF Moves
    <3>3. HeldByNode(mid) /\ LateStops(mid) /\ DoneStays(store, mid)
      BY <1>1, <3>2, MoveHeld
    <3>4. HeldByNode(store') /\ LateStops(store') /\ DoneStays(mid, store')
      BY <3>1, <3>2, <3>3, MoveHeld
    <3> QED BY <3>3, <3>4 DEF DoneStays
  <2> QED BY <2>1, <2>2, <2>3, StepKinds DEF StoreStep
<1>3. LateStopping'
  <2>1. attempt \in [Tickets -> {"none", "late", "work"}]
    BY DEF JInv, IInv, TypeOK
  <2>2. CASE \A u \in Tickets : attempt'[u] = "late" => attempt[u] = "late"
    BY <1>2, <2>2 DEF LateStopping, LateStops
  <2>3. ASSUME NEW t \in Tickets, SubmitRead(t) PROVE LateStopping'
    <3>1. /\ store' = store /\ Exists(store, t)
          /\ \A u \in Tickets : u # t => attempt'[u] = attempt[u]
          /\ attempt'[t] = "late" => CancelPending(t)
      BY <2>1, <2>3 DEF SubmitRead
    <3>2. attempt'[t] = "late" => store.nodeStatus[NodeOf(store, t)] \in {"CANCEL_REQUESTED", "CANCELLED"}
      BY <1>1, <3>1, NodeTells DEF CancelPending
    <3> QED BY <1>1, <3>1, <3>2 DEF LateStopping, LateStops
  <2> QED BY <2>1, <2>2, <2>3, AttemptKinds
<1> QED BY <1>2, <1>3

(* A tick that times tickets out knows of the incidents on their nodes.    *)
TickSees ==
  txn.op = "time out" =>
    \A t \in txn.todo :
      NodeOf(store, t) \in NodesWithOpenIncident => NodeOf(store, t) \in txn.tripped

(* The third inductive invariant, without operators.                       *)
KInv ==
  /\ JInv /\ HeldByNode(store) /\ LateStopping
  /\ TickSees /\ OneBreakerPerCause

(* The node of an incident does not change, and only what opens is new.    *)
LEMMA NodesOfIncidents ==
  ASSUME ~ MayOperate, JInv, [Next]_vars, NEW i \in Incidents
  PROVE  \/ /\ incident[i].status # "NONE"
            /\ incident'[i].status = "OPEN" => incident'[i] = incident[i]
            /\ NodeOf(store', incident'[i].ticket) = NodeOf(store, incident[i].ticket)
         \/ incident[i].status = "NONE" /\ incident'[i].status = "NONE"
         \/ \E type \in IncidentTypes, t \in Tickets, p \in Providers \cup {NoProvider} :
              /\ Opened(type, t, p) /\ incident[i].status = "NONE"
              /\ incident'[i] = [status |-> "OPEN", breaker |-> "OPEN", type |-> type,
                                 ticket |-> t, provider |-> p, followup |-> NoTicket]
              /\ NodeOf(store', t) = NodeOf(store, t)
              /\ \A j \in Incidents : j # i => incident'[j] = incident[j]
<1>1. /\ incident \in [Incidents -> IncidentRows] /\ IncidentsNameTickets
      /\ BreakerFollowsIncident
  BY DEF JInv, IInv, TypeOK
<1>2. \A u \in Tickets : Exists(store, u) => NodeOf(store', u) = NodeOf(store, u)
  BY StepFine DEF Onward
<1>3. ASSUME incident[i].status # "NONE"
      PROVE  incident[i].ticket \in Tickets
             /\ NodeOf(store', incident[i].ticket) = NodeOf(store, incident[i].ticket)
  BY <1>1, <1>2, <1>3 DEF IncidentsNameTickets, BreakerFollowsIncident
<1>4. CASE incident'[i] = incident[i]
  BY <1>3, <1>4
<1>5. CASE UNCHANGED incident
  BY <1>4, <1>5
<1>6. ASSUME NEW type \in IncidentTypes, NEW t \in Tickets, NEW p \in Providers \cup {NoProvider},
             Opened(type, t, p), incident'[i] # incident[i]
      PROVE  /\ incident[i].status = "NONE"
             /\ incident'[i] = [status |-> "OPEN", breaker |-> "OPEN", type |-> type,
                                ticket |-> t, provider |-> p, followup |-> NoTicket]
             /\ NodeOf(store', t) = NodeOf(store, t)
             /\ \A j \in Incidents : j # i => incident'[j] = incident[j]
  <2> DEFINE row == [status |-> "OPEN", breaker |-> "OPEN", type |-> type,
                     ticket |-> t, provider |-> p, followup |-> NoTicket]
  <2>1. OpenIncident(type, t, p) /\ Exists(store, t)
    BY <1>6 DEF Opened, Exists
  <2>2. \E k \in Incidents : /\ incident[k].status = "NONE" /\ incident'[k] = row
                             /\ \A j \in Incidents : j # k => incident'[j] = incident[j]
    BY <1>1, <2>1, OpenedRow
  <2> QED BY <1>2, <1>6, <2>1, <2>2
<1>7. ASSUME NEW t \in Tickets, Closing(t), incident'[i] # incident[i]
      PROVE  /\ incident[i].status # "NONE" /\ incident'[i].status = "CLOSED"
             /\ incident'[i].ticket = incident[i].ticket
  BY <1>1, <1>7, ClosingRow
<1>8. CASE \E t \in Tickets : Closing(t)
  BY <1>3, <1>4, <1>7, <1>8
<1>9. CASE \E type \in IncidentTypes, t \in Tickets, p \in Providers \cup {NoProvider} : Opened(type, t, p)
  BY <1>4, <1>6, <1>9
<1> QED BY <1>5, <1>8, <1>9, IncidentKinds DEF IncidentStep

(* Only a tick starts to time tickets out, and goes on with it.            *)
LEMMA TickLock ==
  ASSUME [Next]_vars, txn \in Transactions, txn'.op = "time out"
  PROVE  \/ UNCHANGED vars
         \/ \E extra : TickBegin(extra)
         \/ \E t \in Tickets : TimeOut(t)
<1>1. CASE TicketCommand \/ TimePasses
  BY <1>1, CommandLock
<1>2. CASE Tick
  <2>1. CASE DispatchBegin
    BY <2>1 DEF DispatchBegin, Transactions
  <2>2. CASE TickEnd
    BY <2>2 DEF TickEnd, Idle
  <2>3. ASSUME NEW t, DispatchFail(t) \/ DispatchSkip(t) PROVE FALSE
    BY <2>3 DEF DispatchFail, DispatchSkip, Considered, Transactions
  <2>4. ASSUME NEW t, NEW e, Dispatch(t, e) PROVE FALSE
    BY <2>4 DEF Dispatch, Considered, Transactions
  <2> QED BY <1>2, <2>1, <2>2, <2>3, <2>4 DEF Tick
<1>3. CASE Recovery
  <2>1. ASSUME NEW i \in Incidents, RestoreOnly(i) \/ RecoverContained(i) PROVE FALSE
    BY <2>1, CommandLock
  <2>2. ASSUME NEW i \in Incidents, RestoreAndRetry(i) PROVE FALSE
    BY <2>2 DEF RestoreAndRetry, Idle
  <2>3. ASSUME NEW t, Recreate(t) \/ RecreateSkip(t) PROVE FALSE
    <3>1. CASE Recreate(t)
      <4>1. txn.op = "recreate"
            /\ (txn' = Idle \/ \E n : txn' = [txn EXCEPT !.todo = @ \ {t}, !.instead[t] = n])
        BY <3>1 DEF Recreate
      <4>2. ASSUME NEW n, txn' = [txn EXCEPT !.todo = @ \ {t}, !.instead[t] = n]
            PROVE  txn'.op = txn.op
        BY <4>2 DEF Transactions
      <4>3. CASE txn' = Idle
        BY <4>3 DEF Idle
      <4> QED BY <4>1, <4>2, <4>3
    <3>2. CASE RecreateSkip(t)
      BY <3>2 DEF RecreateSkip, Idle, Transactions
    <3> QED BY <2>3, <3>1, <3>2
  <2> QED BY <1>3, <2>1, <2>2, <2>3 DEF Recovery
<1>4. CASE Staffing
  <2>1. ASSUME NEW e, FreezeBegin(e) PROVE FALSE
    BY <2>1 DEF FreezeBegin, Idle
  <2>2. ASSUME NEW e, RestoreBegin(e) PROVE FALSE
    BY <2>2 DEF RestoreBegin, Idle
  <2>3. ASSUME FreezeEnd \/ RestoreEnd PROVE FALSE
    <3>1. txn' = Idle
      BY <2>3 DEF FreezeEnd, RestoreEnd
    <3> QED BY <3>1 DEF Idle
  <2>4. ASSUME NEW t, Requeue(t) \/ Contain(t) \/ Readmit(t) PROVE FALSE
    BY <2>4 DEF Requeue, Contain, Readmit, Transactions
  <2> QED BY <1>4, <2>1, <2>2, <2>3, <2>4 DEF Staffing
<1> QED BY <1>1, <1>2, <1>3, <1>4 DEF Next

(* A tick that opens an incident does so on a node it has left behind.     *)
LEMMA StepSees ==
  ASSUME ~ MayOperate, KInv, [Next]_vars
  PROVE  TickSees'
<1>1. /\ JInv /\ IInv /\ LoopsKnow /\ txn \in Transactions /\ HeldByNode(store) /\ TickSees
      /\ incident \in [Incidents -> IncidentRows] /\ BreakerFollowsIncident
  BY DEF KInv, JInv, IInv, TypeOK
<1> SUFFICES ASSUME txn'.op = "time out" PROVE TickSees'
  BY DEF TickSees
<1>2. CASE UNCHANGED vars
  BY <1>1, <1>2 DEF vars, TickSees, NodesWithOpenIncident, OnNode
<1>3. ASSUME NEW extra, TickBegin(extra) PROVE TickSees'
  <2>1. /\ UNCHANGED <<store, incident>> /\ txn'.tripped = NodesWithOpenIncident
    BY <1>3 DEF TickBegin, Idle
  <2> QED BY <2>1 DEF TickSees, NodesWithOpenIncident, OnNode
<1>4. ASSUME NEW t \in Tickets, TimeOut(t), NEW u \in txn'.todo,
             NodeOf(store', u) \in NodesWithOpenIncident'
      PROVE  NodeOf(store', u) \in txn'.tripped
  <2>1. /\ txn.op = "time out" /\ u \in txn.todo /\ u # t /\ u \in Tickets
        /\ txn'.tripped = txn.tripped
    BY <1>1, <1>4 DEF TimeOut, Transactions
  <2>2. store.status[u] = "EXECUTING" /\ Exists(store, u)
    BY <1>1, <2>1 DEF LoopsKnow, Exists
  <2>3. store'.status[u] = "EXECUTING"
    BY <1>1, <1>4, <2>1, <2>2, TimeOutOthers
  <2>4. NodeOf(store', u) = NodeOf(store, u) /\ NodeOf(store, u) \in Nodes
    BY <1>1, <2>1, <2>2, StepFine, SpecFields DEF Onward, IInv, Consistent
  <2>5. PICK i \in Incidents : incident'[i].status = "OPEN"
                               /\ NodeOf(store', incident'[i].ticket) = NodeOf(store, u)
    BY <1>4, <2>4 DEF NodesWithOpenIncident, OnNode
  <2>6. CASE incident'[i] = incident[i]
             /\ NodeOf(store', incident'[i].ticket) = NodeOf(store, incident[i].ticket)
    <3>1. NodeOf(store, u) \in NodesWithOpenIncident
      BY <2>4, <2>5, <2>6 DEF NodesWithOpenIncident, OnNode
    <3> QED BY <1>1, <2>1, <2>4, <3>1 DEF TickSees
  <2>7. ASSUME NEW type, NEW v \in Tickets, NEW p, Opened(type, v, p), NodeOf(store, v) = NodeOf(store, u)
        PROVE  FALSE
    <3>1. store.status[v] \in Working /\ store.status[u] \in Working
      BY <2>2, <2>7 DEF Opened, Working
    <3>2. v = u
      BY <1>1, <2>1, <2>7, <3>1 DEF HeldByNode
    <3> QED BY <2>3, <2>7, <3>2 DEF Opened
  <2>8. \/ incident'[i] = incident[i]
           /\ NodeOf(store', incident'[i].ticket) = NodeOf(store, incident[i].ticket)
        \/ \E type \in IncidentTypes, v \in Tickets, p \in Providers \cup {NoProvider} :
             Opened(type, v, p) /\ NodeOf(store, v) = NodeOf(store, u)
    <3>1. ASSUME NEW type \in IncidentTypes, NEW v \in Tickets, NEW p \in Providers \cup {NoProvider},
                 Opened(type, v, p),
                 incident'[i] = [status |-> "OPEN", breaker |-> "OPEN", type |-> type,
                                 ticket |-> v, provider |-> p, followup |-> NoTicket],
                 NodeOf(store', v) = NodeOf(store, v)
          PROVE  NodeOf(store, v) = NodeOf(store, u)
      <4> DEFINE row == [status |-> "OPEN", breaker |-> "OPEN", type |-> type,
                         ticket |-> v, provider |-> p, followup |-> NoTicket]
      <4>0. row.ticket = v
        OBVIOUS
      <4>1. incident'[i].ticket = v
        BY <3>1, <4>0
      <4>2. NodeOf(store', v) = NodeOf(store, u)
        BY <2>5, <4>1
      <4> QED BY <3>1, <4>2
    <3> QED BY <1>1, <2>5, <3>1, NodesOfIncidents
  <2> QED BY <2>6, <2>7, <2>8
<1> QED BY <1>1, <1>2, <1>3, <1>4, TickLock DEF TickSees

(* No second breaker for a cause that has one.                             *)
LEMMA StepOneBreaker ==
  ASSUME ~ MayOperate, KInv, [Next]_vars
  PROVE  OneBreakerPerCause'
<1>1. /\ JInv /\ TickSees /\ OneBreakerPerCause /\ BreakerFollowsIncident
      /\ incident \in [Incidents -> IncidentRows] /\ IncidentsNameTickets
      /\ store \in Databases
  BY DEF KInv, JInv, IInv, TypeOK
<1> DEFINE Same(i, j) ==
      \/ /\ {incident'[i].type, incident'[j].type} \subseteq {"TIMEOUT", "FAILURE"}
         /\ NodeOf(store', incident'[i].ticket) = NodeOf(store', incident'[j].ticket)
      \/ /\ incident'[i].type = "PROVIDER" /\ incident'[j].type = "PROVIDER"
         /\ incident'[i].provider = incident'[j].provider
           Old(i) == /\ incident[i].status = "OPEN" /\ incident'[i] = incident[i]
                     /\ NodeOf(store', incident'[i].ticket) = NodeOf(store, incident[i].ticket)
           New(i) == \E type \in IncidentTypes, t \in Tickets, p \in Providers \cup {NoProvider} :
              /\ Opened(type, t, p) /\ incident[i].status = "NONE"
              /\ incident'[i] = [status |-> "OPEN", breaker |-> "OPEN", type |-> type,
                                 ticket |-> t, provider |-> p, followup |-> NoTicket]
              /\ NodeOf(store', t) = NodeOf(store, t)
              /\ \A j \in Incidents : j # i => incident'[j] = incident[j]
<1>2. ASSUME NEW i \in Incidents, incident'[i].status = "OPEN" PROVE Old(i) \/ New(i)
  <2>1. \/ /\ incident[i].status # "NONE"
           /\ incident'[i].status = "OPEN" => incident'[i] = incident[i]
           /\ NodeOf(store', incident'[i].ticket) = NodeOf(store, incident[i].ticket)
        \/ incident[i].status = "NONE" /\ incident'[i].status = "NONE"
        \/ New(i)
    BY <1>1, NodesOfIncidents
  <2> HIDE DEF New
  <2> QED BY <1>2, <2>1
<1>3. ASSUME NEW i \in Incidents, NEW j \in Incidents, Old(i), Old(j), Same(i, j) PROVE i = j
  BY <1>1, <1>3 DEF OneBreakerPerCause, Tripped, OnNode, BreakerFollowsIncident
<1>4. ASSUME NEW i \in Incidents, NEW j \in Incidents, New(i), Old(j), Same(i, j) PROVE FALSE
  <2>1. PICK type \in IncidentTypes, t \in Tickets, p \in Providers \cup {NoProvider} :
           /\ Opened(type, t, p)
           /\ incident'[i] = [status |-> "OPEN", breaker |-> "OPEN", type |-> type,
                              ticket |-> t, provider |-> p, followup |-> NoTicket]
           /\ NodeOf(store', t) = NodeOf(store, t)
    BY <1>4
  <2>2. /\ incident'[i].type = type /\ incident'[i].ticket = t /\ incident'[i].provider = p
    BY <2>1
  <2>3. CASE type = "PROVIDER"
    <3>1. incident[j].status = "OPEN" /\ incident[j].provider = p
      BY <1>4, <2>2, <2>3
    <3> QED BY <2>1, <2>3, <3>1 DEF Opened
  <2>4. CASE type \in {"TIMEOUT", "FAILURE"}
    <3>1. NodeOf(store, incident[j].ticket) = NodeOf(store, t) /\ incident[j].status = "OPEN"
      BY <1>4, <2>1, <2>2, <2>4
    <3>2. NodeOf(store, t) \in NodesWithOpenIncident
      BY <1>1, <3>1, SpecFields DEF NodesWithOpenIncident, OnNode
    <3> QED BY <1>1, <2>1, <2>4, <3>2 DEF Opened, TickSees
  <2>5. type \in {"PROVIDER", "TIMEOUT", "FAILURE"}
    BY <1>4, <2>2
  <2> QED BY <2>3, <2>4, <2>5
<1>5. ASSUME NEW i \in Incidents, NEW j \in Incidents, New(i), New(j) PROVE i = j
  BY <1>5
<1>6. ASSUME NEW i \in Incidents, NEW j \in Incidents, Same(i, j) PROVE Same(j, i)
  BY <1>6
<1>7. ASSUME NEW i \in Incidents, NEW j \in Incidents,
             incident'[i].status = "OPEN", incident'[j].status = "OPEN", Same(i, j)
      PROVE  i = j
  <2> HIDE DEF Old, New, Same
  <2> QED BY <1>2, <1>3, <1>4, <1>5, <1>6, <1>7
<1> QED BY <1>7 DEF OneBreakerPerCause, Tripped, OnNode

(* The third invariant holds to begin with, and every step keeps it.       *)
LEMMA KInitially == Init => KInv
<1> SUFFICES ASSUME Init PROVE KInv
  OBVIOUS
<1>1. JInv
  BY JInitially
<1>2. \A t \in Tickets : store.status[t] = "NONE" /\ attempt[t] = "none"
  BY DEF Init, EmptyDatabase
<1>3. HeldByNode(store) /\ LateStopping
  BY <1>2 DEF HeldByNode, Held, Working, LateStopping, LateStops
<1>4. TickSees /\ OneBreakerPerCause
  BY DEF Init, TickSees, Idle, OneBreakerPerCause, Tripped, NoIncident
<1> QED BY <1>1, <1>3, <1>4 DEF KInv

(* In the instances without operators.                                     *)
LEMMA KStep ==
  ASSUME ~ MayOperate
  PROVE  KInv /\ [Next]_vars => KInv'
<1> SUFFICES ASSUME KInv, [Next]_vars PROVE KInv'
  OBVIOUS
<1>1. JInv' /\ HeldByNode(store') /\ LateStopping'
  BY JStep, StepHeld DEF KInv
<1> QED BY <1>1, StepSees, StepOneBreaker DEF KInv

(* So it always holds there.                                               *)
LEMMA KInvariance ==
  ASSUME ~ MayOperate
  PROVE  Spec => []KInv
BY KInitially, KStep, PTL DEF Spec

(* Without operators' resolutions and retries by the CEO, no two attempts  *)
(* work on the same output: however retries, freezes, late results,        *)
(* cancellations and ticks interleave, a node has one ticket that is       *)
(* claimed, running or stopping.                                           *)
THEOREM OneExecution ==
  ASSUME ~ MayOperate
  PROVE  Spec => []OneExecutionPerNode
<1>1. KInv => OneExecutionPerNode
  BY DEF KInv, HeldByNode, Working, OneExecutionPerNode
<1> QED BY <1>1, KInvariance, PTL

(* There, what is queued stays within reach of the scheduler.              *)
THEOREM NothingLost ==
  ASSUME ~ MayOperate
  PROVE  Spec => []NoTicketLost
<1>1. KInv => NoTicketLost
  BY DEF KInv, HeldByNode, Held, NoTicketLost
<1> QED BY <1>1, KInvariance, PTL

(* There, a cause is never put under a second breaker while the first is   *)
(* open, although a tick looks the incidents up only when it starts.       *)
THEOREM OneBreaker ==
  ASSUME ~ MayOperate
  PROVE  Spec => []OneBreakerPerCause
<1>1. KInv => OneBreakerPerCause
  BY DEF KInv
<1> QED BY <1>1, KInvariance, PTL

-----------------------------------------------------------------------------
(* When every lease is the scheduler's.                                    *)

(* A claim that counts: a running ticket, or a lease that has not expired. *)
Claiming(db, t) ==
  \/ db.status[t] = "EXECUTING"
  \/ db.status[t] = "LEASED" /\ "lease" \notin db.overdue[t]

OneClaim(db) ==
  \A t, u \in Tickets :
    /\ Claiming(db, t) /\ Claiming(db, u)
    /\ db.owner[t] \in Employees /\ db.owner[t] = db.owner[u]
    => t = u

(* A move makes a claim only for a worker who has none.                    *)
LEMMA MoveClaims ==
  ASSUME "lease" \notin Commands, NEW t \in Tickets, Moves(store, store', t), OneClaim(store)
  PROVE  OneClaim(store')
<1>1. \A u \in Tickets : u # t => SameTicket(store, store', u)
  BY DEF Moves, Queued, Requeued, Claimed, Started, AskedToStop, Cancelled, Ended, Turns
<1>2. ASSUME NEW u \in Tickets, u # t, Claiming(store', u)
      PROVE  Claiming(store, u) /\ store'.owner[u] = store.owner[u]
  BY <1>1, <1>2 DEF Claiming, SameTicket
<1>3. CASE Claiming(store', t) => Claiming(store, t) /\ store'.owner[t] = store.owner[t]
  BY <1>2, <1>3 DEF OneClaim
<1>4. ASSUME NEW e \in Employees, Claimed(store, store', t, e) PROVE OneClaim(store')
  <2>1. store'.owner[t] = e /\ e \notin Busy
    BY <1>4 DEF Claimed, Scheduled, Turns
  <2>2. \A u \in Tickets : Claiming(store, u) => store.owner[u] # e
    BY <2>1 DEF Busy, Claiming
  <2> QED BY <1>2, <2>1, <2>2 DEF OneClaim
<1>5. \/ \E e \in Employees : Claimed(store, store', t, e)
      \/ Claiming(store', t) => Claiming(store, t) /\ store'.owner[t] = store.owner[t]
  BY DEF Moves, Queued, Requeued, Started, AskedToStop, Cancelled, Ended, Turns, Claiming, DeadStatus
<1> QED BY <1>3, <1>4, <1>5

(* The ticket that follows in the same step is queued.                     *)
LEMMA QueuedClaims ==
  ASSUME NEW mid, NEW t \in Tickets, NEW sp, Queued(mid, store', t, sp),
         NEW u \in Tickets, Claiming(store', u)
  PROVE  Claiming(mid, u) /\ store'.owner[u] = mid.owner[u]
BY DEF Queued, Turns, SameTicket, Claiming

(* The first of the two moves ends a ticket.                               *)
LEMMA EndedClaims ==
  ASSUME NEW mid, NEW t \in Tickets, NEW u \in Tickets, Claiming(mid, u),
         Cancelled(store, mid, t) \/ \E s \in DeadStatus, out \in Outcomes : Ended(store, mid, t, s, out)
  PROVE  Claiming(store, u) /\ mid.owner[u] = store.owner[u]
BY DEF Cancelled, Ended, Turns, SameTicket, Claiming, DeadStatus

(* So every step keeps it.                                                 *)
LEMMA StepClaims ==
  ASSUME "lease" \notin Commands, JInv, OneClaim(store), [Next]_vars
  PROVE  OneClaim(store')
<1>1. CASE \A u \in Tickets :
             Claiming(store', u) => Claiming(store, u) /\ store'.owner[u] = store.owner[u]
  BY <1>1 DEF OneClaim
<1>2. CASE Still(store, store')
  BY <1>1, <1>2 DEF Still, SameTicket, Claiming
<1>3. CASE OneEvent
  BY <1>3, MoveClaims DEF OneEvent
<1>4. CASE TwoEvents
  <2>1. PICK t \in Tickets, n \in Tickets, mid \in Databases, sp \in Specs :
          /\ Cancelled(store, mid, t) \/ \E s \in DeadStatus, out \in Outcomes : Ended(store, mid, t, s, out)
          /\ Queued(mid, store', n, sp)
    BY <1>4 DEF TwoEvents
  <2> QED BY <1>1, <2>1, QueuedClaims, EndedClaims
<1> QED BY <1>2, <1>3, <1>4, StepKinds DEF StoreStep

(* No worker ever holds two claims, whatever freezes, cancellations and    *)
(* recoveries come between the ticks, unless tickets are leased by hand.   *)
THEOREM OneClaimEach ==
  ASSUME "lease" \notin Commands
  PROVE  Spec => []OneClaimPerWorker
<1> DEFINE Inv == JInv /\ OneClaim(store)
<1>1. Init => Inv
  <2> SUFFICES ASSUME Init PROVE Inv
    OBVIOUS
  <2>1. \A t \in Tickets : store.status[t] = "NONE"
    BY DEF Init, EmptyDatabase
  <2> QED BY <2>1, JInitially DEF OneClaim, Claiming
<1>2. Inv /\ [Next]_vars => Inv'
  BY JStep, StepClaims
<1>3. Inv => OneClaimPerWorker
  <2> SUFFICES ASSUME Inv, NEW e \in Employees PROVE Cardinality(Claims(e)) <= 1
    BY DEF OneClaimPerWorker
  <2>0. ASSUME NEW t \in Claims(e)
        PROVE  t \in Tickets /\ store.owner[t] = e /\ Claiming(store, t)
    BY DEF Claims, Claiming
  <2>1. ASSUME NEW t \in Claims(e), NEW u \in Claims(e) PROVE t = u
    BY <2>0, <2>1 DEF OneClaim
  <2>2. CASE Claims(e) = {}
    BY <2>2, FS_EmptySet
  <2>3. ASSUME NEW t \in Claims(e) PROVE Cardinality(Claims(e)) <= 1
    <3>1. Claims(e) = {t}
      BY <2>1, <2>3
    <3>2. Cardinality({t}) = 1
      BY FS_Singleton
    <3> QED BY <3>1, <3>2
  <2> QED BY <2>2, <2>3
<1> HIDE DEF Inv
<1> QED BY <1>1, <1>2, <1>3, PTL DEF Spec

(* What is claimed or running after a step was so before it, or was        *)
(* queued and the scheduler saw its gates open and no breaker on its node. *)
LEMMA StepRuns ==
  ASSUME "lease" \notin Commands, JInv, [Next]_vars,
         NEW u \in Tickets, store'.status[u] \in {"LEASED", "EXECUTING"}
  PROVE  /\ Exists(store, u) /\ store'.spec[u] = store.spec[u]
         /\ \/ store.status[u] \in {"LEASED", "EXECUTING"}
            \/ store.status[u] = "PENDING" /\ GatesOpen(u) /\ ~ NodePaused(NodeOf(store, u))
<1> DEFINE Goal == /\ Exists(store, u) /\ store'.spec[u] = store.spec[u]
                   /\ \/ store.status[u] \in {"LEASED", "EXECUTING"}
                      \/ /\ store.status[u] = "PENDING"
                         /\ GatesOpen(u) /\ ~ NodePaused(NodeOf(store, u))
<1>1. ASSUME SameTicket(store, store', u) PROVE Goal
  BY <1>1 DEF SameTicket, Exists
<1>2. CASE Still(store, store')
  BY <1>1, <1>2 DEF Still
<1>3. ASSUME NEW t \in Tickets, Moves(store, store', t) PROVE Goal
  <2>1. CASE u # t
    <3>1. SameTicket(store, store', u)
      BY <1>3, <2>1 DEF Moves, Queued, Requeued, Claimed, Started, AskedToStop, Cancelled, Ended, Turns
    <3> QED BY <1>1, <3>1
  <2>2. CASE u = t
    <3>1. \/ \E e \in Employees : Claimed(store, store', u, e)
          \/ Started(store, store', u)
      BY <1>3, <2>2 DEF Moves, Queued, Requeued, AskedToStop, Cancelled, Ended, Turns, DeadStatus
    <3>2. ASSUME NEW e \in Employees, Claimed(store, store', u, e) PROVE Goal
      BY <3>2 DEF Claimed, Scheduled, Turns, Exists
    <3>3. CASE Started(store, store', u)
      BY <3>3 DEF Started, Turns, Exists
    <3> QED BY <3>1, <3>2, <3>3
  <2> QED BY <2>1, <2>2
<1>4. CASE TwoEvents
  <2>1. PICK t \in Tickets, n \in Tickets, mid \in Databases, sp \in Specs :
          /\ Cancelled(store, mid, t) \/ \E s \in DeadStatus, out \in Outcomes : Ended(store, mid, t, s, out)
          /\ Queued(mid, store', n, sp)
    BY <1>4 DEF TwoEvents
  <2>2. SameTicket(mid, store', u)
    BY <2>1 DEF Queued, Turns
  <2>3. SameTicket(store, mid, u)
    BY <2>1, <2>2 DEF Cancelled, Ended, Turns, SameTicket, DeadStatus
  <2>4. SameTicket(store, store', u)
    BY <2>2, <2>3 DEF SameTicket
  <2> QED BY <1>1, <2>4
<1>5. CASE OneEvent
  BY <1>3, <1>5 DEF OneEvent
<1> QED BY <1>2, <1>4, <1>5, StepKinds DEF StoreStep

(* A ticket's parent is a ticket there is.                                 *)
ParentsExist(db) ==
  \A t \in Tickets :
    Exists(db, t) /\ db.spec[t].parent # NoTicket => Exists(db, db.spec[t].parent)

(* A move names no parent that is not there.                               *)
LEMMA MoveParents ==
  ASSUME ~ MayOperate, NEW db \in Databases, NEW new, NEW t \in Tickets, Moves(db, new, t),
         CompletedStays(db), ParentsExist(db)
  PROVE  ParentsExist(new)
<1>1. Onward(db, new) /\ \A u \in Tickets : u # t => SameTicket(db, new, u)
  BY MovesFine
<1>2. ASSUME NEW u \in Tickets, Exists(new, u)
      PROVE  new.spec[u].parent # NoTicket => Exists(db, new.spec[u].parent)
  <2>1. CASE Exists(db, u)
    BY <1>1, <2>1 DEF Onward, ParentsExist
  <2>2. CASE ~ Exists(db, u)
    <3>1. u = t
      BY <1>1, <1>2, <2>2 DEF SameTicket, Exists
    <3>2. \E sp \in Specs : Queued(db, new, t, sp)
      BY <2>2, <3>1 DEF Moves, Requeued, Claimed, Started, AskedToStop, Cancelled, Ended, Exists
    <3> QED BY <3>1, <3>2 DEF Queued, Turns
  <2> QED BY <2>1, <2>2
<1>3. ASSUME NEW u \in Tickets, Exists(new, u), new.spec[u].parent # NoTicket
      PROVE  new.spec[u].parent \in Tickets
  <2>1. CASE Exists(db, u)
    BY <1>1, <1>3, <2>1, SpecFields DEF Onward
  <2>2. CASE ~ Exists(db, u)
    <3>1. u = t
      BY <1>1, <1>3, <2>2 DEF SameTicket, Exists
    <3>2. PICK sp \in Specs : Queued(db, new, t, sp)
      BY <2>2, <3>1 DEF Moves, Requeued, Claimed, Started, AskedToStop, Cancelled, Ended, Exists
    <3>3. sp.parent \in Tickets \cup {NoTicket} /\ new.spec[t] = sp
      BY <3>2 DEF Queued, Turns, Specs
    <3> QED BY <1>3, <3>1, <3>3
  <2> QED BY <2>1, <2>2
<1> QED BY <1>1, <1>2, <1>3 DEF ParentsExist, Onward

(* Nor does a step.                                                        *)
LEMMA StepParents ==
  ASSUME ~ MayOperate, JInv, ParentsExist(store), [Next]_vars
  PROVE  ParentsExist(store')
<1>1. store \in Databases /\ CompletedStays(store)
  BY DEF JInv, IInv, TypeOK
<1>2. CASE Still(store, store')
  <2>1. \A u \in Tickets : SameTicket(store, store', u) /\ store.spec[u].parent \in Tickets \cup {NoTicket}
    BY <1>1, <1>2, SpecFields DEF Still
  <2> QED BY <2>1 DEF ParentsExist, SameTicket, Exists
<1>3. CASE OneEvent
  BY <1>1, <1>3, MoveParents DEF OneEvent
<1>4. CASE TwoEvents
  <2>1. PICK t \in Tickets, n \in Tickets, mid \in Databases :
          /\ Cancelled(store, mid, t) \/ \E s \in DeadStatus, out \in Outcomes : Ended(store, mid, t, s, out)
          /\ \E sp \in Specs : Queued(mid, store', n, sp)
    BY <1>4 DEF TwoEvents
  <2>2. Moves(store, mid, t) /\ Moves(mid, store', n)
    BY <2>1 DEF Moves
  <2>3. CompletedStays(mid) /\ ParentsExist(mid)
    BY <1>1, <2>2, MovesFine, MoveParents
  <2> QED BY <2>2, <2>3, MoveParents
<1> QED BY <1>2, <1>3, <1>4, StepKinds DEF StoreStep

(* The fourth inductive invariant, without operators, when every lease is  *)
(* the scheduler's.                                                        *)
LInv ==
  /\ KInv /\ ParentsExist(store)
  /\ NeverAheadOfGates /\ TrippedNodeIdle

(* Open gates stay open.                                                   *)
LEMMA StepGates ==
  ASSUME ~ MayOperate, "lease" \notin Commands, LInv, [Next]_vars
  PROVE  NeverAheadOfGates'
<1>1. /\ JInv /\ HeldByNode(store) /\ LateStopping /\ ParentsExist(store) /\ NeverAheadOfGates
      /\ store \in Databases
  BY DEF LInv, KInv, JInv, IInv, TypeOK
<1>2. DoneStays(store, store') /\ Onward(store, store')
  BY <1>1, StepHeld, StepFine
<1> SUFFICES ASSUME NEW u \in Tickets, store'.status[u] \in {"LEASED", "EXECUTING"}
             PROVE  GatesOpen(u)'
  BY DEF NeverAheadOfGates
<1>3. /\ Exists(store, u) /\ store'.spec[u] = store.spec[u] /\ GatesOpen(u)
  BY <1>1, StepRuns DEF NeverAheadOfGates
<1>4. store.spec[u].gates \in SUBSET Tickets /\ store.spec[u].parent \in Tickets \cup {NoTicket}
  BY <1>1 DEF Databases, Specs
<1>5. \A g \in store'.spec[u].gates : store'.status[g] = "COMPLETED"
  BY <1>2, <1>3, <1>4 DEF GatesOpen, DoneStays
<1>6. CASE store.spec[u].parent = NoTicket
  BY <1>3, <1>5, <1>6 DEF GatesOpen, AwaitsParent
<1>7. CASE store.spec[u].parent # NoTicket
  <2> DEFINE p == store.spec[u].parent
  <2>1. p \in Tickets /\ Exists(store, p) /\ NodeOf(store, p) \in Nodes
    BY <1>1, <1>3, <1>4, <1>7, SpecFields DEF ParentsExist
  <2>2. NodeOf(store', p) = NodeOf(store, p) /\ NodeOf(store', u) = NodeOf(store, u)
    BY <1>2, <1>3, <2>1 DEF Onward
  <2>3. store.nodeStatus[NodeOf(store, p)] = "COMPLETED" =>
          store'.nodeStatus[NodeOf(store, p)] = "COMPLETED"
    BY <1>2, <2>1 DEF DoneStays
  <2>4. store'.spec[u] = store.spec[u] /\ store'.spec[u].parent = p
    BY <1>3
  <2>5. ~ AwaitsParent(u)
    BY <1>3 DEF GatesOpen
  <2>6. ~ AwaitsParent(u)'
    BY <2>2, <2>3, <2>4, <2>5 DEF AwaitsParent
  <2> QED BY <1>5, <2>6 DEF GatesOpen
<1> QED BY <1>6, <1>7

(* A breaker opens when nothing runs on its node any more, and then holds. *)
LEMMA StepIdle ==
  ASSUME ~ MayOperate, "lease" \notin Commands, LInv, [Next]_vars
  PROVE  TrippedNodeIdle'
<1>1. /\ JInv /\ Consistent(store) /\ HeldByNode(store) /\ TrippedNodeIdle
  BY DEF LInv, KInv, JInv, IInv
<1>2. Onward(store, store') /\ BreakerFollowsIncident'
  BY <1>1, StepFine, StepBreakers
<1> SUFFICES ASSUME NEW i \in Incidents, NEW u \in Tickets, incident'[i].status = "OPEN",
                    incident'[i].breaker = "OPEN",
                    NodeOf(store', incident'[i].ticket) = NodeOf(store', u),
                    store'.status[u] \in {"LEASED", "EXECUTING"}
             PROVE  FALSE
  BY DEF TrippedNodeIdle, Tripped, OnNode
<1>3. /\ Exists(store, u) /\ NodeOf(store', u) = NodeOf(store, u)
      /\ \/ store.status[u] \in {"LEASED", "EXECUTING"}
         \/ store.status[u] = "PENDING" /\ ~ NodePaused(NodeOf(store, u))
  BY <1>1, <1>2, StepRuns DEF Onward
<1>4. CASE /\ incident'[i] = incident[i]
           /\ NodeOf(store', incident'[i].ticket) = NodeOf(store, incident[i].ticket)
  <2>1. Tripped(i) /\ OnNode(i, NodeOf(store, u))
    BY <1>3, <1>4 DEF Tripped, OnNode
  <2> QED BY <1>1, <1>3, <2>1 DEF NodePaused, TrippedNodeIdle
<1>5. ASSUME NEW type, NEW t \in Tickets, NEW p, Opened(type, t, p), NodeOf(store, t) = NodeOf(store, u)
      PROVE  FALSE
  <2>1. t # u /\ store.status[t] \in Working
    BY <1>5 DEF Opened, Working
  <2>2. store.status[u] \notin Working
    BY <1>5, <2>1, <1>1 DEF HeldByNode
  <2>3. store.status[u] = "PENDING"
    BY <1>3, <2>2 DEF Working
  <2> QED BY <1>1, <1>5, <2>1, <2>3, NodeTells DEF Opened
<1>6. ASSUME NEW type \in IncidentTypes, NEW t \in Tickets, NEW p \in Providers \cup {NoProvider},
             Opened(type, t, p),
             incident'[i] = [status |-> "OPEN", breaker |-> "OPEN", type |-> type,
                             ticket |-> t, provider |-> p, followup |-> NoTicket],
             NodeOf(store', t) = NodeOf(store, t)
      PROVE  FALSE
  <2> DEFINE row == [status |-> "OPEN", breaker |-> "OPEN", type |-> type,
                     ticket |-> t, provider |-> p, followup |-> NoTicket]
  <2>1. row.ticket = t
    OBVIOUS
  <2>2. incident'[i].ticket = t
    BY <1>6, <2>1
  <2> HIDE DEF row
  <2> QED BY <1>3, <1>5, <1>6, <2>2
<1> QED BY <1>1, <1>4, <1>6, NodesOfIncidents

(* It holds to begin with, and every step keeps it.                        *)
LEMMA LInvariance ==
  ASSUME ~ MayOperate, "lease" \notin Commands
  PROVE  Spec => []LInv
<1>1. Init => LInv
  <2> SUFFICES ASSUME Init PROVE LInv
    OBVIOUS
  <2>1. \A t \in Tickets : store.status[t] = "NONE"
    BY DEF Init, EmptyDatabase
  <2> QED BY <2>1, KInitially DEF LInv, ParentsExist, Exists, NeverAheadOfGates, TrippedNodeIdle
<1>2. LInv /\ [Next]_vars => LInv'
  <2> SUFFICES ASSUME LInv, [Next]_vars PROVE LInv'
    OBVIOUS
  <2>1. KInv' /\ ParentsExist(store')
    BY KStep, StepParents DEF LInv, KInv
  <2> QED BY <2>1, StepGates, StepIdle DEF LInv
<1> QED BY <1>1, <1>2, PTL DEF Spec

(* Nothing upstream of a claimed or running ticket is reopened under it,   *)
(* unless operators or the CEO may retry, or tickets are leased by hand.   *)
THEOREM GatesStayOpen ==
  ASSUME ~ MayOperate, "lease" \notin Commands
  PROVE  Spec => []NeverAheadOfGates
<1>1. LInv => NeverAheadOfGates
  BY DEF LInv
<1> QED BY <1>1, LInvariance, PTL

(* There, an open breaker really stops its node: what ran when it opened   *)
(* has ended or been asked to stop, and nothing starts.                    *)
THEOREM BreakerStops ==
  ASSUME ~ MayOperate, "lease" \notin Commands
  PROVE  Spec => []TrippedNodeIdle
<1>1. LInv => TrippedNodeIdle
  BY DEF LInv
<1> QED BY <1>1, LInvariance, PTL
=============================================================================
