----------------------- MODULE TicketProjection_proofs -----------------------
(***************************************************************************)
(* Lemmas about the events of TicketProjection: each one leads from a      *)
(* database to a database, and keeps the node rows in step with the ticket *)
(* rows.                                                                   *)
(***************************************************************************)
EXTENDS TicketProjection, TLAPS

(* A node row that agrees with the ticket row it points at.                *)
Mirrors(db, n) ==
  LET t == db.latest[n]
  IN IF t = NoTicket THEN db.nodeStatus[n] = "NONE"
     ELSE /\ Exists(db, t) /\ NodeOf(db, t) = n
          /\ db.nodeStatus[n] = NodeStatusFor(db.status[t])

Consistent(db) == db \in Databases /\ \A n \in Nodes : Mirrors(db, n)

(* No ticket has the number that stands for "no ticket".                   *)
LEMMA TicketsAreTickets == NoTicket \notin Tickets
BY DEF NoTicket, Tickets

(* A spec is a record of the fields retry and recovery change.             *)
LEMMA SpecFields ==
  ASSUME NEW db \in Databases, NEW t \in Tickets
  PROVE  /\ db.spec[t] \in Specs /\ NodeOf(db, t) \in Nodes
         /\ db.spec[t].parent \in Tickets \cup {NoTicket}
         /\ db.spec[t].retries \in Nat
BY DEF Databases, Specs, NodeOf

(* A blank spec is a spec.                                                 *)
LEMMA BlankType ==
  ASSUME NEW n \in Nodes PROVE Blank(n) \in Specs
BY DEF Blank, Specs

(* The database before the first event is one.                             *)
LEMMA EmptyType == Consistent(EmptyDatabase)
<1>1. (CHOOSE n \in Nodes : TRUE) \in Nodes
  BY ProjectionAssumption
<1>2. Blank(CHOOSE n \in Nodes : TRUE) \in Specs
  BY <1>1, BlankType
<1>3. EmptyDatabase \in Databases
  BY <1>2 DEF EmptyDatabase, Databases, Statuses, Outcomes, NodeStatuses, Deadlines
<1> QED BY <1>3 DEF Consistent, Mirrors, EmptyDatabase

(* The reducers keep the columns' types.                                   *)
LEMMA MovedType ==
  ASSUME NEW db \in Databases, NEW t \in Tickets, NEW s \in Statuses
  PROVE  Moved(db, t, s) \in Databases
<1>1. db.spec[t].node \in Nodes
  BY SpecFields DEF NodeOf
<1>2. NodeStatusFor(s) \in NodeStatuses
  BY DEF NodeStatusFor, NodeStatuses, Statuses, LiveStatus, DeadStatus
<1> QED BY <1>1, <1>2 DEF Moved, Databases

(* A release is a change of two columns.                                   *)
LEMMA ReleasedType ==
  ASSUME NEW db \in Databases, NEW t \in Tickets
  PROVE  Released(db, t) \in Databases
BY DEF Released, Databases

-----------------------------------------------------------------------------
(* The node row follows the ticket that moved; a row that points at        *)
(* another ticket is not touched.                                          *)
LEMMA MovedConsistent ==
  ASSUME NEW db, Consistent(db), NEW t \in Tickets, NEW s \in Statuses \ {"NONE"}
  PROVE  Consistent(Moved(db, t, s))
<1> DEFINE new == Moved(db, t, s)
           m   == NodeOf(db, t)
<1>1. db \in Databases /\ new \in Databases
  BY MovedType DEF Consistent
<1>2. m \in Nodes /\ t # NoTicket
  BY <1>1, SpecFields, TicketsAreTickets
<1>3. /\ new.spec = db.spec
      /\ new.status = [db.status EXCEPT ![t] = s]
      /\ new.latest = [db.latest EXCEPT ![m] = t]
      /\ new.nodeStatus = [db.nodeStatus EXCEPT ![m] = NodeStatusFor(s)]
  BY <1>1 DEF Moved, Databases, NodeOf
<1>4. ASSUME NEW n \in Nodes PROVE Mirrors(new, n)
  <2>1. CASE n = m
    BY <1>1, <1>2, <1>3, <2>1 DEF Mirrors, Databases, Exists, NodeOf
  <2>2. CASE n # m
    <3>1. new.latest[n] = db.latest[n] /\ new.nodeStatus[n] = db.nodeStatus[n]
      BY <1>1, <1>3, <2>2 DEF Databases
    <3>2. Mirrors(db, n) /\ db.latest[n] \in Tickets \cup {NoTicket}
      BY <1>1 DEF Consistent, Databases
    <3>3. CASE db.latest[n] = NoTicket
      BY <3>1, <3>2, <3>3 DEF Mirrors
    <3>4. CASE db.latest[n] # NoTicket
      <4>1. db.latest[n] \in Tickets /\ db.latest[n] # t
        BY <2>2, <3>2, <3>4 DEF Mirrors
      <4>2. new.status[db.latest[n]] = db.status[db.latest[n]]
        BY <1>1, <1>3, <4>1 DEF Databases
      <4> QED BY <1>3, <3>1, <3>2, <3>4, <4>2 DEF Mirrors, Exists, NodeOf
    <3> QED BY <3>3, <3>4
  <2> QED BY <2>1, <2>2
<1> QED BY <1>1, <1>4 DEF Consistent

(* A change of the other columns disturbs no node row.                     *)
LEMMA ColumnsConsistent ==
  ASSUME NEW db, Consistent(db), NEW new \in Databases,
         new.status = db.status, new.spec = db.spec,
         new.latest = db.latest, new.nodeStatus = db.nodeStatus
  PROVE  Consistent(new)
BY DEF Consistent, Mirrors, Exists, NodeOf

(* A release changes no column of a node.                                  *)
LEMMA ReleasedConsistent ==
  ASSUME NEW db, Consistent(db), NEW t \in Tickets
  PROVE  Consistent(Released(db, t))
<1>1. Released(db, t) \in Databases
  BY ReleasedType DEF Consistent
<1>2. /\ Released(db, t).status = db.status /\ Released(db, t).spec = db.spec
      /\ Released(db, t).latest = db.latest
      /\ Released(db, t).nodeStatus = db.nodeStatus
  BY DEF Consistent, Released, Databases
<1> QED BY <1>1, <1>2, ColumnsConsistent

(* A payload for a ticket nobody points at, or for the same node as        *)
(* before.                                                                 *)
LEMMA SpecConsistent ==
  ASSUME NEW db, Consistent(db), NEW t \in Tickets, NEW sp \in Specs,
         ~ Exists(db, t) \/ sp.node = NodeOf(db, t)
  PROVE  Consistent([db EXCEPT !.spec[t] = sp])
<1> DEFINE new == [db EXCEPT !.spec[t] = sp]
<1>1. db \in Databases /\ new \in Databases
  BY DEF Consistent, Databases
<1>2. /\ new.status = db.status /\ new.latest = db.latest
      /\ new.nodeStatus = db.nodeStatus
      /\ new.spec = [db.spec EXCEPT ![t] = sp]
  BY <1>1 DEF Databases
<1>3. ASSUME NEW n \in Nodes PROVE Mirrors(new, n)
  <2>1. Mirrors(db, n) /\ db.latest[n] \in Tickets \cup {NoTicket}
    BY <1>1 DEF Consistent, Databases
  <2>2. ASSUME NEW u \in Tickets, Exists(db, u)
        PROVE  NodeOf(new, u) = NodeOf(db, u)
    BY <1>1, <1>2, <2>2 DEF NodeOf, Databases
  <2> QED BY <1>2, <2>1, <2>2 DEF Mirrors, Exists
<1> QED BY <1>1, <1>3 DEF Consistent

-----------------------------------------------------------------------------
(* The events, one by one.                                                 *)
LEMMA CreatedConsistent ==
  ASSUME NEW db, Consistent(db), NEW t \in Tickets, NEW sp \in Specs,
         ~ Exists(db, t) \/ sp.node = NodeOf(db, t)
  PROVE  Consistent(TicketCreated(db, t, sp))
<1>1. Consistent(Released([db EXCEPT !.spec[t] = sp], t))
  BY SpecConsistent, ReleasedConsistent
<1> QED BY <1>1, MovedConsistent DEF TicketCreated, Statuses, LiveStatus

(* TICKET_LEASED.                                                          *)
LEMMA LeasedConsistent ==
  ASSUME NEW db, Consistent(db), NEW t \in Tickets, NEW e \in Employees
  PROVE  Consistent(TicketLeased(db, t, e))
<1> DEFINE claimed == [db EXCEPT !.owner[t] = e, !.overdue[t] = {}]
<1>1. claimed \in Databases
  BY DEF Consistent, Databases
<1>2. /\ claimed.status = db.status /\ claimed.spec = db.spec
      /\ claimed.latest = db.latest /\ claimed.nodeStatus = db.nodeStatus
  BY DEF Consistent, Databases
<1>3. Consistent(claimed)
  BY <1>1, <1>2, ColumnsConsistent
<1> QED BY <1>3, MovedConsistent DEF TicketLeased, Statuses, LiveStatus

(* TICKET_STARTED.                                                         *)
LEMMA StartedConsistent ==
  ASSUME NEW db, Consistent(db), NEW t \in Tickets
  PROVE  Consistent(TicketStarted(db, t))
<1> DEFINE timed == [db EXCEPT !.overdue[t] = {}]
<1>1. timed \in Databases
  BY DEF Consistent, Databases
<1>2. /\ timed.status = db.status /\ timed.spec = db.spec
      /\ timed.latest = db.latest /\ timed.nodeStatus = db.nodeStatus
  BY DEF Consistent, Databases
<1>3. Consistent(timed)
  BY <1>1, <1>2, ColumnsConsistent
<1> QED BY <1>3, MovedConsistent DEF TicketStarted, Statuses, LiveStatus

(* The timers of a ticket are no column of a node.                         *)
LEMMA TimersConsistent ==
  ASSUME NEW db, Consistent(db), NEW t \in Tickets, NEW d \in SUBSET Deadlines
  PROVE  Consistent([db EXCEPT !.overdue[t] = d])
<1> DEFINE new == [db EXCEPT !.overdue[t] = d]
<1>1. new \in Databases
  BY DEF Consistent, Databases
<1>2. /\ new.status = db.status /\ new.spec = db.spec
      /\ new.latest = db.latest /\ new.nodeStatus = db.nodeStatus
  BY DEF Consistent, Databases
<1> QED BY <1>1, <1>2, ColumnsConsistent

(* TICKET_CANCEL_REQUESTED.                                                *)
LEMMA CancelRequestedConsistent ==
  ASSUME NEW db, Consistent(db), NEW t \in Tickets
  PROVE  Consistent(TicketCancelRequested(db, t))
BY MovedConsistent DEF TicketCancelRequested, Statuses, LiveStatus

(* TICKET_CANCELLED.                                                       *)
LEMMA CancelledConsistent ==
  ASSUME NEW db, Consistent(db), NEW t \in Tickets
  PROVE  Consistent(TicketCancelled(db, t))
BY ReleasedConsistent, MovedConsistent DEF TicketCancelled, Statuses, DeadStatus

(* The terminal events record an outcome and release the ticket.           *)
LEMMA OutcomeConsistent ==
  ASSUME NEW db, Consistent(db), NEW t \in Tickets, NEW o \in Outcomes
  PROVE  Consistent(Released([db EXCEPT !.outcome[t] = o], t))
<1> DEFINE told == [db EXCEPT !.outcome[t] = o]
<1>1. told \in Databases
  BY DEF Consistent, Databases
<1>2. /\ told.status = db.status /\ told.spec = db.spec
      /\ told.latest = db.latest /\ told.nodeStatus = db.nodeStatus
  BY DEF Consistent, Databases
<1> QED BY <1>1, <1>2, ColumnsConsistent, ReleasedConsistent

(* TICKET_COMPLETED, TICKET_FAILED and TICKET_TIMED_OUT.                   *)
LEMMA EndedConsistent ==
  ASSUME NEW db, Consistent(db), NEW t \in Tickets
  PROVE  /\ Consistent(TicketCompleted(db, t))
         /\ Consistent(TicketTimedOut(db, t))
         /\ \A kind \in FailureKinds : Consistent(TicketFailed(db, t, kind))
BY OutcomeConsistent, MovedConsistent
   DEF TicketCompleted, TicketTimedOut, TicketFailed, Outcomes, Statuses, DeadStatus

-----------------------------------------------------------------------------
(* What the two reducers write to the status, owner and spec columns.      *)
LEMMA MovedColumns ==
  ASSUME NEW db \in Databases, NEW t \in Tickets, NEW s \in Statuses
  PROVE  /\ Moved(db, t, s).status = [db.status EXCEPT ![t] = s]
         /\ Moved(db, t, s).owner = db.owner
         /\ Moved(db, t, s).spec = db.spec
BY DEF Moved, Databases

(* A release takes the owner away.                                         *)
LEMMA ReleasedColumns ==
  ASSUME NEW db \in Databases, NEW t \in Tickets
  PROVE  /\ Released(db, t).status = db.status
         /\ Released(db, t).owner = [db.owner EXCEPT ![t] = NoOne]
         /\ Released(db, t).spec = db.spec
BY DEF Released, Databases

(* What each event writes to them.                                         *)
LEMMA CreatedColumns ==
  ASSUME NEW db \in Databases, NEW t \in Tickets, NEW sp \in Specs
  PROVE  /\ TicketCreated(db, t, sp).status = [db.status EXCEPT ![t] = "PENDING"]
         /\ TicketCreated(db, t, sp).owner = [db.owner EXCEPT ![t] = NoOne]
         /\ TicketCreated(db, t, sp).spec = [db.spec EXCEPT ![t] = sp]
<1> DEFINE told == [db EXCEPT !.spec[t] = sp]
<1>1. /\ told \in Databases /\ told.status = db.status /\ told.owner = db.owner
      /\ told.spec = [db.spec EXCEPT ![t] = sp]
  BY DEF Databases
<1> HIDE DEF told
<1>2. Released(told, t) \in Databases
  BY <1>1, ReleasedType
<1>3. "PENDING" \in Statuses
  BY DEF Statuses, LiveStatus
<1>4. TicketCreated(db, t, sp) = Moved(Released(told, t), t, "PENDING")
  BY DEF TicketCreated, told
<1> QED BY <1>1, <1>2, <1>3, <1>4, MovedColumns, ReleasedColumns

(* TICKET_LEASED: a new owner.                                             *)
LEMMA LeasedColumns ==
  ASSUME NEW db \in Databases, NEW t \in Tickets, NEW e \in Employees
  PROVE  /\ TicketLeased(db, t, e).status = [db.status EXCEPT ![t] = "LEASED"]
         /\ TicketLeased(db, t, e).owner = [db.owner EXCEPT ![t] = e]
         /\ TicketLeased(db, t, e).spec = db.spec
<1> DEFINE claimed == [db EXCEPT !.owner[t] = e, !.overdue[t] = {}]
<1>1. /\ claimed \in Databases /\ claimed.status = db.status
      /\ claimed.owner = [db.owner EXCEPT ![t] = e] /\ claimed.spec = db.spec
  BY DEF Databases
<1> HIDE DEF claimed
<1>2. "LEASED" \in Statuses
  BY DEF Statuses, LiveStatus
<1>3. TicketLeased(db, t, e) = Moved(claimed, t, "LEASED")
  BY DEF TicketLeased, claimed
<1> QED BY <1>1, <1>2, <1>3, MovedColumns

(* TICKET_STARTED: the same owner.                                         *)
LEMMA StartedColumns ==
  ASSUME NEW db \in Databases, NEW t \in Tickets
  PROVE  /\ TicketStarted(db, t).status = [db.status EXCEPT ![t] = "EXECUTING"]
         /\ TicketStarted(db, t).owner = db.owner
         /\ TicketStarted(db, t).spec = db.spec
<1> DEFINE timed == [db EXCEPT !.overdue[t] = {}]
<1>1. /\ timed \in Databases /\ timed.status = db.status
      /\ timed.owner = db.owner /\ timed.spec = db.spec
  BY DEF Databases
<1> HIDE DEF timed
<1>2. "EXECUTING" \in Statuses
  BY DEF Statuses, LiveStatus
<1>3. TicketStarted(db, t) = Moved(timed, t, "EXECUTING")
  BY DEF TicketStarted, timed
<1> QED BY <1>1, <1>2, <1>3, MovedColumns

(* TICKET_CANCEL_REQUESTED: the owner is kept until the ticket ends.       *)
LEMMA CancelRequestedColumns ==
  ASSUME NEW db \in Databases, NEW t \in Tickets
  PROVE  /\ TicketCancelRequested(db, t).status
              = [db.status EXCEPT ![t] = "CANCEL_REQUESTED"]
         /\ TicketCancelRequested(db, t).owner = db.owner
         /\ TicketCancelRequested(db, t).spec = db.spec
<1>1. "CANCEL_REQUESTED" \in Statuses
  BY DEF Statuses, LiveStatus
<1> QED BY <1>1, MovedColumns DEF TicketCancelRequested

(* TICKET_CANCELLED: no owner.                                             *)
LEMMA CancelledColumns ==
  ASSUME NEW db \in Databases, NEW t \in Tickets
  PROVE  /\ TicketCancelled(db, t).status = [db.status EXCEPT ![t] = "CANCELLED"]
         /\ TicketCancelled(db, t).owner = [db.owner EXCEPT ![t] = NoOne]
         /\ TicketCancelled(db, t).spec = db.spec
<1>1. "CANCELLED" \in Statuses
  BY DEF Statuses, DeadStatus
<1> QED BY <1>1, ReleasedType, ReleasedColumns, MovedColumns DEF TicketCancelled

(* A terminal event: an outcome, a release and a move to a dead status.    *)
LEMMA EndedColumns ==
  ASSUME NEW db \in Databases, NEW t \in Tickets, NEW o \in Outcomes,
         NEW s \in DeadStatus
  PROVE  LET new == Moved(Released([db EXCEPT !.outcome[t] = o], t), t, s)
         IN /\ new.status = [db.status EXCEPT ![t] = s]
            /\ new.owner = [db.owner EXCEPT ![t] = NoOne]
            /\ new.spec = db.spec
<1> DEFINE told == [db EXCEPT !.outcome[t] = o]
<1>1. /\ told \in Databases /\ told.status = db.status
      /\ told.owner = db.owner /\ told.spec = db.spec
  BY DEF Databases
<1> HIDE DEF told
<1>2. s \in Statuses
  BY DEF Statuses
<1>3. Released(told, t) \in Databases
  BY <1>1, ReleasedType
<1>4. LET new == Moved(Released(told, t), t, s)
      IN /\ new.status = [db.status EXCEPT ![t] = s]
         /\ new.owner = [db.owner EXCEPT ![t] = NoOne]
         /\ new.spec = db.spec
  BY <1>1, <1>2, <1>3, MovedColumns, ReleasedColumns
<1> QED BY <1>4 DEF told

(* TICKET_COMPLETED: no owner.                                             *)
LEMMA CompletedColumns ==
  ASSUME NEW db \in Databases, NEW t \in Tickets
  PROVE  /\ TicketCompleted(db, t).status = [db.status EXCEPT ![t] = "COMPLETED"]
         /\ TicketCompleted(db, t).owner = [db.owner EXCEPT ![t] = NoOne]
         /\ TicketCompleted(db, t).spec = db.spec
<1>1. "COMPLETED" \in Outcomes /\ "COMPLETED" \in DeadStatus
  BY DEF Outcomes, DeadStatus
<1> QED BY <1>1, EndedColumns DEF TicketCompleted

(* TICKET_TIMED_OUT: no owner.                                             *)
LEMMA TimedOutColumns ==
  ASSUME NEW db \in Databases, NEW t \in Tickets
  PROVE  /\ TicketTimedOut(db, t).status = [db.status EXCEPT ![t] = "TIMED_OUT"]
         /\ TicketTimedOut(db, t).owner = [db.owner EXCEPT ![t] = NoOne]
         /\ TicketTimedOut(db, t).spec = db.spec
<1>1. "TIMED_OUT" \in Outcomes /\ "TIMED_OUT" \in DeadStatus
  BY DEF Outcomes, DeadStatus
<1> QED BY <1>1, EndedColumns DEF TicketTimedOut

(* TICKET_FAILED: no owner.                                                *)
LEMMA FailedColumns ==
  ASSUME NEW db \in Databases, NEW t \in Tickets, NEW kind \in FailureKinds
  PROVE  /\ TicketFailed(db, t, kind).status = [db.status EXCEPT ![t] = "FAILED"]
         /\ TicketFailed(db, t, kind).owner = [db.owner EXCEPT ![t] = NoOne]
         /\ TicketFailed(db, t, kind).spec = db.spec
<1>1. kind \in Outcomes /\ "FAILED" \in DeadStatus
  BY DEF Outcomes, DeadStatus
<1> QED BY <1>1, EndedColumns DEF TicketFailed

(* The next attempt of a ticket is a ticket of the same node, one retry    *)
(* further.                                                                *)
LEMMA RetryType ==
  ASSUME NEW db \in Databases, NEW t \in Tickets
  PROVE  /\ RetrySpec(db, t) \in Specs
         /\ RetrySpec(db, t).node = NodeOf(db, t)
         /\ RetrySpec(db, t).retries = db.spec[t].retries + 1
<1> DEFINE sp == db.spec[t]
<1>1. sp \in Specs /\ sp.retries + 1 \in Nat
  BY SpecFields
<1> HIDE DEF sp
<1>2. [sp EXCEPT !.parent = t, !.retries = @ + 1] \in Specs
  BY <1>1 DEF Specs
<1>3. /\ [sp EXCEPT !.parent = t, !.retries = @ + 1].node = sp.node
      /\ [sp EXCEPT !.parent = t, !.retries = @ + 1].retries = sp.retries + 1
  BY <1>1 DEF Specs
<1> QED BY <1>2, <1>3 DEF RetrySpec, NodeOf, sp

(* A fresh id is an id, and no ticket has it.                              *)
LEMMA FreshAreFree ==
  ASSUME NEW db, NEW n \in FreshIds(db)
  PROVE  n \in Tickets /\ ~ Exists(db, n)
BY DEF FreshIds, FreeIds
-----------------------------------------------------------------------------
(* What an event leaves alone of a ticket: all but its timers, and an      *)
(* expired lease does not come back.                                       *)
SameTicket(db, new, u) ==
  /\ new.status[u] = db.status[u] /\ new.owner[u] = db.owner[u]
  /\ new.outcome[u] = db.outcome[u] /\ new.spec[u] = db.spec[u]
  /\ "lease" \in db.overdue[u] => "lease" \in new.overdue[u]

(* What it leaves alone of a node.                                         *)
SameNode(db, new, n) ==
  new.latest[n] = db.latest[n] /\ new.nodeStatus[n] = db.nodeStatus[n]

(* An event about one ticket: its new row, and its node's.                 *)
Turns(db, new, t, s, o, out, sp) ==
  /\ new.status[t] = s /\ new.owner[t] = o /\ new.outcome[t] = out /\ new.spec[t] = sp
  /\ new.latest[sp.node] = t /\ new.nodeStatus[sp.node] = NodeStatusFor(s)
  /\ \A u \in Tickets : u # t => SameTicket(db, new, u)
  /\ \A n \in Nodes : n # sp.node => SameNode(db, new, n)

(* Every event ends in a move, after a change of other columns of its row. *)
LEMMA MovedTurns ==
  ASSUME NEW db \in Databases, NEW told \in Databases, NEW t \in Tickets,
         NEW s \in Statuses, NEW o, NEW out, NEW sp \in Specs, NEW due,
         told.status = db.status,
         told.owner = [db.owner EXCEPT ![t] = o],
         told.overdue = [db.overdue EXCEPT ![t] = due],
         told.outcome = [db.outcome EXCEPT ![t] = out],
         told.spec = [db.spec EXCEPT ![t] = sp],
         told.latest = db.latest, told.nodeStatus = db.nodeStatus
  PROVE  Turns(db, Moved(told, t, s), t, s, o, out, sp)
<1> DEFINE new == Moved(told, t, s)
<1>1. told.spec[t] = sp /\ sp.node \in Nodes
  BY DEF Databases, Specs
<1>2. /\ new.status = [db.status EXCEPT ![t] = s] /\ new.owner = told.owner
      /\ new.overdue = told.overdue /\ new.outcome = told.outcome /\ new.spec = told.spec
      /\ new.latest = [db.latest EXCEPT ![sp.node] = t]
      /\ new.nodeStatus = [db.nodeStatus EXCEPT ![sp.node] = NodeStatusFor(s)]
  BY <1>1 DEF Moved, Databases
<1> HIDE DEF new
<1>3. /\ new.status[t] = s /\ new.owner[t] = o /\ new.outcome[t] = out /\ new.spec[t] = sp
      /\ new.latest[sp.node] = t /\ new.nodeStatus[sp.node] = NodeStatusFor(s)
  BY <1>1, <1>2 DEF Databases
<1>4. ASSUME NEW u \in Tickets, u # t PROVE SameTicket(db, new, u)
  BY <1>2, <1>4 DEF SameTicket, Databases
<1>5. ASSUME NEW n \in Nodes, n # sp.node PROVE SameNode(db, new, n)
  BY <1>2, <1>5 DEF SameNode, Databases
<1> QED BY <1>3, <1>4, <1>5 DEF Turns, new

(* TICKET_CREATED.                                                         *)
LEMMA CreatedTurns ==
  ASSUME NEW db \in Databases, NEW t \in Tickets, NEW sp \in Specs
  PROVE  Turns(db, TicketCreated(db, t, sp), t, "PENDING", NoOne, db.outcome[t], sp)
<1> DEFINE told == Released([db EXCEPT !.spec[t] = sp], t)
<1>1. /\ told \in Databases /\ told.status = db.status
      /\ told.owner = [db.owner EXCEPT ![t] = NoOne]
      /\ told.overdue = [db.overdue EXCEPT ![t] = {}]
      /\ told.outcome = [db.outcome EXCEPT ![t] = db.outcome[t]]
      /\ told.spec = [db.spec EXCEPT ![t] = sp]
      /\ told.latest = db.latest /\ told.nodeStatus = db.nodeStatus
  BY DEF Released, Databases
<1> HIDE DEF told
<1>2. "PENDING" \in Statuses
  BY DEF Statuses, LiveStatus
<1>3. Turns(db, Moved(told, t, "PENDING"), t, "PENDING", NoOne, db.outcome[t], sp)
  BY <1>1, <1>2, MovedTurns
<1> QED BY <1>3 DEF TicketCreated, told

(* TICKET_LEASED.                                                          *)
LEMMA LeasedTurns ==
  ASSUME NEW db \in Databases, NEW t \in Tickets, NEW e \in Employees
  PROVE  Turns(db, TicketLeased(db, t, e), t, "LEASED", e, db.outcome[t], db.spec[t])
<1> DEFINE told == [db EXCEPT !.owner[t] = e, !.overdue[t] = {}]
<1>1. /\ told \in Databases /\ told.status = db.status
      /\ told.owner = [db.owner EXCEPT ![t] = e]
      /\ told.overdue = [db.overdue EXCEPT ![t] = {}]
      /\ told.outcome = [db.outcome EXCEPT ![t] = db.outcome[t]]
      /\ told.spec = [db.spec EXCEPT ![t] = db.spec[t]]
      /\ told.latest = db.latest /\ told.nodeStatus = db.nodeStatus
  BY DEF Databases
<1> HIDE DEF told
<1>2. "LEASED" \in Statuses /\ db.spec[t] \in Specs
  BY SpecFields DEF Statuses, LiveStatus
<1>3. Turns(db, Moved(told, t, "LEASED"), t, "LEASED", e, db.outcome[t], db.spec[t])
  BY <1>1, <1>2, MovedTurns
<1> QED BY <1>3 DEF TicketLeased, told

(* TICKET_STARTED.                                                         *)
LEMMA StartedTurns ==
  ASSUME NEW db \in Databases, NEW t \in Tickets
  PROVE  Turns(db, TicketStarted(db, t), t, "EXECUTING", db.owner[t], db.outcome[t], db.spec[t])
<1> DEFINE told == [db EXCEPT !.overdue[t] = {}]
<1>1. /\ told \in Databases /\ told.status = db.status
      /\ told.owner = [db.owner EXCEPT ![t] = db.owner[t]]
      /\ told.overdue = [db.overdue EXCEPT ![t] = {}]
      /\ told.outcome = [db.outcome EXCEPT ![t] = db.outcome[t]]
      /\ told.spec = [db.spec EXCEPT ![t] = db.spec[t]]
      /\ told.latest = db.latest /\ told.nodeStatus = db.nodeStatus
  BY DEF Databases
<1> HIDE DEF told
<1>2. "EXECUTING" \in Statuses /\ db.spec[t] \in Specs
  BY SpecFields DEF Statuses, LiveStatus
<1>3. Turns(db, Moved(told, t, "EXECUTING"), t, "EXECUTING", db.owner[t], db.outcome[t], db.spec[t])
  BY <1>1, <1>2, MovedTurns
<1> QED BY <1>3 DEF TicketStarted, told

(* TICKET_CANCEL_REQUESTED.                                                *)
LEMMA CancelRequestedTurns ==
  ASSUME NEW db \in Databases, NEW t \in Tickets
  PROVE  Turns(db, TicketCancelRequested(db, t), t, "CANCEL_REQUESTED",
               db.owner[t], db.outcome[t], db.spec[t])
<1>1. /\ db.owner = [db.owner EXCEPT ![t] = db.owner[t]]
      /\ db.overdue = [db.overdue EXCEPT ![t] = db.overdue[t]]
      /\ db.outcome = [db.outcome EXCEPT ![t] = db.outcome[t]]
      /\ db.spec = [db.spec EXCEPT ![t] = db.spec[t]]
  BY DEF Databases
<1>2. "CANCEL_REQUESTED" \in Statuses /\ db.spec[t] \in Specs
  BY SpecFields DEF Statuses, LiveStatus
<1> QED BY <1>1, <1>2, MovedTurns DEF TicketCancelRequested

(* A ticket that ends: with an outcome or, cancelled, with the one it had. *)
LEMMA EndedTurns ==
  ASSUME NEW db \in Databases, NEW t \in Tickets, NEW out \in Outcomes, NEW s \in DeadStatus
  PROVE  Turns(db, Moved(Released([db EXCEPT !.outcome[t] = out], t), t, s),
               t, s, NoOne, out, db.spec[t])
<1> DEFINE told == Released([db EXCEPT !.outcome[t] = out], t)
<1>1. /\ told \in Databases /\ told.status = db.status
      /\ told.owner = [db.owner EXCEPT ![t] = NoOne]
      /\ told.overdue = [db.overdue EXCEPT ![t] = {}]
      /\ told.outcome = [db.outcome EXCEPT ![t] = out]
      /\ told.spec = [db.spec EXCEPT ![t] = db.spec[t]]
      /\ told.latest = db.latest /\ told.nodeStatus = db.nodeStatus
  BY DEF Released, Databases
<1> HIDE DEF told
<1>2. s \in Statuses /\ db.spec[t] \in Specs
  BY SpecFields DEF Statuses
<1>3. Turns(db, Moved(told, t, s), t, s, NoOne, out, db.spec[t])
  BY <1>1, <1>2, MovedTurns
<1> QED BY <1>3 DEF told

(* TICKET_COMPLETED, TICKET_TIMED_OUT, TICKET_FAILED and TICKET_CANCELLED. *)
LEMMA CompletedTurns ==
  ASSUME NEW db \in Databases, NEW t \in Tickets
  PROVE  Turns(db, TicketCompleted(db, t), t, "COMPLETED", NoOne, "COMPLETED", db.spec[t])
<1>1. "COMPLETED" \in Outcomes /\ "COMPLETED" \in DeadStatus
  BY DEF Outcomes, DeadStatus
<1> QED BY <1>1, EndedTurns DEF TicketCompleted

(* Timed out.                                                              *)
LEMMA TimedOutTurns ==
  ASSUME NEW db \in Databases, NEW t \in Tickets
  PROVE  Turns(db, TicketTimedOut(db, t), t, "TIMED_OUT", NoOne, "TIMED_OUT", db.spec[t])
<1>1. "TIMED_OUT" \in Outcomes /\ "TIMED_OUT" \in DeadStatus
  BY DEF Outcomes, DeadStatus
<1> QED BY <1>1, EndedTurns DEF TicketTimedOut

(* Failed.                                                                 *)
LEMMA FailedTurns ==
  ASSUME NEW db \in Databases, NEW t \in Tickets, NEW kind \in FailureKinds
  PROVE  Turns(db, TicketFailed(db, t, kind), t, "FAILED", NoOne, kind, db.spec[t])
<1>1. kind \in Outcomes /\ "FAILED" \in DeadStatus
  BY DEF Outcomes, DeadStatus
<1> QED BY <1>1, EndedTurns DEF TicketFailed

(* Cancelled.                                                              *)
LEMMA CancelledTurns ==
  ASSUME NEW db \in Databases, NEW t \in Tickets
  PROVE  Turns(db, TicketCancelled(db, t), t, "CANCELLED", NoOne, db.outcome[t], db.spec[t])
<1>1. db.outcome[t] \in Outcomes /\ "CANCELLED" \in DeadStatus
      /\ [db EXCEPT !.outcome[t] = db.outcome[t]] = db
  BY DEF Databases, DeadStatus
<1> QED BY <1>1, EndedTurns DEF TicketCancelled
=============================================================================
