-------------------------- MODULE TicketProjection --------------------------
(***************************************************************************)
(* The ticket and node projections and the events that change them.        *)
(*                                                                         *)
(* Every command handler appends events to one log and then rebuilds all   *)
(* the projections from it (core/reducer.py).  A rebuilt projection is the *)
(* fold of the log, so appending one event is one step of that fold: each  *)
(* event is an operator from a `db` to the `db` after it.  A db holds the  *)
(* columns of ticket_projection and node_projection the handlers read, and *)
(* the two facts they read from the log itself: the latest created payload *)
(* of a ticket (`spec`) and its latest terminal event (`outcome`).         *)
(***************************************************************************)
EXTENDS Naturals

CONSTANTS
  Nodes,          \* nodes of the workflow graph
  Employees,      \* registered workers
  NoOne,          \* "no employee": no lease owner, no assignee
  MaxTickets,     \* exploration bound: tickets ever created
  OrdinaryKinds,  \* failure fingerprints that are not provider outages
  ProviderKinds,  \* PROVIDER_PAUSE_FAILURE_KINDS
  DispatchInvalid \* a dependency gate or an assignee no longer usable

ASSUME ProjectionAssumption ==
  /\ Nodes # {}
  /\ NoOne \notin Employees
  /\ MaxTickets \in Nat
  /\ DispatchInvalid \notin OrdinaryKinds \cup ProviderKinds
  /\ OrdinaryKinds \cap ProviderKinds = {}
  /\ (OrdinaryKinds \cup ProviderKinds \cup {DispatchInvalid})
       \cap {"NONE", "COMPLETED", "TIMED_OUT"} = {}

(* Ticket ids are random in the code and nothing orders them; here they    *)
(* are numbered in the order the tickets are created.                      *)
Tickets  == 1 .. MaxTickets
NoTicket == 0

DeadStatus == {"CANCELLED", "COMPLETED", "FAILED", "TIMED_OUT"}
LiveStatus == {"PENDING", "LEASED", "EXECUTING", "CANCEL_REQUESTED"}
Statuses   == {"NONE"} \cup LiveStatus \cup DeadStatus

NodeStatuses == {"NONE", "PENDING", "EXECUTING", "CANCEL_REQUESTED",
                 "CANCELLED", "COMPLETED", "REWORK_REQUIRED"}

FailureKinds == OrdinaryKinds \cup ProviderKinds \cup {DispatchInvalid}
Outcomes     == {"NONE", "COMPLETED", "TIMED_OUT"} \cup FailureKinds

(* Deadlines of a ticket that have passed.  "beat due" is the second half  *)
(* of the heartbeat window: the owner can still report before "heartbeat". *)
Deadlines == {"lease", "beat due", "heartbeat", "sla"}

(* The created payload: what dispatch, retry and recovery read of it.      *)
Specs ==
  [node : Nodes, parent : Tickets \cup {NoTicket}, retries : Nat,
   staged : BOOLEAN, gates : SUBSET Tickets,
   assignee : Employees \cup {NoOne}, excluded : SUBSET Employees,
   frozenFor : Employees \cup {NoOne}]

Databases ==
  [status : [Tickets -> Statuses], owner : [Tickets -> Employees \cup {NoOne}],
   overdue : [Tickets -> SUBSET Deadlines], spec : [Tickets -> Specs],
   outcome : [Tickets -> Outcomes], latest : [Nodes -> Tickets \cup {NoTicket}],
   nodeStatus : [Nodes -> NodeStatuses]]

Blank(n) ==
  [node |-> n, parent |-> NoTicket, retries |-> 0, staged |-> FALSE,
   gates |-> {}, assignee |-> NoOne, excluded |-> {}, frozenFor |-> NoOne]

EmptyDatabase ==
  [status |-> [t \in Tickets |-> "NONE"], owner |-> [t \in Tickets |-> NoOne],
   overdue |-> [t \in Tickets |-> {}],
   spec |-> [t \in Tickets |-> Blank(CHOOSE n \in Nodes : TRUE)],
   outcome |-> [t \in Tickets |-> "NONE"],
   latest |-> [n \in Nodes |-> NoTicket],
   nodeStatus |-> [n \in Nodes |-> "NONE"]]

-----------------------------------------------------------------------------
(* Mutant: a failed attempt is not turned into rework.                   *)
NodeStatusFor_NoRework(s) == IF s \in {"PENDING", "LEASED"} THEN "PENDING" ELSE s

(* What rebuild_node_projections makes of a ticket's new status.           *)
NodeStatusFor(s) ==
  CASE s \in {"PENDING", "LEASED"}   -> "PENDING"
    [] s \in {"FAILED", "TIMED_OUT"} -> "REWORK_REQUIRED"
    [] OTHER                         -> s

(* Mutant: the node row keeps pointing at its first ticket.              *)
Moved_FirstKept(db, t, s) ==
  [db EXCEPT !.status[t] = s, !.nodeStatus[db.spec[t].node] = NodeStatusFor(s)]

(* Both reducers at once: the ticket row takes the status, and the node    *)
(* row, whatever ticket it pointed at, now points at this one.             *)
Moved(db, t, s) ==
  [db EXCEPT !.status[t] = s,
             !.latest[db.spec[t].node] = t,
             !.nodeStatus[db.spec[t].node] = NodeStatusFor(s)]

(* The row loses its owner and its timers.                                 *)
Released(db, t) == [db EXCEPT !.owner[t] = NoOne, !.overdue[t] = {}]

TicketCreated(db, t, sp) ==
  Moved(Released([db EXCEPT !.spec[t] = sp], t), t, "PENDING")

TicketLeased(db, t, e) ==
  Moved([db EXCEPT !.owner[t] = e, !.overdue[t] = {}], t, "LEASED")

TicketStarted(db, t) == Moved([db EXCEPT !.overdue[t] = {}], t, "EXECUTING")

HeartbeatRecorded(db, t) == [db EXCEPT !.overdue[t] = @ \ {"beat due"}]

TicketCancelRequested(db, t) == Moved(db, t, "CANCEL_REQUESTED")

TicketCancelled(db, t) == Moved(Released(db, t), t, "CANCELLED")

(* The three terminal events a later retry looks back at.                  *)
TicketCompleted(db, t) ==
  Moved(Released([db EXCEPT !.outcome[t] = "COMPLETED"], t), t, "COMPLETED")

TicketFailed(db, t, kind) ==
  Moved(Released([db EXCEPT !.outcome[t] = kind], t), t, "FAILED")

TicketTimedOut(db, t) ==
  Moved(Released([db EXCEPT !.outcome[t] = "TIMED_OUT"], t), t, "TIMED_OUT")

-----------------------------------------------------------------------------
Exists(db, t) == db.status[t] # "NONE"

NodeOf(db, t) == db.spec[t].node

(* The two checks almost every handler starts with.                        *)
IsLatest(db, t) == db.latest[NodeOf(db, t)] = t

Executing(db, t) ==
  /\ IsLatest(db, t)
  /\ db.status[t] = "EXECUTING"
  /\ db.nodeStatus[NodeOf(db, t)] = "EXECUTING"

(* new_prefixed_id: an id no ticket has.                                   *)
FreeIds(db)  == {t \in Tickets : ~ Exists(db, t)}
FreshIds(db) == {t \in FreeIds(db) : \A u \in FreeIds(db) : t <= u}

(* The created payload _schedule_retry writes for the next attempt.        *)
RetrySpec(db, t) == [db.spec[t] EXCEPT !.parent = t, !.retries = @ + 1]

(* How many attempts in a row, back along the parents on the same node,    *)
(* ended with an outcome in `same`; the latest one counts whatever it was. *)
Streak(db, t, same) ==
  LET back[u \in Tickets] ==
        LET p == db.spec[u].parent
        IN IF /\ p # NoTicket
              /\ NodeOf(db, p) = NodeOf(db, u)
              /\ db.outcome[p] \in same
           THEN 1 + back[p] ELSE 1
  IN back[t]

(* A ticket and its parents on the same node.                              *)
Lineage(db, t) ==
  LET up[u \in Tickets] ==
        LET p == db.spec[u].parent
        IN IF p # NoTicket /\ NodeOf(db, p) = NodeOf(db, u)
           THEN {u} \cup up[p] ELSE {u}
  IN up[t]
=============================================================================
