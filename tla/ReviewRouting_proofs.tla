----------------------- MODULE ReviewRouting_proofs -----------------------
(***************************************************************************)
(* Proofs about the routing of completed tickets: the rows, the board's    *)
(* queue, the gate on what is upstream, the abstract review, the merge     *)
(* gate, and what the fix loop counts along chains of tickets.             *)
(***************************************************************************)
EXTENDS ReviewRouting, TicketProjection_proofs, FiniteSetTheorems,
        WellFoundedInduction, TLAPS

RoutingStatuses == Statuses \cup {"BLOCKED_FOR_BOARD_REVIEW", "REWORK_REQUIRED"}
Verdicts        == {"NONE", "APPROVED", "CHANGES_REQUIRED", "ESCALATED"}
Workers         == Employees \cup {NoOne}

RoutingDatabases ==
  [status : [Tickets -> RoutingStatuses], spec : [Tickets -> RoutingSpecs],
   worker : [Tickets -> Workers], verdict : [Tickets -> Verdicts],
   latest : [Nodes -> Tickets \cup {NoTicket}],
   nodeStatus : [Nodes -> NodeStatuses \cup {"BLOCKED_FOR_BOARD_REVIEW"}]]

(* Statuses of a ticket that somebody still has to do something with.      *)
OpenStatus == {"PENDING", "EXECUTING", "CANCEL_REQUESTED", "BLOCKED_FOR_BOARD_REVIEW"}

(* A check for the board that is completed without a verdict leaves the    *)
(* row of its node as it was, for good.                                    *)
Sticks(db, t, s, v) ==
  /\ s = "COMPLETED" /\ v = "NONE" /\ db.status[t] = "EXECUTING"
  /\ db.spec[t].kind = "check" /\ ReviewOf[db.spec[t].node] = "BOARD"

RowAfter(db, t, s, v) == IF Sticks(db, t, s, v) THEN "EXECUTING" ELSE NodeStatusFor(s)

(* One ticket moves, with its worker and its verdict.                      *)
Turn(db, new, t, s, w, v) ==
  /\ new \in RoutingDatabases
  /\ new.spec = db.spec
  /\ new.status = [db.status EXCEPT ![t] = s]
  /\ new.worker = [db.worker EXCEPT ![t] = w]
  /\ new.verdict = [db.verdict EXCEPT ![t] = v]
  /\ new.latest = [db.latest EXCEPT ![db.spec[t].node] = t]
  /\ new.nodeStatus = [db.nodeStatus EXCEPT ![db.spec[t].node] = RowAfter(db, t, s, v)]

(* One ticket is created.                                                  *)
Put(db, new, c, sp) ==
  /\ new \in RoutingDatabases
  /\ new.spec = [db.spec EXCEPT ![c] = sp]
  /\ new.status = [db.status EXCEPT ![c] = "PENDING"]
  /\ new.worker = db.worker /\ new.verdict = db.verdict
  /\ new.latest = [db.latest EXCEPT ![sp.node] = c]
  /\ new.nodeStatus = [db.nodeStatus EXCEPT ![sp.node] = "PENDING"]

-----------------------------------------------------------------------------
(* The row of a node shows its latest ticket, a stuck one as it ran.       *)
Stuck(db, t) ==
  /\ db.status[t] = "COMPLETED" /\ db.verdict[t] = "NONE"
  /\ db.spec[t].kind = "check" /\ ReviewOf[db.spec[t].node] = "BOARD"

Shows(db, n) ==
  LET t == db.latest[n]
  IN IF t = NoTicket THEN db.nodeStatus[n] = "NONE"
     ELSE /\ Exists(db, t) /\ NodeOf(db, t) = n
          /\ \/ db.nodeStatus[n] = NodeStatusFor(db.status[t])
             \/ Stuck(db, t) /\ db.nodeStatus[n] = "EXECUTING"

(* A ticket and what its payload refers to.                                *)
RefersFine(db, t) ==
  LET sp == db.spec[t]
  IN /\ sp.parent < t
     /\ sp.parent # NoTicket => Exists(db, sp.parent)
     /\ sp.kind # "make" =>
          /\ sp.parent # NoTicket /\ db.spec[sp.parent].node = sp.node
          /\ sp.maker \in Tickets /\ db.spec[sp.maker].node = sp.node
          /\ db.spec[sp.maker].kind # "check"
          /\ db.status[sp.maker] = "COMPLETED" /\ db.worker[sp.maker] \in Employees
          /\ ReviewOf[sp.node] \in {"INTERNAL", "BOARD"}

TicketFine(db, t) ==
  /\ ~ Exists(db, t) => db.spec[t].kind = "make" /\ db.spec[t].parent = NoTicket
  /\ db.status[t] \in OpenStatus => db.latest[db.spec[t].node] = t
  /\ db.status[t] \in {"EXECUTING", "CANCEL_REQUESTED"} => db.worker[t] \in Employees

(* Tickets are numbered in the order they are created.                     *)
Numbered(db) ==
  \A t, u \in Tickets : Exists(db, t) /\ u < t => Exists(db, u)

StoreFine(db) ==
  /\ db \in RoutingDatabases
  /\ \A n \in Nodes : Shows(db, n)
  /\ \A t \in Tickets : RefersFine(db, t) /\ TicketFine(db, t)
  /\ Numbered(db)

(* No ticket has the number that stands for "no ticket".                   *)
LEMMA TicketNumbers == Tickets \subseteq Nat /\ NoTicket = 0 /\ NoTicket \notin Tickets
BY ProjectionAssumption DEF NoTicket, Tickets

(* The columns of a row.                                                   *)
LEMMA RoutingFields ==
  ASSUME NEW db \in RoutingDatabases, NEW t \in Tickets
  PROVE  /\ db.spec[t] \in RoutingSpecs /\ db.status[t] \in RoutingStatuses
         /\ db.worker[t] \in Workers /\ db.verdict[t] \in Verdicts
         /\ db.spec[t].node \in Nodes
         /\ db.spec[t].parent \in Tickets \cup {NoTicket}
         /\ db.spec[t].maker \in Tickets \cup {NoTicket}
         /\ db.spec[t].retries \in Nat /\ db.spec[t].streak \in Nat
         /\ db.spec[t].excluded \in SUBSET Employees
         /\ db.spec[t].kind \in {"make", "check", "fix"}
         /\ db.spec[t].finding \in Findings \cup {NoFinding}
<1>1. db.spec[t] \in RoutingSpecs
  BY DEF RoutingDatabases
<1> QED BY <1>1 DEF RoutingDatabases, RoutingSpecs

-----------------------------------------------------------------------------
(* The events are turns and creations.                                     *)
LEMMA NodeStatusType ==
  ASSUME NEW s \in RoutingStatuses
  PROVE  NodeStatusFor(s) \in NodeStatuses \cup {"BLOCKED_FOR_BOARD_REVIEW"}
BY DEF RoutingStatuses, Statuses, LiveStatus, DeadStatus, NodeStatuses, NodeStatusFor

(* An event that changes a ticket's worker.                                *)
LEMMA WorkerTurn ==
  ASSUME NEW db \in RoutingDatabases, NEW t \in Tickets, NEW s \in RoutingStatuses,
         NEW w \in Workers, ~ Sticks(db, t, s, db.verdict[t])
  PROVE  Turn(db, Moved([db EXCEPT !.worker[t] = w], t, s), t, s, w, db.verdict[t])
<1>1. db.spec[t].node \in Nodes
  BY RoutingFields
<1>2. NodeStatusFor(s) \in NodeStatuses \cup {"BLOCKED_FOR_BOARD_REVIEW"}
  BY NodeStatusType
<1> QED BY <1>1, <1>2 DEF Moved, Turn, RowAfter, RoutingDatabases

(* An event that brings a verdict.                                         *)
LEMMA VerdictTurn ==
  ASSUME NEW db \in RoutingDatabases, NEW t \in Tickets, NEW s \in RoutingStatuses,
         NEW v \in Verdicts, ~ Sticks(db, t, s, v)
  PROVE  Turn(db, Moved([db EXCEPT !.verdict[t] = v], t, s), t, s, db.worker[t], v)
<1>1. db.spec[t].node \in Nodes
  BY RoutingFields
<1>2. NodeStatusFor(s) \in NodeStatuses \cup {"BLOCKED_FOR_BOARD_REVIEW"}
  BY NodeStatusType
<1> QED BY <1>1, <1>2 DEF Moved, Turn, RowAfter, RoutingDatabases

(* An event that changes the status alone.                                 *)
LEMMA PlainTurn ==
  ASSUME NEW db \in RoutingDatabases, NEW t \in Tickets, NEW s \in RoutingStatuses,
         ~ Sticks(db, t, s, db.verdict[t])
  PROVE  Turn(db, Moved(db, t, s), t, s, db.worker[t], db.verdict[t])
<1>1. db.spec[t].node \in Nodes
  BY RoutingFields
<1>2. NodeStatusFor(s) \in NodeStatuses \cup {"BLOCKED_FOR_BOARD_REVIEW"}
  BY NodeStatusType
<1> QED BY <1>1, <1>2 DEF Moved, Turn, RowAfter, RoutingDatabases

(* TICKET_CREATED.                                                         *)
LEMMA MadePut ==
  ASSUME NEW db \in RoutingDatabases, NEW c \in Tickets, NEW sp \in RoutingSpecs
  PROVE  Put(db, TicketMade(db, c, sp), c, sp)
<1> DEFINE mid == [db EXCEPT !.spec[c] = sp]
<1>1. sp.node \in Nodes
  BY DEF RoutingSpecs
<1>2. /\ mid \in RoutingDatabases
      /\ mid.spec = [db.spec EXCEPT ![c] = sp] /\ mid.spec[c] = sp
      /\ mid.status = db.status /\ mid.worker = db.worker /\ mid.verdict = db.verdict
      /\ mid.latest = db.latest /\ mid.nodeStatus = db.nodeStatus
  BY DEF RoutingDatabases
<1>3. "PENDING" \in RoutingStatuses /\ NodeStatusFor("PENDING") = "PENDING"
  BY DEF RoutingStatuses, Statuses, LiveStatus, NodeStatusFor
<1>4. Turn(mid, Moved(mid, c, "PENDING"), c, "PENDING", mid.worker[c], mid.verdict[c])
  BY <1>2, <1>3, PlainTurn DEF Sticks
<1>5. [mid.worker EXCEPT ![c] = mid.worker[c]] = mid.worker
  BY <1>2 DEF RoutingDatabases
<1>6. [mid.verdict EXCEPT ![c] = mid.verdict[c]] = mid.verdict
  BY <1>2 DEF RoutingDatabases
<1> HIDE DEF mid
<1>7. Put(db, Moved(mid, c, "PENDING"), c, sp)
  BY <1>2, <1>3, <1>4, <1>5, <1>6 DEF Turn, Put, RowAfter, Sticks
<1> QED BY <1>7 DEF TicketMade, mid

(* The payloads that are written.                                          *)
LEMMA NewSpecType ==
  ASSUME NEW n \in Nodes, NEW p \in Tickets \cup {NoTicket}
  PROVE  /\ NewSpec(n, p) \in RoutingSpecs
         /\ NewSpec(n, p).node = n /\ NewSpec(n, p).parent = p
         /\ NewSpec(n, p).kind = "make" /\ NewSpec(n, p).retries = 0
BY DEF NewSpec, RoutingSpecs

(* The payload of a fix, field by field.                                   *)
LEMMA FixSpecIs ==
  ASSUME NEW t, NEW f, NEW sp, sp = FixSpec(t, f)
  PROVE  /\ sp.node = store.spec[t].node /\ sp.parent = t /\ sp.retries = 0
         /\ sp.kind = "fix" /\ sp.maker = store.spec[t].maker /\ sp.finding = f
         /\ sp.streak = ReworkStreak(t, f)
         /\ sp.excluded = store.spec[store.spec[t].maker].excluded
                            \cup {store.worker[store.spec[t].maker]}
<1> DEFINE n == NodeOf(store, t)
           m == store.spec[t].maker
           k == ReworkStreak(t, f)
           x == store.spec[m].excluded \cup {store.worker[m]}
<1>1. sp = [[node |-> n, parent |-> t, retries |-> 0, excluded |-> {},
             kind |-> "make", maker |-> NoTicket, finding |-> NoFinding, streak |-> 0]
            EXCEPT !.kind = "fix", !.maker = m, !.finding = f, !.streak = k, !.excluded = x]
  BY DEF FixSpec, NewSpec
<1>2. n = store.spec[t].node
  BY DEF NodeOf
<1> HIDE DEF n, m, k, x
<1>3. /\ sp.node = n /\ sp.parent = t /\ sp.retries = 0 /\ sp.kind = "fix" /\ sp.maker = m
      /\ sp.finding = f /\ sp.streak = k /\ sp.excluded = x
  BY <1>1
<1> QED BY <1>2, <1>3 DEF m, k, x
-----------------------------------------------------------------------------
(* A turn of the latest ticket of a node keeps the rows in order.          *)
LEMMA TurnFine ==
  ASSUME NEW db, StoreFine(db), NEW t \in Tickets, NEW s \in RoutingStatuses \ {"NONE", "PENDING"},
         NEW w, NEW v, NEW new, Turn(db, new, t, s, w, v),
         db.latest[db.spec[t].node] = t, db.status[t] # "COMPLETED",
         w # db.worker[t] => w \in Employees,
         s \in {"EXECUTING", "CANCEL_REQUESTED"} => w \in Employees
  PROVE  StoreFine(new)
<1> DEFINE m == db.spec[t].node
<1>1. db \in RoutingDatabases /\ new \in RoutingDatabases /\ m \in Nodes
  BY RoutingFields DEF StoreFine, Turn
<1>2. Exists(db, t)
  BY <1>1, TicketNumbers DEF StoreFine, Shows
<1>3. \A u \in Tickets : Exists(new, u) <=> Exists(db, u)
  BY <1>1, <1>2 DEF Turn, Exists, RoutingDatabases
<1>4. ASSUME NEW n \in Nodes PROVE Shows(new, n)
  <2>1. CASE n = m
    <3>1. /\ new.latest[n] = t /\ new.status[t] = s /\ new.verdict[t] = v /\ new.spec = db.spec
          /\ new.nodeStatus[n] = RowAfter(db, t, s, v)
      BY <1>1, <2>1 DEF Turn, RoutingDatabases
    <3>2. Exists(new, t) /\ NodeOf(new, t) = n /\ t # NoTicket
      BY <1>2, <1>3, <2>1, <3>1, TicketNumbers DEF NodeOf
    <3>3. CASE Sticks(db, t, s, v)
      <4>1. Stuck(new, t) /\ new.nodeStatus[n] = "EXECUTING"
        BY <3>1, <3>3 DEF Sticks, Stuck, RowAfter
      <4> QED BY <3>1, <3>2, <4>1 DEF Shows
    <3>4. CASE ~ Sticks(db, t, s, v)
      BY <3>1, <3>2, <3>4 DEF Shows, RowAfter
    <3> QED BY <3>3, <3>4
  <2>2. CASE n # m
    <3>1. Shows(db, n) /\ new.latest[n] = db.latest[n] /\ new.nodeStatus[n] = db.nodeStatus[n]
      BY <1>1, <2>2 DEF StoreFine, Turn, RoutingDatabases
    <3>2. CASE db.latest[n] = NoTicket
      BY <3>1, <3>2 DEF Shows
    <3>3. CASE db.latest[n] # NoTicket
      <4>1. db.latest[n] \in Tickets /\ db.latest[n] # t
        BY <1>1, <2>2, <3>1, <3>3 DEF Shows, NodeOf, RoutingDatabases
      <4>2. /\ new.status[db.latest[n]] = db.status[db.latest[n]] /\ new.spec = db.spec
            /\ new.verdict[db.latest[n]] = db.verdict[db.latest[n]]
        BY <1>1, <4>1 DEF Turn, RoutingDatabases
      <4> QED BY <1>3, <3>1, <3>3, <4>1, <4>2 DEF Shows, Stuck, NodeOf
    <3> QED BY <3>2, <3>3
  <2> QED BY <2>1, <2>2
<1>5. ASSUME NEW u \in Tickets PROVE RefersFine(new, u)
  <2>1. RefersFine(db, u) /\ new.spec = db.spec
    BY DEF StoreFine, Turn
  <2>2. db.spec[u].parent \in Tickets \cup {NoTicket}
    BY <1>1, RoutingFields
  <2>3. ASSUME db.spec[u].kind # "make"
        PROVE  new.status[db.spec[u].maker] = "COMPLETED" /\ new.worker[db.spec[u].maker] \in Employees
    <3>1. db.spec[u].maker # t
      BY <2>1, <2>3 DEF RefersFine
    <3> QED BY <1>1, <2>1, <2>3, <3>1 DEF RefersFine, Turn, RoutingDatabases
  <2> QED BY <1>3, <2>1, <2>2, <2>3 DEF RefersFine
<1>6. ASSUME NEW u \in Tickets PROVE TicketFine(new, u)
  <2>1. TicketFine(db, u) /\ new.spec = db.spec
    BY DEF StoreFine, Turn
  <2>2. CASE u = t
    BY <1>1, <1>2, <1>3, <2>1, <2>2 DEF TicketFine, Turn, RoutingDatabases
  <2>3. CASE u # t
    <3>1. new.status[u] = db.status[u] /\ new.worker[u] = db.worker[u]
      BY <1>1, <2>3 DEF Turn, RoutingDatabases
    <3>2. db.status[u] \in OpenStatus => new.latest[db.spec[u].node] = u
      BY <1>1, <2>1, <2>3, RoutingFields DEF TicketFine, Turn, RoutingDatabases
    <3> QED BY <1>3, <2>1, <3>1, <3>2 DEF TicketFine
  <2> QED BY <2>2, <2>3
<1>7. Numbered(new)
  BY <1>3 DEF StoreFine, Numbered
<1> QED BY <1>1, <1>4, <1>5, <1>6, <1>7 DEF StoreFine

(* What a new ticket may refer to.                                         *)
PayloadFine(db, sp) ==
  /\ sp \in RoutingSpecs
  /\ sp.parent # NoTicket => Exists(db, sp.parent)
  /\ sp.kind # "make" =>
       /\ sp.parent # NoTicket /\ db.spec[sp.parent].node = sp.node
       /\ sp.maker \in Tickets /\ db.spec[sp.maker].node = sp.node
       /\ db.spec[sp.maker].kind # "check"
       /\ db.status[sp.maker] = "COMPLETED" /\ db.worker[sp.maker] \in Employees
       /\ ReviewOf[sp.node] \in {"INTERNAL", "BOARD"}

(* The tickets that exist are those before a fresh one.                    *)
LEMMA FreshIsNext ==
  ASSUME NEW db, StoreFine(db), NEW c \in FreshIds(db)
  PROVE  /\ c \in Tickets /\ ~ Exists(db, c)
         /\ \A u \in Tickets : Exists(db, u) <=> u < c
<1>1. c \in Tickets /\ ~ Exists(db, c) /\ \A u \in Tickets : u < c => Exists(db, u)
  BY TicketNumbers DEF FreshIds, FreeIds
<1>2. ASSUME NEW u \in Tickets, Exists(db, u) PROVE u < c
  BY <1>1, <1>2, TicketNumbers DEF StoreFine, Numbered
<1> QED BY <1>1, <1>2

(* The creation of a ticket on a node with nothing open keeps them too.    *)
LEMMA PutFine ==
  ASSUME NEW db, StoreFine(db), NEW c \in FreshIds(db), NEW sp, PayloadFine(db, sp),
         NEW new, Put(db, new, c, sp),
         \A u \in Tickets : db.spec[u].node = sp.node => db.status[u] \notin OpenStatus
  PROVE  StoreFine(new)
<1>1. db \in RoutingDatabases /\ new \in RoutingDatabases /\ sp \in RoutingSpecs /\ sp.node \in Nodes
  BY DEF StoreFine, Put, PayloadFine, RoutingSpecs
<1>2. c \in Tickets /\ ~ Exists(db, c) /\ (\A u \in Tickets : Exists(db, u) <=> u < c) /\ c # NoTicket
  BY FreshIsNext, TicketNumbers
<1>3. /\ Exists(new, c)
      /\ \A u \in Tickets \ {c} : /\ Exists(new, u) <=> Exists(db, u)
                                  /\ new.status[u] = db.status[u] /\ new.spec[u] = db.spec[u]
      /\ new.status[c] = "PENDING" /\ new.spec[c] = sp /\ new.worker = db.worker
      /\ new.verdict = db.verdict
  BY <1>1, <1>2 DEF Put, Exists, RoutingDatabases
<1>4. ASSUME NEW n \in Nodes PROVE Shows(new, n)
  <2>1. CASE n = sp.node
    BY <1>1, <1>2, <1>3, <2>1 DEF Shows, Put, NodeOf, NodeStatusFor, RoutingDatabases
  <2>2. CASE n # sp.node
    <3>1. Shows(db, n) /\ new.latest[n] = db.latest[n] /\ new.nodeStatus[n] = db.nodeStatus[n]
      BY <1>1, <2>2 DEF StoreFine, Put, RoutingDatabases
    <3>2. CASE db.latest[n] = NoTicket
      BY <3>1, <3>2 DEF Shows
    <3>3. CASE db.latest[n] # NoTicket
      <4>1. db.latest[n] \in Tickets \ {c}
        BY <1>1, <1>2, <3>1, <3>3 DEF Shows, RoutingDatabases
      <4> QED BY <1>3, <3>1, <3>3, <4>1 DEF Shows, Stuck, NodeOf
    <3> QED BY <3>2, <3>3
  <2> QED BY <2>1, <2>2
<1>5. ASSUME NEW u \in Tickets PROVE RefersFine(new, u)
  <2>1. CASE u = c
    <3>1. sp.parent \in Tickets \cup {NoTicket}
      BY <1>1 DEF RoutingSpecs
    <3>2. sp.parent < c /\ (sp.parent # NoTicket => sp.parent \in Tickets \ {c})
      <4>1. CASE sp.parent = NoTicket
        BY <1>2, <4>1, TicketNumbers
      <4>2. CASE sp.parent # NoTicket
        <5>1. sp.parent \in Tickets /\ Exists(db, sp.parent)
          BY <3>1, <4>2 DEF PayloadFine
        <5> QED BY <1>2, <5>1, TicketNumbers
      <4> QED BY <4>1, <4>2
    <3>3. sp.kind # "make" => sp.maker \in Tickets \ {c}
      BY <1>2 DEF PayloadFine, Exists
    <3> QED BY <1>3, <2>1, <3>2, <3>3 DEF RefersFine, PayloadFine
  <2>2. CASE u # c
    <3>1. RefersFine(db, u) /\ new.spec[u] = db.spec[u]
      BY <1>3, <2>2 DEF StoreFine
    <3>2. db.spec[u].parent # NoTicket => db.spec[u].parent \in Tickets \ {c}
      BY <1>1, <1>2, <3>1, RoutingFields DEF RefersFine
    <3>3. db.spec[u].kind # "make" => db.spec[u].maker \in Tickets \ {c}
      BY <1>2, <3>1 DEF RefersFine, Exists
    <3> QED BY <1>3, <3>1, <3>2, <3>3 DEF RefersFine
  <2> QED BY <2>1, <2>2
<1>6. ASSUME NEW u \in Tickets PROVE TicketFine(new, u)
  <2>1. CASE u = c
    BY <1>1, <1>2, <1>3, <2>1 DEF TicketFine, Put, RoutingDatabases
  <2>2. CASE u # c
    <3>1. TicketFine(db, u)
      BY DEF StoreFine
    <3>2. db.status[u] \in OpenStatus => new.latest[db.spec[u].node] = u
      BY <1>1, <3>1, RoutingFields DEF TicketFine, Put, RoutingDatabases
    <3> QED BY <1>3, <2>2, <3>1, <3>2 DEF TicketFine
  <2> QED BY <2>1, <2>2
<1>7. Numbered(new)
  BY <1>2, <1>3, TicketNumbers DEF Numbered
<1> QED BY <1>1, <1>4, <1>5, <1>6, <1>7 DEF StoreFine
-----------------------------------------------------------------------------
(* What one step does to the rows.  A turn of one ticket: `s` is its new   *)
(* status, `w` its worker and `v` its verdict afterwards.                  *)
Starts(t, s, w, v) ==
  /\ store.status[t] = "PENDING" /\ s = "EXECUTING" /\ w \in OpenTo(t)
  /\ v = store.verdict[t] /\ UpstreamDone(t)

Breaks(t, s, w, v) ==
  /\ store.status[t] \in {"PENDING", "EXECUTING"} /\ s \in {"FAILED", "TIMED_OUT"}
  /\ w = store.worker[t] /\ v = store.verdict[t]

IsCancelled(t, s, w, v) ==
  /\ \/ store.status[t] = "EXECUTING" /\ s = "CANCEL_REQUESTED"
     \/ store.status[t] \notin DeadStatus \cup {"EXECUTING"} /\ s = "CANCELLED"
  /\ w = store.worker[t] /\ v = store.verdict[t]

IsMade(t, s, w, v) ==
  /\ store.status[t] = "EXECUTING" /\ s = "COMPLETED" /\ KindOf(t) # "check"
  /\ w = store.worker[t] /\ v = "NONE"

IsAccepted(t, s, w, v) ==
  /\ store.status[t] = "EXECUTING" /\ s = "COMPLETED" /\ KindOf(t) = "check"
  /\ ReviewOn(t) = "INTERNAL" /\ w = store.worker[t] /\ v = "APPROVED"

IsUnjudged(t, s, w, v) ==
  /\ store.status[t] = "EXECUTING" /\ s = "COMPLETED" /\ KindOf(t) = "check"
  /\ w = store.worker[t] /\ v = "NONE"

IsRefused(t, s, w, v) ==
  /\ store.status[t] = "EXECUTING" /\ s = "COMPLETED" /\ KindOf(t) = "check"
  /\ w = store.worker[t] /\ v \in {"CHANGES_REQUIRED", "ESCALATED"}

AsksBoard(t, s, w, v) ==
  /\ store.status[t] = "EXECUTING" /\ s = "BLOCKED_FOR_BOARD_REVIEW" /\ w = store.worker[t]
  /\ \/ KindOf(t) # "check" /\ ReviewOn(t) = "DIRECT" /\ v = "NONE"
     \/ KindOf(t) = "check" /\ ReviewOn(t) = "BOARD" /\ v = "APPROVED"

IsDecided(t, s, w, v) ==
  /\ store.status[t] = "BLOCKED_FOR_BOARD_REVIEW" /\ s \in {"COMPLETED", "REWORK_REQUIRED"}
  /\ w = store.worker[t] /\ v = store.verdict[t]

Happens(t, s, w, v) ==
  /\ t \in Tickets /\ store.latest[store.spec[t].node] = t
  /\ \/ /\ \/ Starts(t, s, w, v) \/ Breaks(t, s, w, v) \/ IsCancelled(t, s, w, v)
           \/ IsMade(t, s, w, v) \/ IsAccepted(t, s, w, v) \/ IsUnjudged(t, s, w, v)
           \/ IsRefused(t, s, w, v)
        /\ approval' = approval
     \/ AsksBoard(t, s, w, v) /\ approval' = [approval EXCEPT ![t] = "OPEN"]
     \/ /\ IsDecided(t, s, w, v)
        /\ \E d \in {"APPROVED", "REJECTED", "MODIFIED_CONSTRAINTS"} :
             approval' = [approval EXCEPT ![t] = d] /\ (d = "APPROVED" <=> s = "COMPLETED")

(* The ticket that follows a turn, if one does.                            *)
FollowedBy(t, s, w, v, sp) ==
  \/ Breaks(t, s, w, v) /\ store.status[t] = "EXECUTING" /\ sp = RetrySpec(store, t)
  \/ IsMade(t, s, w, v) /\ ReviewOn(t) \in {"INTERNAL", "BOARD"} /\ sp = CheckerSpec(t)
  \/ /\ IsRefused(t, s, w, v)
     /\ \E f \in Findings : ~ Converges(t) /\ ~ Escalates(t, f) /\ sp = FixSpec(t, f)
  \/ /\ IsDecided(t, s, w, v) /\ s = "COMPLETED"
     /\ \E n \in Nodes : store.latest[n] = NoTicket /\ sp = NewSpec(n, Subject(t))

Kept == UNCHANGED <<store, approval>>

Created ==
  \E c \in FreshIds(store), n \in Nodes, p \in Tickets \cup {NoTicket} :
    /\ Put(store, store', c, NewSpec(n, p)) /\ approval' = approval
    /\ p # NoTicket => Exists(store, p) /\ store.spec[p].node \in Upstream[n]
    /\ NodeTakesTicket(n)

Turned ==
  \E t \in Tickets, s \in RoutingStatuses, w \in Workers, v \in Verdicts :
    /\ Turn(store, store', t, s, w, v) /\ Happens(t, s, w, v)
    /\ IsMade(t, s, w, v) => ReviewOn(t) = "NONE"

Followed ==
  \E t \in Tickets, s \in RoutingStatuses, w \in Workers, v \in Verdicts,
     mid \in RoutingDatabases : \E c \in FreshIds(mid), sp \in RoutingSpecs :
    /\ Turn(store, mid, t, s, w, v) /\ Happens(t, s, w, v)
    /\ Put(mid, store', c, sp) /\ FollowedBy(t, s, w, v, sp)

StoreStep == Kept \/ Created \/ Turned \/ Followed

-----------------------------------------------------------------------------
(* What the rows, the approvals and the merge under way know of each other. *)
BoardFine(db, app, t) ==
  /\ db.status[t] = "BLOCKED_FOR_BOARD_REVIEW" =>
       /\ app[t] = "OPEN"
       /\ db.verdict[t] = IF db.spec[t].kind = "check" THEN "APPROVED" ELSE "NONE"
       /\ ReviewOf[db.spec[t].node] \in {"DIRECT", "BOARD"}
  /\ app[t] = "OPEN" => db.status[t] \in {"BLOCKED_FOR_BOARD_REVIEW", "CANCELLED"}
  /\ app[t] # "NONE" => Exists(db, t)

(* What is done was let pass by its last reviewer, or refused for good.    *)
PassedIn(db, app, n) ==
  LET t == db.latest[n]
  IN \/ db.verdict[t] \in {"CHANGES_REQUIRED", "ESCALATED"}
     \/ ReviewOf[n] = "NONE"
     \/ /\ ReviewOf[n] = "INTERNAL" /\ db.spec[t].kind = "check"
        /\ db.verdict[t] \in {"APPROVED", "NONE"}
     \/ ReviewOf[n] \in {"DIRECT", "BOARD"} /\ app[t] = "APPROVED"

DoneFine(db, app, n) == db.nodeStatus[n] = "COMPLETED" => PassedIn(db, app, n)

UpstreamFine(db, t) ==
  LET p == db.spec[t].parent
  IN db.status[t] = "EXECUTING" /\ p # NoTicket /\ db.spec[p].node # db.spec[t].node
       => db.nodeStatus[db.spec[p].node] = "COMPLETED"

RowsInv ==
  /\ StoreFine(store)
  /\ \A t \in Tickets : BoardFine(store, approval, t) /\ UpstreamFine(store, t)
  /\ \A n \in Nodes : DoneFine(store, approval, n)
  /\ txn # NoTicket => txn \in Tickets /\ store.status[txn] = "BLOCKED_FOR_BOARD_REVIEW"

RouteInv == TypeOK /\ RowsInv

(* The payloads of what follows are in order once the ticket has turned.   *)
LEMMA PayloadsType ==
  ASSUME RowsInv, NEW t \in Tickets
  PROVE  /\ RetrySpec(store, t) \in RoutingSpecs /\ CheckerSpec(t) \in RoutingSpecs
         /\ \A n \in Nodes : NewSpec(n, Subject(t)) \in RoutingSpecs
         /\ KindOf(t) = "check" => \A f \in Findings : FixSpec(t, f) \in RoutingSpecs
<1>1. store \in RoutingDatabases /\ RefersFine(store, t)
  BY DEF RowsInv, StoreFine
<1>2. store.spec[t] \in RoutingSpecs /\ store.spec[t].node \in Nodes
  BY <1>1, RoutingFields
<1>3. RetrySpec(store, t) \in RoutingSpecs
  <2> DEFINE sp == store.spec[t]
  <2>1. sp \in RoutingSpecs /\ sp.retries + 1 \in Nat
    BY <1>2 DEF RoutingSpecs
  <2> HIDE DEF sp
  <2>2. [sp EXCEPT !.parent = t, !.retries = @ + 1] \in RoutingSpecs
    BY <2>1 DEF RoutingSpecs
  <2> QED BY <2>2 DEF RetrySpec, sp
<1>4. NewSpec(store.spec[t].node, t) \in RoutingSpecs
  BY <1>2, NewSpecType
<1>5. CheckerSpec(t) \in RoutingSpecs
  BY <1>4 DEF CheckerSpec, RoutingSpecs, NodeOf
<1>6. Subject(t) \in Tickets \cup {NoTicket}
  BY <1>1, RoutingFields DEF Subject
<1>7. ASSUME KindOf(t) = "check", NEW f \in Findings PROVE FixSpec(t, f) \in RoutingSpecs
  <2> DEFINE m == store.spec[t].maker
  <2>1. m \in Tickets /\ store.worker[m] \in Employees
    BY <1>1, <1>7 DEF RefersFine, KindOf
  <2>2. store.spec[m].excluded \cup {store.worker[m]} \in SUBSET Employees
    BY <1>1, <2>1, RoutingFields
  <2>3. ReworkStreak(t, f) \in Nat
    <3>1. store.spec[t].parent \in Tickets \cup {NoTicket}
      BY <1>1, RoutingFields
    <3>2. store.spec[t].parent # NoTicket => store.spec[store.spec[t].parent].streak \in Nat
      BY <1>1, <3>1, RoutingFields
    <3> QED BY <3>2 DEF ReworkStreak
  <2> QED BY <1>4, <1>7, <2>1, <2>2, <2>3 DEF FixSpec, RoutingSpecs, NodeOf
<1> QED BY <1>3, <1>5, <1>6, <1>7, NewSpecType

-----------------------------------------------------------------------------
(* Every step of the handlers is one of these.                             *)

(* A ticket that runs is the latest of its node.                           *)
LEMMA ExecutingIs ==
  ASSUME RowsInv, NEW t \in Tickets, Executing(store, t)
  PROVE  store.status[t] = "EXECUTING" /\ store.latest[store.spec[t].node] = t
BY DEF Executing, IsLatest, NodeOf

(* A turn alone.                                                           *)
LEMMA TurnStep ==
  ASSUME RowsInv, NEW t \in Tickets, NEW s \in RoutingStatuses, NEW w \in Workers,
         NEW v \in Verdicts, Turn(store, store', t, s, w, v), Happens(t, s, w, v),
         IsMade(t, s, w, v) => ReviewOn(t) = "NONE"
  PROVE  StoreStep
BY DEF StoreStep, Turned

(* A turn that brings the next ticket with it.                             *)
LEMMA FollowStep ==
  ASSUME RowsInv, NEW t \in Tickets, NEW s \in RoutingStatuses, NEW w \in Workers,
         NEW v \in Verdicts, NEW mid, Turn(store, mid, t, s, w, v), Happens(t, s, w, v),
         NEW c \in FreshIds(mid), NEW sp \in RoutingSpecs,
         store' = TicketMade(mid, c, sp), FollowedBy(t, s, w, v, sp)
  PROVE  StoreStep
<1>1. mid \in RoutingDatabases /\ c \in Tickets
  BY DEF Turn, FreshIds, FreeIds
<1>2. Put(mid, store', c, sp)
  BY <1>1, MadePut
<1> QED BY <1>1, <1>2 DEF StoreStep, Followed

(* handle_ticket_create.                                                   *)
LEMMA CreateSteps ==
  ASSUME RowsInv, NEW n \in Nodes, NEW p \in Tickets \cup {NoTicket}, CreateTicket(n, p)
  PROVE  StoreStep
<1>1. PICK c \in FreshIds(store) : store' = TicketMade(store, c, NewSpec(n, p))
  BY DEF CreateTicket
<1>2. c \in Tickets /\ store \in RoutingDatabases
  BY DEF FreshIds, FreeIds, RowsInv, StoreFine
<1>3. Put(store, store', c, NewSpec(n, p))
  BY <1>1, <1>2, NewSpecType, MadePut
<1>4. /\ p # NoTicket => Exists(store, p) /\ store.spec[p].node \in Upstream[n]
      /\ NodeTakesTicket(n) /\ approval' = approval
  BY DEF CreateTicket, NodeOf
<1> QED BY <1>3, <1>4 DEF StoreStep, Created

(* Whoever may work on a ticket is a worker.                               *)
LEMMA OpenToWorkers ==
  ASSUME NEW t PROVE OpenTo(t) \subseteq Employees
BY RoutingAssumption DEF OpenTo, Free

(* The scheduler's steps.                                                  *)
LEMMA DispatchSteps ==
  ASSUME RowsInv, NEW t \in Tickets,
         DispatchFail(t) \/ \E e \in Employees : Dispatch(t, e)
  PROVE  StoreStep
<1>1. /\ store \in RoutingDatabases /\ store.status[t] = "PENDING"
      /\ store.latest[store.spec[t].node] = t /\ approval' = approval
  BY DEF RowsInv, StoreFine, DispatchFail, Dispatch, Queued, IsLatest, NodeOf
<1>2. store.worker[t] \in Workers /\ store.verdict[t] \in Verdicts
  BY <1>1, RoutingFields
<1>3. "EXECUTING" \in RoutingStatuses /\ "FAILED" \in RoutingStatuses
  BY DEF RoutingStatuses, Statuses, LiveStatus, DeadStatus
<1>4. CASE DispatchFail(t)
  <2>1. Turn(store, store', t, "FAILED", store.worker[t], store.verdict[t])
    BY <1>1, <1>3, <1>4, PlainTurn DEF DispatchFail, Sticks
  <2>2. Happens(t, "FAILED", store.worker[t], store.verdict[t])
    BY <1>1 DEF Happens, Breaks
  <2>3. ~ IsMade(t, "FAILED", store.worker[t], store.verdict[t])
    BY DEF IsMade
  <2> QED BY <1>2, <1>3, <2>1, <2>2, <2>3, TurnStep
<1>5. ASSUME NEW e \in Employees, Dispatch(t, e) PROVE StoreStep
  <2>1. e \in Workers /\ e \in OpenTo(t) /\ UpstreamDone(t)
    BY <1>5 DEF Dispatch, Workers
  <2>2. Turn(store, store', t, "EXECUTING", e, store.verdict[t])
    BY <1>1, <1>3, <1>5, <2>1, WorkerTurn DEF Dispatch, Sticks
  <2>3. Happens(t, "EXECUTING", e, store.verdict[t])
    BY <1>1, <2>1 DEF Happens, Starts
  <2>4. ~ IsMade(t, "EXECUTING", e, store.verdict[t])
    BY DEF IsMade
  <2> QED BY <1>2, <1>3, <2>1, <2>2, <2>3, <2>4, TurnStep
<1> QED BY <1>4, <1>5

(* The ends of an execution without a result.                              *)
LEMMA EndSteps ==
  ASSUME RowsInv, NEW t \in Tickets, NEW s \in {"FAILED", "TIMED_OUT"},
         Executing(store, t), Ends(t, s), approval' = approval
  PROVE  StoreStep
<1> DEFINE mid == Moved(store, t, s)
<1>1. /\ store \in RoutingDatabases /\ store.status[t] = "EXECUTING"
      /\ store.latest[store.spec[t].node] = t
  BY ExecutingIs DEF RowsInv, StoreFine
<1>2. store.worker[t] \in Workers /\ store.verdict[t] \in Verdicts /\ s \in RoutingStatuses
  BY <1>1, RoutingFields DEF RoutingStatuses, Statuses, DeadStatus
<1>3. Turn(store, mid, t, s, store.worker[t], store.verdict[t])
  BY <1>1, <1>2, PlainTurn DEF Sticks
<1>4. /\ Breaks(t, s, store.worker[t], store.verdict[t])
      /\ Happens(t, s, store.worker[t], store.verdict[t])
      /\ ~ IsMade(t, s, store.worker[t], store.verdict[t])
  BY <1>1 DEF Happens, Breaks, IsMade
<1>5. RetrySpec(mid, t) = RetrySpec(store, t)
  BY <1>3 DEF Turn, RetrySpec
<1>6. CASE store' = mid
  BY <1>2, <1>3, <1>4, <1>6, TurnStep
<1>7. CASE \E c \in FreshIds(mid) : store' = TicketMade(mid, c, RetrySpec(mid, t))
  <2> HIDE DEF mid
  <2>1. PICK c \in FreshIds(mid) : store' = TicketMade(mid, c, RetrySpec(store, t))
    BY <1>5, <1>7
  <2>2. FollowedBy(t, s, store.worker[t], store.verdict[t], RetrySpec(store, t))
    BY <1>1, <1>4 DEF FollowedBy
  <2> QED BY <1>2, <1>3, <1>4, <2>1, <2>2, FollowStep, PayloadsType
<1> QED BY <1>6, <1>7 DEF Ends

(* Cancellations.                                                          *)
LEMMA CancelSteps ==
  ASSUME RowsInv, NEW t \in Tickets, Cancel(t) \/ Stop(t)
  PROVE  StoreStep
<1>1. store \in RoutingDatabases /\ approval' = approval
  BY DEF RowsInv, StoreFine, Cancel, Stop
<1>2. /\ store.worker[t] \in Workers /\ store.verdict[t] \in Verdicts
      /\ store.status[t] \in RoutingStatuses
  BY <1>1, RoutingFields
<1>3. "CANCEL_REQUESTED" \in RoutingStatuses /\ "CANCELLED" \in RoutingStatuses
  BY DEF RoutingStatuses, Statuses, LiveStatus, DeadStatus
<1>4. store.latest[store.spec[t].node] = t
  BY DEF RowsInv, StoreFine, TicketFine, OpenStatus, Cancel, Stop, IsLatest, NodeOf
<1>5. \E s \in {"CANCEL_REQUESTED", "CANCELLED"} :
        /\ store' = Moved(store, t, s)
        /\ IsCancelled(t, s, store.worker[t], store.verdict[t])
  <2>1. CASE Stop(t)
    BY <2>1 DEF Stop, IsCancelled, DeadStatus
  <2>2. CASE Cancel(t) /\ store.status[t] = "EXECUTING"
    BY <2>2 DEF Cancel, IsCancelled
  <2>3. CASE Cancel(t) /\ store.status[t] # "EXECUTING"
    BY <2>3 DEF Cancel, IsCancelled
  <2> QED BY <2>1, <2>2, <2>3
<1>6. PICK s \in {"CANCEL_REQUESTED", "CANCELLED"} :
        /\ store' = Moved(store, t, s)
        /\ IsCancelled(t, s, store.worker[t], store.verdict[t])
  BY <1>5
<1>7. Turn(store, store', t, s, store.worker[t], store.verdict[t])
  BY <1>1, <1>3, <1>6, PlainTurn DEF Sticks
<1>8. /\ Happens(t, s, store.worker[t], store.verdict[t])
      /\ ~ IsMade(t, s, store.worker[t], store.verdict[t])
  BY <1>1, <1>4, <1>6 DEF Happens, IsMade
<1> QED BY <1>2, <1>3, <1>6, <1>7, <1>8, TurnStep

(* Results.                                                                *)
LEMMA SubmitSteps ==
  ASSUME RowsInv, NEW t \in Tickets,
         SubmitUnreviewed(t) \/ SubmitToBoard(t) \/ SubmitToChecker(t)
  PROVE  StoreStep
<1>1. /\ store \in RoutingDatabases /\ store.status[t] = "EXECUTING" /\ KindOf(t) # "check"
      /\ store.latest[store.spec[t].node] = t
  BY ExecutingIs DEF RowsInv, StoreFine, SubmitUnreviewed, SubmitToBoard, SubmitToChecker, Finishes
<1>2. store.worker[t] \in Workers
  BY <1>1, RoutingFields
<1>3. /\ "COMPLETED" \in RoutingStatuses /\ "BLOCKED_FOR_BOARD_REVIEW" \in RoutingStatuses
      /\ "NONE" \in Verdicts
  BY DEF RoutingStatuses, Statuses, DeadStatus, Verdicts
<1>4. Turn(store, TicketDone(store, t, "NONE"), t, "COMPLETED", store.worker[t], "NONE")
  BY <1>1, <1>3, VerdictTurn DEF TicketDone, Sticks, KindOf
<1>5. IsMade(t, "COMPLETED", store.worker[t], "NONE")
  BY <1>1 DEF IsMade
<1>6. CASE SubmitUnreviewed(t)
  <2>1. Happens(t, "COMPLETED", store.worker[t], "NONE")
    BY <1>1, <1>5, <1>6 DEF Happens, SubmitUnreviewed
  <2>2. store' = TicketDone(store, t, "NONE") /\ ReviewOn(t) = "NONE"
    BY <1>6 DEF SubmitUnreviewed
  <2> QED BY <1>2, <1>3, <1>4, <2>1, <2>2, TurnStep
<1>7. CASE SubmitToBoard(t)
  <2>1. Turn(store, store', t, "BLOCKED_FOR_BOARD_REVIEW", store.worker[t], "NONE")
    BY <1>1, <1>3, <1>7, VerdictTurn DEF SubmitToBoard, AskBoard, BoardReviewRequired, Sticks
  <2>2. /\ Happens(t, "BLOCKED_FOR_BOARD_REVIEW", store.worker[t], "NONE")
        /\ ~ IsMade(t, "BLOCKED_FOR_BOARD_REVIEW", store.worker[t], "NONE")
    BY <1>1, <1>7 DEF Happens, AsksBoard, IsMade, SubmitToBoard, AskBoard
  <2> QED BY <1>2, <1>3, <2>1, <2>2, TurnStep
<1>8. CASE SubmitToChecker(t)
  <2> DEFINE mid == TicketDone(store, t, "NONE")
  <2>1. PICK c \in FreshIds(mid) : store' = TicketMade(mid, c, CheckerSpec(t))
    BY <1>8 DEF SubmitToChecker
  <2> HIDE DEF mid
  <2>2. Happens(t, "COMPLETED", store.worker[t], "NONE")
    BY <1>1, <1>5, <1>8 DEF Happens, SubmitToChecker
  <2>3. FollowedBy(t, "COMPLETED", store.worker[t], "NONE", CheckerSpec(t))
    BY <1>5, <1>8 DEF FollowedBy, SubmitToChecker
  <2>4. Turn(store, mid, t, "COMPLETED", store.worker[t], "NONE")
    BY <1>4 DEF mid
  <2> QED BY <1>2, <1>3, <2>1, <2>2, <2>3, <2>4, FollowStep, PayloadsType
<1> QED BY <1>6, <1>7, <1>8

(* A checker accepts, or autopilot does in its name.                       *)
LEMMA AcceptSteps ==
  ASSUME RowsInv, NEW t \in Tickets, NEW v, Accept(t, v)
  PROVE  StoreStep
<1>1. /\ store \in RoutingDatabases /\ store.status[t] = "EXECUTING" /\ KindOf(t) = "check"
      /\ store.latest[store.spec[t].node] = t
  BY ExecutingIs DEF RowsInv, StoreFine, Accept, Finishes
<1>2. store.worker[t] \in Workers
  BY <1>1, RoutingFields
<1>3. /\ "COMPLETED" \in RoutingStatuses /\ "BLOCKED_FOR_BOARD_REVIEW" \in RoutingStatuses
      /\ "APPROVED" \in Verdicts
  BY DEF RoutingStatuses, Statuses, DeadStatus, Verdicts
<1>4. CASE /\ ReviewOn(t) = "INTERNAL" /\ store' = TicketDone(store, t, "APPROVED")
           /\ UNCHANGED approval
  <2>1. Turn(store, store', t, "COMPLETED", store.worker[t], "APPROVED")
    BY <1>1, <1>3, <1>4, VerdictTurn DEF TicketDone, Sticks
  <2>2. /\ Happens(t, "COMPLETED", store.worker[t], "APPROVED")
        /\ ~ IsMade(t, "COMPLETED", store.worker[t], "APPROVED")
    BY <1>1, <1>4 DEF Happens, IsAccepted, IsMade
  <2> QED BY <1>2, <1>3, <2>1, <2>2, TurnStep
<1>5. CASE ReviewOn(t) = "BOARD" /\ AskBoard(t, "APPROVED")
  <2>1. Turn(store, store', t, "BLOCKED_FOR_BOARD_REVIEW", store.worker[t], "APPROVED")
    BY <1>1, <1>3, <1>5, VerdictTurn DEF AskBoard, BoardReviewRequired, Sticks
  <2>2. /\ Happens(t, "BLOCKED_FOR_BOARD_REVIEW", store.worker[t], "APPROVED")
        /\ ~ IsMade(t, "BLOCKED_FOR_BOARD_REVIEW", store.worker[t], "APPROVED")
    BY <1>1, <1>5 DEF Happens, AsksBoard, IsMade, AskBoard
  <2> QED BY <1>2, <1>3, <2>1, <2>2, TurnStep
<1> QED BY <1>4, <1>5 DEF Accept

(* A check is completed without a verdict.                                 *)
LEMMA CompleteSteps ==
  ASSUME RowsInv, NEW t \in Tickets, CompleteUnjudged(t)
  PROVE  StoreStep
<1>1. /\ store \in RoutingDatabases /\ store.status[t] = "EXECUTING" /\ KindOf(t) = "check"
      /\ store.latest[store.spec[t].node] = t /\ approval' = approval
  BY ExecutingIs DEF RowsInv, StoreFine, CompleteUnjudged
<1>2. /\ store.worker[t] \in Workers /\ store.spec[t].node \in Nodes
      /\ "COMPLETED" \in RoutingStatuses /\ "NONE" \in Verdicts
  BY <1>1, RoutingFields DEF RoutingStatuses, Statuses, DeadStatus, Verdicts
<1>3. /\ Happens(t, "COMPLETED", store.worker[t], "NONE")
      /\ ~ IsMade(t, "COMPLETED", store.worker[t], "NONE")
  BY <1>1 DEF Happens, IsUnjudged, IsMade
<1>4. CASE ReviewOn(t) = "INTERNAL" /\ store' = TicketDone(store, t, "NONE")
  <2>1. Turn(store, store', t, "COMPLETED", store.worker[t], "NONE")
    BY <1>1, <1>2, <1>4, VerdictTurn DEF TicketDone, Sticks, ReviewOn, NodeOf
  <2> QED BY <1>2, <1>3, <2>1, TurnStep
<1>5. CASE /\ ReviewOn(t) = "BOARD"
           /\ store' = [store EXCEPT !.status[t] = "COMPLETED", !.verdict[t] = "NONE"]
  <2>1. store.nodeStatus[store.spec[t].node] = "EXECUTING"
    BY <1>1, <1>2, TicketNumbers DEF RowsInv, StoreFine, Shows, Stuck, NodeStatusFor
  <2>2. Sticks(store, t, "COMPLETED", "NONE")
    BY <1>1, <1>5 DEF Sticks, ReviewOn, NodeOf, KindOf
  <2>3. Turn(store, store', t, "COMPLETED", store.worker[t], "NONE")
    BY <1>1, <1>2, <1>5, <2>1, <2>2 DEF Turn, RowAfter, RoutingDatabases
  <2> QED BY <1>2, <1>3, <2>3, TurnStep
<1> QED BY <1>4, <1>5 DEF CompleteUnjudged

(* A checker refuses.                                                      *)
LEMMA RefuseSteps ==
  ASSUME RowsInv, NEW t \in Tickets, NEW f \in Findings,
         NEW v \in {"APPROVED", "CHANGES_REQUIRED", "ESCALATED"}, Refuse(t, v, f)
  PROVE  StoreStep
<1> DEFINE mid == TicketDone(store, t, v)
<1>1. /\ store \in RoutingDatabases /\ store.status[t] = "EXECUTING" /\ KindOf(t) = "check"
      /\ store.latest[store.spec[t].node] = t /\ approval' = approval
      /\ v \in {"CHANGES_REQUIRED", "ESCALATED"} /\ ~ Converges(t)
  BY ExecutingIs DEF RowsInv, StoreFine, Refuse, Finishes
<1>2. store.worker[t] \in Workers /\ "COMPLETED" \in RoutingStatuses /\ v \in Verdicts
  BY <1>1, RoutingFields DEF RoutingStatuses, Statuses, DeadStatus, Verdicts
<1>3. Turn(store, mid, t, "COMPLETED", store.worker[t], v)
  BY <1>1, <1>2, VerdictTurn DEF TicketDone, Sticks
<1>4. /\ IsRefused(t, "COMPLETED", store.worker[t], v)
      /\ Happens(t, "COMPLETED", store.worker[t], v)
      /\ ~ IsMade(t, "COMPLETED", store.worker[t], v)
  BY <1>1 DEF IsRefused, Happens, IsMade
<1>5. CASE v = "ESCALATED" \/ Escalates(t, f)
  <2>1. store' = mid
    BY <1>5 DEF Refuse
  <2> QED BY <1>2, <1>3, <1>4, <2>1, TurnStep
<1>6. CASE ~ (v = "ESCALATED" \/ Escalates(t, f))
  <2>1. PICK c \in FreshIds(mid) : store' = TicketMade(mid, c, FixSpec(t, f))
    BY <1>6 DEF Refuse
  <2> HIDE DEF mid
  <2>2. FollowedBy(t, "COMPLETED", store.worker[t], v, FixSpec(t, f))
    BY <1>1, <1>4, <1>6 DEF FollowedBy
  <2>3. FixSpec(t, f) \in RoutingSpecs
    BY <1>1, PayloadsType
  <2> QED BY <1>2, <1>3, <1>4, <2>1, <2>2, <2>3, FollowStep
<1> QED BY <1>5, <1>6

(* The board.                                                              *)
LEMMA DecideSteps ==
  ASSUME RowsInv, NEW t \in Tickets,
         ApproveCommit(t) \/ \E d \in {"REJECTED", "MODIFIED_CONSTRAINTS"} : SendBack(t, d)
  PROVE  StoreStep
<1>1. /\ store \in RoutingDatabases /\ store.status[t] = "BLOCKED_FOR_BOARD_REVIEW"
      /\ TicketFine(store, t)
  BY DEF RowsInv, StoreFine, ApproveCommit, MayRecordApproval, SendBack, Decidable
<1>2. store.latest[store.spec[t].node] = t
  BY <1>1 DEF TicketFine, OpenStatus
<1>3. /\ store.worker[t] \in Workers /\ store.verdict[t] \in Verdicts
      /\ "COMPLETED" \in RoutingStatuses /\ "REWORK_REQUIRED" \in RoutingStatuses
  BY <1>1, RoutingFields DEF RoutingStatuses, Statuses, DeadStatus
<1>4. ASSUME NEW d \in {"REJECTED", "MODIFIED_CONSTRAINTS"}, SendBack(t, d) PROVE StoreStep
  <2>1. Turn(store, store', t, "REWORK_REQUIRED", store.worker[t], store.verdict[t])
    BY <1>1, <1>3, <1>4, PlainTurn DEF SendBack, Sticks
  <2>2. /\ IsDecided(t, "REWORK_REQUIRED", store.worker[t], store.verdict[t])
        /\ ~ IsMade(t, "REWORK_REQUIRED", store.worker[t], store.verdict[t])
    BY <1>1 DEF IsDecided, IsMade
  <2>3. Happens(t, "REWORK_REQUIRED", store.worker[t], store.verdict[t])
    BY <1>2, <1>4, <2>2 DEF Happens, SendBack
  <2> QED BY <1>3, <2>1, <2>2, <2>3, TurnStep
<1>5. CASE ApproveCommit(t)
  <2> DEFINE mid   == Moved(store, t, "COMPLETED")
             opens == {n \in CloseoutOf[NodeOf(store, t)] : store.latest[n] = NoTicket}
  <2>1. Turn(store, mid, t, "COMPLETED", store.worker[t], store.verdict[t])
    BY <1>1, <1>3, PlainTurn DEF Sticks
  <2>2. /\ IsDecided(t, "COMPLETED", store.worker[t], store.verdict[t])
        /\ ~ IsMade(t, "COMPLETED", store.worker[t], store.verdict[t])
    BY <1>1 DEF IsDecided, IsMade
  <2>3. approval' = [approval EXCEPT ![t] = "APPROVED"]
    BY <1>5 DEF ApproveCommit
  <2>4. Happens(t, "COMPLETED", store.worker[t], store.verdict[t])
    BY <1>2, <2>2, <2>3 DEF Happens
  <2>5. CASE opens = {}
    <3>1. store' = mid
      BY <1>5, <2>5 DEF ApproveCommit
    <3> QED BY <1>3, <2>1, <2>2, <2>4, <3>1, TurnStep
  <2>6. CASE opens # {}
    <3>1. PICK n \in opens, c \in FreshIds(mid) :
            store' = TicketMade(mid, c, NewSpec(n, Subject(t)))
      BY <1>5, <2>6 DEF ApproveCommit
    <3>2. n \in Nodes /\ store.latest[n] = NoTicket
      BY <1>1, RoutingAssumption, RoutingFields DEF NodeOf
    <3> HIDE DEF mid, opens
    <3>3. FollowedBy(t, "COMPLETED", store.worker[t], store.verdict[t], NewSpec(n, Subject(t)))
      BY <2>2, <3>2 DEF FollowedBy
    <3>4. NewSpec(n, Subject(t)) \in RoutingSpecs
      BY <3>2, PayloadsType
    <3> QED BY <1>3, <2>1, <2>4, <3>1, <3>3, <3>4, FollowStep
  <2> QED BY <2>5, <2>6
<1> QED BY <1>4, <1>5

(* Every step of the system leaves the rows alone, creates a ticket or     *)
(* turns one, and at most one ticket follows.                              *)
LEMMA StepKinds == RowsInv /\ [Next]_vars => StoreStep
<1> SUFFICES ASSUME RowsInv, [Next]_vars PROVE StoreStep
  OBVIOUS
<1>1. CASE UNCHANGED <<store, approval>>
  BY <1>1 DEF StoreStep, Kept
<1>2. CASE Create
  BY <1>2, CreateSteps DEF Create
<1>3. ASSUME NEW t \in Tickets, Fail(t) \/ TimeOut(t) PROVE StoreStep
  <2>1. CASE Fail(t)
    BY <2>1, EndSteps DEF Fail
  <2>2. CASE TimeOut(t)
    BY <2>2, EndSteps DEF TimeOut
  <2> QED BY <1>3, <2>1, <2>2
<1>4. CASE Work
  <2>1. ASSUME NEW t \in Tickets, CommitDelivery(t) PROVE UNCHANGED <<store, approval>>
    BY <2>1 DEF CommitDelivery
  <2> QED BY <1>1, <1>3, <1>4, <2>1, DispatchSteps, CancelSteps, SubmitSteps DEF Work
<1>5. CASE Check
  <2>1. ASSUME NEW n \in Nodes, RestoreOnly(n) PROVE UNCHANGED <<store, approval>>
    BY <2>1 DEF RestoreOnly
  <2> QED BY <1>1, <1>5, <2>1, AcceptSteps, CompleteSteps, RefuseSteps DEF Check
<1>6. CASE Board
  <2>1. ASSUME NEW t \in Tickets, ApproveMerge(t) \/ MergeConflict(t) \/ Crash
        PROVE  UNCHANGED <<store, approval>>
    BY <2>1 DEF ApproveMerge, MergeConflict, Crash
  <2>2. Crash => UNCHANGED <<store, approval>>
    BY DEF Crash
  <2> QED BY <1>1, <1>6, <2>1, <2>2, DecideSteps DEF Board
<1> QED BY <1>1, <1>2, <1>4, <1>5, <1>6 DEF Next, vars

-----------------------------------------------------------------------------
(* The rows stay in order.                                                 *)

(* What turns was open or sent back, has a worker when it runs, and does   *)
(* not turn into a ticket that waits for its first worker.                 *)
LEMMA HappensSides ==
  ASSUME RowsInv, NEW t, NEW s \in RoutingStatuses, NEW w, NEW v, Happens(t, s, w, v)
  PROVE  /\ t \in Tickets /\ store.latest[store.spec[t].node] = t
         /\ s \in {"EXECUTING", "FAILED", "TIMED_OUT", "CANCEL_REQUESTED", "CANCELLED",
                   "COMPLETED", "BLOCKED_FOR_BOARD_REVIEW", "REWORK_REQUIRED"}
         /\ store.status[t] \notin {"COMPLETED", "FAILED", "TIMED_OUT", "CANCELLED"}
         /\ w # store.worker[t] => w \in Employees /\ store.status[t] = "PENDING"
         /\ s \in {"EXECUTING", "CANCEL_REQUESTED"} => w \in Employees
         /\ store.status[t] = "EXECUTING" => w \in Employees
<1>1. t \in Tickets /\ store.latest[store.spec[t].node] = t /\ TicketFine(store, t)
  BY DEF Happens, RowsInv, StoreFine
<1>2. store.status[t] \in {"EXECUTING", "CANCEL_REQUESTED"} => store.worker[t] \in Employees
  BY <1>1 DEF TicketFine
<1>3. CASE Starts(t, s, w, v)
  BY <1>1, <1>3, OpenToWorkers DEF Starts
<1>4. CASE Breaks(t, s, w, v)
  BY <1>1, <1>2, <1>4 DEF Breaks
<1>5. CASE IsCancelled(t, s, w, v)
  BY <1>1, <1>2, <1>5 DEF IsCancelled, DeadStatus
<1>6. CASE IsMade(t, s, w, v)
  BY <1>1, <1>2, <1>6 DEF IsMade
<1>7. CASE IsAccepted(t, s, w, v) \/ IsUnjudged(t, s, w, v) \/ IsRefused(t, s, w, v)
  BY <1>1, <1>2, <1>7 DEF IsAccepted, IsUnjudged, IsRefused
<1>8. CASE AsksBoard(t, s, w, v) \/ IsDecided(t, s, w, v)
  BY <1>1, <1>2, <1>8 DEF AsksBoard, IsDecided
<1> QED BY <1>3, <1>4, <1>5, <1>6, <1>7, <1>8 DEF Happens

(* So the rows are in order after a turn.                                  *)
LEMMA HappensFine ==
  ASSUME RowsInv, NEW t \in Tickets, NEW s \in RoutingStatuses, NEW w, NEW v, NEW new,
         Turn(store, new, t, s, w, v), Happens(t, s, w, v)
  PROVE  StoreFine(new)
<1>1. /\ StoreFine(store) /\ store.latest[store.spec[t].node] = t
      /\ s \in RoutingStatuses \ {"NONE", "PENDING"} /\ store.status[t] # "COMPLETED"
      /\ w # store.worker[t] => w \in Employees
      /\ s \in {"EXECUTING", "CANCEL_REQUESTED"} => w \in Employees
  BY HappensSides DEF RowsInv
<1> QED BY <1>1, TurnFine

(* A node whose row is not open has no open ticket.                        *)
LEMMA NothingOpen ==
  ASSUME NEW db, StoreFine(db), NEW n \in Nodes,
         db.latest[n] = NoTicket \/ db.status[db.latest[n]] \notin OpenStatus
  PROVE  \A u \in Tickets : db.spec[u].node = n => db.status[u] \notin OpenStatus
BY TicketNumbers DEF StoreFine, TicketFine

(* What follows a turn refers to what is there, and its node is free.      *)
LEMMA FollowedPayload ==
  ASSUME RowsInv, NEW t \in Tickets, NEW s \in RoutingStatuses, NEW w, NEW v, NEW mid,
         Turn(store, mid, t, s, w, v), Happens(t, s, w, v),
         NEW sp \in RoutingSpecs, FollowedBy(t, s, w, v, sp)
  PROVE  /\ StoreFine(mid) /\ PayloadFine(mid, sp)
         /\ mid.latest[sp.node] = NoTicket \/ mid.status[mid.latest[sp.node]] \notin OpenStatus
         /\ \/ sp.node = store.spec[t].node
            \/ store.latest[sp.node] = NoTicket /\ IsDecided(t, s, w, v) /\ s = "COMPLETED"
<1>1. StoreFine(mid) /\ StoreFine(store) /\ RefersFine(store, t)
  BY HappensFine DEF RowsInv, StoreFine
<1>2. /\ store \in RoutingDatabases /\ mid \in RoutingDatabases
      /\ store.spec[t] \in RoutingSpecs /\ store.spec[t].node \in Nodes
  BY <1>1, RoutingFields DEF StoreFine
<1>3. /\ mid.spec = store.spec /\ mid.status[t] = s
      /\ mid.latest[store.spec[t].node] = t /\ mid.worker[t] = w
      /\ \A u \in Tickets \ {t} : mid.status[u] = store.status[u] /\ mid.worker[u] = store.worker[u]
      /\ \A n \in Nodes \ {store.spec[t].node} : mid.latest[n] = store.latest[n]
  BY <1>2 DEF Turn, RoutingDatabases
<1>4. store.status[t] # "NONE" /\ t # NoTicket
  BY <1>1, HappensSides, TicketNumbers, <1>2 DEF StoreFine, Shows, Exists
<1>5. /\ s # "NONE" /\ \A u \in Tickets : Exists(store, u) => Exists(mid, u)
  BY <1>3, HappensSides DEF Exists
<1>6. store.spec[t].kind # "make" =>
        /\ store.spec[t].maker # t
        /\ mid.status[store.spec[t].maker] = "COMPLETED" /\ mid.worker[store.spec[t].maker] \in Employees
  BY <1>1, <1>3, HappensSides DEF RefersFine
<1>7. CASE Breaks(t, s, w, v) /\ store.status[t] = "EXECUTING" /\ sp = RetrySpec(store, t)
  <2>1. /\ sp.node = store.spec[t].node /\ sp.parent = t /\ sp.kind = store.spec[t].kind
        /\ sp.maker = store.spec[t].maker
    BY <1>2, <1>7 DEF RetrySpec, RoutingSpecs
  <2>2. mid.status[mid.latest[sp.node]] \notin OpenStatus
    BY <1>3, <1>7, <2>1 DEF Breaks, OpenStatus
  <2>3. Exists(mid, sp.parent) /\ mid.spec[sp.parent].node = sp.node
    BY <1>3, <1>5, <2>1 DEF Exists
  <2>4. sp.kind # "make" =>
          /\ sp.maker \in Tickets /\ mid.spec[sp.maker].node = sp.node
          /\ mid.spec[sp.maker].kind # "check"
          /\ mid.status[sp.maker] = "COMPLETED" /\ mid.worker[sp.maker] \in Employees
          /\ ReviewOf[sp.node] \in {"INTERNAL", "BOARD"}
    BY <1>1, <1>3, <1>6, <2>1 DEF RefersFine
  <2>5. PayloadFine(mid, sp)
    BY <1>4, <2>1, <2>3, <2>4 DEF PayloadFine
  <2> QED BY <1>1, <2>1, <2>2, <2>5
<1>8. CASE IsMade(t, s, w, v) /\ ReviewOn(t) \in {"INTERNAL", "BOARD"} /\ sp = CheckerSpec(t)
  <2>1. /\ sp.node = store.spec[t].node /\ sp.parent = t /\ sp.kind = "check" /\ sp.maker = t
    BY <1>2, <1>8, NewSpecType DEF CheckerSpec, NodeOf, NewSpec
  <2>2. mid.status[mid.latest[sp.node]] \notin OpenStatus
    BY <1>3, <1>8, <2>1 DEF IsMade, OpenStatus
  <2>3. w \in Employees /\ s = "COMPLETED" /\ store.spec[t].kind # "check"
    BY <1>8, HappensSides DEF IsMade, KindOf
  <2>4. ReviewOf[sp.node] \in {"INTERNAL", "BOARD"}
    BY <1>8, <2>1 DEF ReviewOn, NodeOf
  <2>5. Exists(mid, sp.parent) /\ mid.spec[sp.parent].node = sp.node
    BY <1>3, <1>5, <2>1 DEF Exists
  <2>6. /\ mid.spec[sp.maker].node = sp.node /\ mid.spec[sp.maker].kind # "check"
        /\ mid.status[sp.maker] = "COMPLETED" /\ mid.worker[sp.maker] \in Employees
    BY <1>3, <2>1, <2>3
  <2>7. PayloadFine(mid, sp)
    BY <1>4, <2>1, <2>4, <2>5, <2>6 DEF PayloadFine
  <2> QED BY <1>1, <2>1, <2>2, <2>7
<1>9. CASE IsRefused(t, s, w, v) /\ \E f \in Findings : sp = FixSpec(t, f)
  <2>1. /\ sp.node = store.spec[t].node /\ sp.parent = t /\ sp.kind = "fix"
        /\ sp.maker = store.spec[t].maker
    BY <1>9, FixSpecIs
  <2>2. mid.status[mid.latest[sp.node]] \notin OpenStatus
    BY <1>3, <1>9, <2>1 DEF IsRefused, OpenStatus
  <2>3. store.spec[t].kind = "check"
    BY <1>9 DEF IsRefused, KindOf
  <2>4. Exists(mid, sp.parent) /\ mid.spec[sp.parent].node = sp.node
    BY <1>3, <1>5, <2>1 DEF Exists
  <2>5. /\ sp.maker \in Tickets /\ mid.spec[sp.maker].node = sp.node
        /\ mid.spec[sp.maker].kind # "check"
        /\ mid.status[sp.maker] = "COMPLETED" /\ mid.worker[sp.maker] \in Employees
        /\ ReviewOf[sp.node] \in {"INTERNAL", "BOARD"}
    BY <1>1, <1>3, <1>6, <2>1, <2>3 DEF RefersFine
  <2>6. PayloadFine(mid, sp)
    BY <1>4, <2>1, <2>4, <2>5 DEF PayloadFine
  <2> QED BY <1>1, <2>1, <2>2, <2>6
<1>10. CASE /\ IsDecided(t, s, w, v) /\ s = "COMPLETED"
            /\ \E n \in Nodes : store.latest[n] = NoTicket /\ sp = NewSpec(n, Subject(t))
  <2>1. PICK n \in Nodes : store.latest[n] = NoTicket /\ sp = NewSpec(n, Subject(t))
    BY <1>10
  <2>2. n # store.spec[t].node
    BY <1>4, <2>1, HappensSides
  <2>3. mid.latest[n] = NoTicket
    BY <1>3, <2>1, <2>2
  <2>4. Subject(t) \in Tickets /\ Exists(mid, Subject(t))
    <3>1. CASE KindOf(t) = "check"
      BY <1>1, <1>6, <3>1 DEF Subject, RefersFine, KindOf, Exists
    <3>2. CASE KindOf(t) # "check"
      BY <1>3, <1>5, <3>2 DEF Subject, Exists
    <3> QED BY <3>1, <3>2
  <2>5. sp.node = n /\ sp.parent = Subject(t) /\ sp.kind = "make"
    BY <2>1, <2>4, NewSpecType
  <2> QED BY <1>1, <1>10, <2>1, <2>3, <2>4, <2>5 DEF PayloadFine
<1> QED BY <1>7, <1>8, <1>9, <1>10 DEF FollowedBy

(* The rows are in order after every step.                                 *)
LEMMA StepFine == RowsInv /\ StoreStep => StoreFine(store')
<1> SUFFICES ASSUME RowsInv, StoreStep PROVE StoreFine(store')
  OBVIOUS
<1>1. StoreFine(store)
  BY DEF RowsInv
<1>2. CASE Kept
  BY <1>1, <1>2 DEF Kept
<1>3. CASE Created
  <2>1. PICK c \in FreshIds(store), n \in Nodes, p \in Tickets \cup {NoTicket} :
          /\ Put(store, store', c, NewSpec(n, p))
          /\ p # NoTicket => Exists(store, p) /\ store.spec[p].node \in Upstream[n]
          /\ NodeTakesTicket(n)
    BY <1>3 DEF Created
  <2>2. PayloadFine(store, NewSpec(n, p))
    BY <2>1, NewSpecType DEF PayloadFine
  <2>3. store.latest[n] = NoTicket \/ store.status[store.latest[n]] \notin OpenStatus
    <3>1. Shows(store, n) /\ store.nodeStatus[n] \in {"NONE", "REWORK_REQUIRED"}
      BY <1>1, <2>1 DEF StoreFine, NodeTakesTicket
    <3> QED BY <3>1 DEF Shows, NodeStatusFor, OpenStatus
  <2> QED BY <1>1, <2>1, <2>2, <2>3, NewSpecType, NothingOpen, PutFine
<1>4. CASE Turned
  BY <1>4, HappensFine DEF Turned
<1>5. CASE Followed
  <2>1. PICK t \in Tickets, s \in RoutingStatuses, w \in Workers, v \in Verdicts,
             mid \in RoutingDatabases : \E c \in FreshIds(mid), sp \in RoutingSpecs :
          /\ Turn(store, mid, t, s, w, v) /\ Happens(t, s, w, v)
          /\ Put(mid, store', c, sp) /\ FollowedBy(t, s, w, v, sp)
    BY <1>5 DEF Followed
  <2>2. PICK c \in FreshIds(mid), sp \in RoutingSpecs :
          /\ Turn(store, mid, t, s, w, v) /\ Happens(t, s, w, v)
          /\ Put(mid, store', c, sp) /\ FollowedBy(t, s, w, v, sp)
    BY <2>1
  <2>3. /\ StoreFine(mid) /\ PayloadFine(mid, sp) /\ sp.node \in Nodes
        /\ mid.latest[sp.node] = NoTicket \/ mid.status[mid.latest[sp.node]] \notin OpenStatus
    BY <2>2, FollowedPayload DEF RoutingSpecs
  <2> QED BY <2>2, <2>3, NothingOpen, PutFine
<1> QED BY <1>2, <1>3, <1>4, <1>5 DEF StoreStep

-----------------------------------------------------------------------------
(* What a step does to one ticket: nothing, a turn, or its creation.       *)
SameTicketAs(u) ==
  /\ store'.status[u] = store.status[u] /\ store'.spec[u] = store.spec[u]
  /\ store'.worker[u] = store.worker[u] /\ store'.verdict[u] = store.verdict[u]
  /\ approval'[u] = approval[u]

TurnedTo(u) ==
  \E s \in RoutingStatuses, w \in Workers, v \in Verdicts :
    /\ Happens(u, s, w, v)
    /\ store'.status[u] = s /\ store'.worker[u] = w /\ store'.verdict[u] = v
    /\ store'.spec[u] = store.spec[u]

NewTicket(u) ==
  /\ ~ Exists(store, u) /\ store'.status[u] = "PENDING"
  /\ store'.worker[u] = store.worker[u] /\ store'.verdict[u] = store.verdict[u]
  /\ approval'[u] = approval[u]

(* What a turn writes, and what it leaves alone.                           *)
LEMMA TurnIs ==
  ASSUME NEW db \in RoutingDatabases, NEW new, NEW t \in Tickets, NEW s, NEW w, NEW v,
         Turn(db, new, t, s, w, v)
  PROVE  /\ new \in RoutingDatabases /\ new.spec = db.spec
         /\ new.status[t] = s /\ new.worker[t] = w /\ new.verdict[t] = v
         /\ \A u \in Tickets \ {t} : /\ new.status[u] = db.status[u]
                                    /\ new.worker[u] = db.worker[u]
                                    /\ new.verdict[u] = db.verdict[u]
         /\ \A k \in Nodes \ {db.spec[t].node} : /\ new.nodeStatus[k] = db.nodeStatus[k]
                                               /\ new.latest[k] = db.latest[k]
BY DEF Turn, RoutingDatabases

(* What a creation writes, and what it leaves alone.                       *)
LEMMA PutIs ==
  ASSUME NEW db \in RoutingDatabases, NEW new, NEW c \in Tickets, NEW sp, Put(db, new, c, sp)
  PROVE  /\ new \in RoutingDatabases /\ new.worker = db.worker /\ new.verdict = db.verdict
         /\ new.status[c] = "PENDING" /\ new.spec[c] = sp
         /\ \A u \in Tickets \ {c} : /\ new.status[u] = db.status[u]
                                    /\ new.spec[u] = db.spec[u]
         /\ \A k \in Nodes \ {sp.node} : /\ new.nodeStatus[k] = db.nodeStatus[k]
                                       /\ new.latest[k] = db.latest[k]
BY DEF Put, RoutingDatabases

(* The approvals only change for the ticket that turns.                    *)
LEMMA HappensApproval ==
  ASSUME NEW t, NEW s, NEW w, NEW v, Happens(t, s, w, v), RouteInv
  PROVE  \A u \in Tickets \ {t} : approval'[u] = approval[u]
<1>1. approval \in [Tickets -> {"NONE", "OPEN", "APPROVED", "REJECTED", "MODIFIED_CONSTRAINTS"}]
  BY DEF RouteInv, TypeOK
<1> QED BY <1>1 DEF Happens

(* Each ticket sees one of the three.                                      *)
LEMMA TicketSees ==
  ASSUME RouteInv, StoreStep, NEW u \in Tickets
  PROVE  SameTicketAs(u) \/ TurnedTo(u) \/ NewTicket(u)
<1>1. StoreFine(store) /\ store \in RoutingDatabases /\ RowsInv
  BY DEF RouteInv, RowsInv, StoreFine
<1>2. CASE Kept
  BY <1>2 DEF Kept, SameTicketAs
<1>3. CASE Created
  <2>1. PICK c \in FreshIds(store), n \in Nodes, p \in Tickets \cup {NoTicket} :
          Put(store, store', c, NewSpec(n, p)) /\ approval' = approval
    BY <1>3 DEF Created
  <2>2. c \in Tickets /\ ~ Exists(store, c)
    BY <1>1, FreshIsNext
  <2>3. CASE u = c
    BY <1>1, <2>1, <2>2, <2>3 DEF Put, NewTicket, RoutingDatabases
  <2>4. CASE u # c
    BY <1>1, <2>1, <2>2, <2>4 DEF Put, SameTicketAs, RoutingDatabases
  <2> QED BY <2>3, <2>4
<1>4. CASE Turned
  <2>1. PICK t \in Tickets, s \in RoutingStatuses, w \in Workers, v \in Verdicts :
          Turn(store, store', t, s, w, v) /\ Happens(t, s, w, v)
    BY <1>4 DEF Turned
  <2>2. CASE u = t
    BY <1>1, <2>1, <2>2 DEF Turn, TurnedTo, RoutingDatabases
  <2>3. CASE u # t
    BY <1>1, <2>1, <2>3, HappensApproval DEF Turn, SameTicketAs, RoutingDatabases
  <2> QED BY <2>2, <2>3
<1>5. CASE Followed
  <2>1. PICK t \in Tickets, s \in RoutingStatuses, w \in Workers, v \in Verdicts,
             mid \in RoutingDatabases : \E c \in FreshIds(mid), sp \in RoutingSpecs :
          /\ Turn(store, mid, t, s, w, v) /\ Happens(t, s, w, v)
          /\ Put(mid, store', c, sp) /\ FollowedBy(t, s, w, v, sp)
    BY <1>5 DEF Followed
  <2>2. PICK c \in FreshIds(mid), sp \in RoutingSpecs :
          /\ Turn(store, mid, t, s, w, v) /\ Happens(t, s, w, v)
          /\ Put(mid, store', c, sp) /\ FollowedBy(t, s, w, v, sp)
    BY <2>1
  <2>3. StoreFine(mid)
    BY <1>1, <2>2, HappensFine
  <2>4. c \in Tickets /\ ~ Exists(mid, c)
    BY <2>3, FreshIsNext
  <2>5. c # t /\ ~ Exists(store, c)
    <3>1. s # "NONE" /\ mid.status[t] = s
      <4>1. s # "NONE"
        BY <1>1, <2>2, HappensSides
      <4> QED BY <1>1, <2>2, <4>1 DEF Turn, RoutingDatabases
    <3>2. c # t
      BY <2>4, <3>1 DEF Exists
    <3> QED BY <1>1, <2>2, <2>4, <3>2 DEF Exists, Turn, RoutingDatabases
  <2>6. /\ mid.spec = store.spec /\ mid.status[t] = s /\ mid.worker[t] = w /\ mid.verdict[t] = v
        /\ \A k \in Tickets \ {t} : /\ mid.status[k] = store.status[k]
                                   /\ mid.worker[k] = store.worker[k]
                                   /\ mid.verdict[k] = store.verdict[k]
    BY <1>1, <2>2, TurnIs
  <2>7. /\ store'.worker = mid.worker /\ store'.verdict = mid.verdict
        /\ store'.status[c] = "PENDING"
        /\ \A k \in Tickets \ {c} : store'.status[k] = mid.status[k] /\ store'.spec[k] = mid.spec[k]
    BY <2>2, <2>4, PutIs
  <2>8. CASE u = t
    BY <2>2, <2>5, <2>6, <2>7, <2>8 DEF TurnedTo
  <2>9. CASE u = c
    BY <2>2, <2>4, <2>5, <2>6, <2>7, <2>9, HappensApproval DEF NewTicket
  <2>10. CASE u # t /\ u # c
    BY <2>2, <2>6, <2>7, <2>10, HappensApproval DEF SameTicketAs
  <2> QED BY <2>8, <2>9, <2>10
<1> QED BY <1>2, <1>3, <1>4, <1>5 DEF StoreStep

(* The payload of a ticket that exists is never changed, and what exists   *)
(* goes on to.                                                             *)
LEMMA PayloadKept ==
  ASSUME RouteInv, StoreStep, NEW u \in Tickets, Exists(store, u)
  PROVE  Exists(store', u) /\ store'.spec[u] = store.spec[u]
<1>1. RowsInv
  BY DEF RouteInv
<1>2. CASE TurnedTo(u)
  BY <1>1, <1>2, HappensSides DEF TurnedTo, Exists
<1>3. CASE SameTicketAs(u)
  BY <1>3 DEF SameTicketAs, Exists
<1> QED BY <1>2, <1>3, TicketSees DEF NewTicket

(* The board's queue and the blocked rows.                                 *)
LEMMA StepBoard ==
  ASSUME RouteInv, StoreStep, NEW u \in Tickets
  PROVE  BoardFine(store', approval', u)
<1>1. BoardFine(store, approval, u) /\ RowsInv
  BY DEF RouteInv, RowsInv
<1>2. CASE SameTicketAs(u)
  BY <1>1, <1>2 DEF BoardFine, SameTicketAs, Exists
<1>3. CASE NewTicket(u)
  BY <1>1, <1>3 DEF BoardFine, NewTicket, Exists
<1>4. ASSUME NEW s \in RoutingStatuses, NEW w \in Workers, NEW v \in Verdicts,
             Happens(u, s, w, v), store'.status[u] = s, store'.verdict[u] = v,
             store'.spec[u] = store.spec[u]
      PROVE  BoardFine(store', approval', u)
  <2>1. /\ approval \in [Tickets -> {"NONE", "OPEN", "APPROVED", "REJECTED", "MODIFIED_CONSTRAINTS"}]
        /\ s # "NONE"
    BY <1>1, <1>4, HappensSides DEF RouteInv, TypeOK
  <2>2. CASE /\ approval' = approval
             /\ \/ Starts(u, s, w, v) \/ Breaks(u, s, w, v) \/ IsMade(u, s, w, v)
                \/ IsAccepted(u, s, w, v) \/ IsUnjudged(u, s, w, v) \/ IsRefused(u, s, w, v)
    <3>1. store.status[u] \in {"PENDING", "EXECUTING"} /\ s # "BLOCKED_FOR_BOARD_REVIEW"
      BY <2>2 DEF Starts, Breaks, IsMade, IsAccepted, IsUnjudged, IsRefused
    <3> QED BY <1>1, <1>4, <2>1, <2>2, <3>1 DEF BoardFine, Exists
  <2>3. CASE approval' = approval /\ IsCancelled(u, s, w, v)
    BY <1>1, <1>4, <2>1, <2>3 DEF BoardFine, Exists, IsCancelled, DeadStatus
  <2>4. CASE AsksBoard(u, s, w, v) /\ approval' = [approval EXCEPT ![u] = "OPEN"]
    BY <1>1, <1>4, <2>1, <2>4 DEF BoardFine, Exists, AsksBoard, ReviewOn, NodeOf, KindOf
  <2>5. CASE /\ IsDecided(u, s, w, v)
             /\ \E d \in {"APPROVED", "REJECTED", "MODIFIED_CONSTRAINTS"} :
                  approval' = [approval EXCEPT ![u] = d] /\ (d = "APPROVED" <=> s = "COMPLETED")
    BY <1>1, <1>4, <2>1, <2>5 DEF BoardFine, Exists, IsDecided
  <2> QED BY <1>4, <2>2, <2>3, <2>4, <2>5 DEF Happens
<1> QED BY <1>2, <1>3, <1>4, TicketSees DEF TurnedTo

(* What is done stays done, with the same ticket and the same verdict.     *)
LEMMA DoneStays ==
  ASSUME RouteInv, StoreStep, NEW n \in Nodes, store.nodeStatus[n] = "COMPLETED"
  PROVE  /\ store'.nodeStatus[n] = "COMPLETED" /\ store'.latest[n] = store.latest[n]
         /\ store.latest[n] \in Tickets /\ store.status[store.latest[n]] = "COMPLETED"
         /\ SameTicketAs(store.latest[n])
<1> DEFINE t == store.latest[n]
<1>1. StoreFine(store) /\ store \in RoutingDatabases /\ Shows(store, n) /\ RowsInv
  BY DEF RouteInv, RowsInv, StoreFine
<1>2. t \in Tickets /\ store.status[t] = "COMPLETED" /\ store.spec[t].node = n
  BY <1>1 DEF Shows, NodeStatusFor, NodeOf, RoutingDatabases
<1>3. SameTicketAs(t)
  <2>1. ~ TurnedTo(t)
    BY <1>1, <1>2, HappensSides DEF TurnedTo
  <2>2. ~ NewTicket(t)
    BY <1>2 DEF NewTicket, Exists
  <2> QED BY <1>2, <2>1, <2>2, TicketSees
<1>4. ASSUME NEW x, NEW s \in RoutingStatuses, NEW w, NEW v, Happens(x, s, w, v)
      PROVE  store.spec[x].node # n
  <2>1. store.latest[store.spec[x].node] = x /\ store.status[x] # "COMPLETED"
    BY <1>1, <1>4, HappensSides
  <2> QED BY <1>2, <2>1
<1>5. store'.nodeStatus[n] = store.nodeStatus[n] /\ store'.latest[n] = store.latest[n]
  <2>1. CASE Kept
    BY <2>1 DEF Kept
  <2>2. CASE Created
    <3>1. PICK c \in FreshIds(store), m \in Nodes, p \in Tickets \cup {NoTicket} :
            Put(store, store', c, NewSpec(m, p)) /\ NodeTakesTicket(m)
      BY <2>2 DEF Created
    <3>2. m # n /\ NewSpec(m, p).node = m
      BY <3>1, NewSpecType DEF NodeTakesTicket
    <3> QED BY <1>1, <3>1, <3>2 DEF Put, RoutingDatabases
  <2>3. CASE Turned
    <3>1. PICK x \in Tickets, s \in RoutingStatuses, w \in Workers, v \in Verdicts :
            Turn(store, store', x, s, w, v) /\ Happens(x, s, w, v)
      BY <2>3 DEF Turned
    <3> QED BY <1>1, <1>4, <3>1 DEF Turn, RoutingDatabases
  <2>4. CASE Followed
    <3>1. PICK x \in Tickets, s \in RoutingStatuses, w \in Workers, v \in Verdicts,
               mid \in RoutingDatabases : \E c \in FreshIds(mid), sp \in RoutingSpecs :
            /\ Turn(store, mid, x, s, w, v) /\ Happens(x, s, w, v)
            /\ Put(mid, store', c, sp) /\ FollowedBy(x, s, w, v, sp)
      BY <2>4 DEF Followed
    <3>2. PICK c \in FreshIds(mid), sp \in RoutingSpecs :
            /\ Turn(store, mid, x, s, w, v) /\ Happens(x, s, w, v)
            /\ Put(mid, store', c, sp) /\ FollowedBy(x, s, w, v, sp)
      BY <3>1
    <3>3. sp.node # n
      BY <1>1, <1>2, <1>4, <3>2, FollowedPayload, TicketNumbers
    <3>4. store.spec[x].node # n
      BY <1>4, <3>1, <3>2
    <3>5. mid.nodeStatus[n] = store.nodeStatus[n] /\ mid.latest[n] = store.latest[n]
      <4>1. Turn(store, mid, x, s, w, v)
        BY <3>2
      <4>2. \A k \in Nodes \ {store.spec[x].node} :
              mid.nodeStatus[k] = store.nodeStatus[k] /\ mid.latest[k] = store.latest[k]
        BY <1>1, <4>1 DEF Turn, RoutingDatabases
      <4> QED BY <3>4, <4>2
    <3>6. c \in Tickets
      BY <1>1, <3>2, HappensFine, FreshIsNext
    <3>7. store'.nodeStatus[n] = mid.nodeStatus[n] /\ store'.latest[n] = mid.latest[n]
      BY <3>2, <3>3, <3>6, PutIs
    <3> QED BY <3>5, <3>7
  <2> QED BY <2>1, <2>2, <2>3, <2>4 DEF StoreStep
<1> QED BY <1>2, <1>3, <1>5

(* What runs goes on to have its upstream done.                            *)
LEMMA StepUpstream ==
  ASSUME RouteInv, StoreStep, NEW u \in Tickets
  PROVE  UpstreamFine(store', u)
<1> DEFINE p == store.spec[u].parent
<1>1. /\ RowsInv /\ store \in RoutingDatabases /\ UpstreamFine(store, u) /\ RefersFine(store, u)
      /\ p \in Tickets \cup {NoTicket}
  BY RoutingFields DEF RouteInv, RowsInv, StoreFine
<1>2. ASSUME store'.status[u] = "EXECUTING"
      PROVE  /\ store'.spec[u] = store.spec[u]
             /\ p # NoTicket /\ store.spec[p].node # store.spec[u].node
                  => store.nodeStatus[store.spec[p].node] = "COMPLETED"
  <2>1. CASE SameTicketAs(u)
    BY <1>1, <1>2, <2>1 DEF SameTicketAs, UpstreamFine
  <2>2. CASE TurnedTo(u)
    <3>1. PICK s \in RoutingStatuses, w \in Workers, v \in Verdicts :
            Happens(u, s, w, v) /\ s = "EXECUTING" /\ store'.spec[u] = store.spec[u]
      BY <1>2, <2>2 DEF TurnedTo
    <3>2. UpstreamDone(u)
      BY <3>1 DEF Happens, Starts, Breaks, IsCancelled, IsMade, IsAccepted,
                     IsUnjudged, IsRefused, AsksBoard, IsDecided
    <3> QED BY <3>1, <3>2 DEF UpstreamDone, NodeOf
  <2> QED BY <1>2, <2>1, <2>2, TicketSees DEF NewTicket
<1>3. ASSUME store'.status[u] = "EXECUTING", p # NoTicket, store.spec[p].node # store.spec[u].node
      PROVE  /\ store'.spec[p] = store.spec[p]
             /\ store'.nodeStatus[store.spec[p].node] = "COMPLETED"
  <2>1. p \in Tickets /\ Exists(store, p) /\ store.spec[p].node \in Nodes
    BY <1>1, <1>3, RoutingFields DEF RefersFine
  <2> QED BY <1>2, <1>3, <2>1, PayloadKept, DoneStays
<1> QED
  <2> SUFFICES ASSUME store'.status[u] = "EXECUTING", store'.spec[u].parent # NoTicket,
                      store'.spec[store'.spec[u].parent].node # store'.spec[u].node
               PROVE  store'.nodeStatus[store'.spec[store'.spec[u].parent].node] = "COMPLETED"
    BY DEF UpstreamFine
  <2>1. store'.spec[u] = store.spec[u]
    BY <1>2
  <2>2. p \in Tickets /\ Exists(store, p)
    BY <1>1, <2>1 DEF RefersFine
  <2>3. store'.spec[p] = store.spec[p]
    BY <2>2, PayloadKept
  <2> QED BY <1>3, <2>1, <2>3

(* A node that gets done has passed, or was refused for good.              *)
LEMMA TurnDone ==
  ASSUME RouteInv, NEW t \in Tickets, NEW s \in RoutingStatuses, NEW w, NEW v, NEW new,
         Turn(store, new, t, s, w, v), Happens(t, s, w, v), NEW n \in Nodes,
         n # store.spec[t].node \/ (IsMade(t, s, w, v) => ReviewOn(t) = "NONE")
  PROVE  DoneFine(new, approval', n)
<1> DEFINE m == store.spec[t].node
<1>1. /\ StoreFine(store) /\ RowsInv /\ store \in RoutingDatabases /\ BoardFine(store, approval, t)
      /\ store.latest[m] = t /\ m \in Nodes
  BY HappensSides, RoutingFields DEF RouteInv, RowsInv, StoreFine
<1>2. CASE n # m
  <2>1. /\ new.latest[n] = store.latest[n] /\ new.nodeStatus[n] = store.nodeStatus[n]
        /\ new.spec = store.spec
    BY <1>1, <1>2 DEF Turn, RoutingDatabases
  <2>2. ASSUME new.nodeStatus[n] = "COMPLETED" PROVE PassedIn(new, approval', n)
    <3>1. store.latest[n] \in Tickets \ {t}
      <4>1. Shows(store, n) /\ store.nodeStatus[n] = "COMPLETED"
        BY <1>1, <2>1, <2>2 DEF StoreFine
      <4> QED BY <1>1, <1>2, <4>1 DEF Shows, NodeOf, RoutingDatabases
    <3>2. new.verdict[store.latest[n]] = store.verdict[store.latest[n]]
      BY <1>1, <3>1 DEF Turn, RoutingDatabases
    <3>3. approval'[store.latest[n]] = approval[store.latest[n]]
      BY <3>1, HappensApproval
    <3>4. PassedIn(store, approval, n)
      BY <2>1, <2>2 DEF RouteInv, RowsInv, DoneFine
    <3> QED BY <2>1, <3>2, <3>3, <3>4 DEF PassedIn
  <2> QED BY <2>2 DEF DoneFine
<1>3. CASE n = m
  <2>1. /\ new.latest[n] = t /\ new.nodeStatus[n] = RowAfter(store, t, s, v)
        /\ new.spec = store.spec /\ new.verdict[t] = v
    BY <1>1, <1>3 DEF Turn, RoutingDatabases
  <2>2. ASSUME s = "COMPLETED", ~ Sticks(store, t, s, v) PROVE PassedIn(new, approval', n)
    <3>1. CASE IsMade(t, s, w, v)
      BY <1>3, <2>1, <3>1 DEF PassedIn, ReviewOn, NodeOf
    <3>2. CASE IsAccepted(t, s, w, v)
      BY <1>3, <2>1, <3>2 DEF PassedIn, IsAccepted, ReviewOn, NodeOf, KindOf
    <3>3. CASE IsRefused(t, s, w, v)
      BY <2>1, <3>3 DEF PassedIn, IsRefused
    <3>4. CASE IsDecided(t, s, w, v) /\ approval' = [approval EXCEPT ![t] = "APPROVED"]
      <4>1. approval'[t] = "APPROVED"
        BY <3>4 DEF RouteInv, TypeOK
      <4>2. ReviewOf[n] \in {"DIRECT", "BOARD"}
        BY <1>1, <1>3, <3>4 DEF BoardFine, IsDecided
      <4> QED BY <2>1, <4>1, <4>2 DEF PassedIn
    <3>5. CASE IsUnjudged(t, s, w, v)
      <4>1. /\ store.spec[t].kind = "check" /\ v = "NONE" /\ ReviewOf[n] \in {"INTERNAL", "BOARD"}
            /\ store.status[t] = "EXECUTING"
        BY <1>1, <1>3, <3>5 DEF IsUnjudged, KindOf, StoreFine, RefersFine
      <4>2. ReviewOf[n] = "INTERNAL"
        BY <1>3, <2>2, <4>1 DEF Sticks
      <4> QED BY <2>1, <4>1, <4>2 DEF PassedIn
    <3> QED BY <2>2, <3>1, <3>2, <3>3, <3>4, <3>5
            DEF Happens, Starts, Breaks, IsCancelled, AsksBoard
  <2>3. new.nodeStatus[n] = "COMPLETED" => s = "COMPLETED" /\ ~ Sticks(store, t, s, v)
    BY <2>1 DEF NodeStatusFor, RowAfter
  <2> QED BY <2>2, <2>3 DEF DoneFine
<1> QED BY <1>2, <1>3

(* And so it is after every step.                                          *)
LEMMA StepDone ==
  ASSUME RouteInv, StoreStep, NEW n \in Nodes
  PROVE  DoneFine(store', approval', n)
<1>1. store \in RoutingDatabases /\ DoneFine(store, approval, n)
  BY DEF RouteInv, RowsInv, StoreFine
<1>2. CASE Kept
  BY <1>1, <1>2 DEF Kept
<1>3. CASE store.nodeStatus[n] = "COMPLETED"
  <2>1. PassedIn(store, approval, n)
    BY <1>1, <1>3 DEF DoneFine
  <2> QED BY <1>3, <2>1, DoneStays DEF DoneFine, PassedIn, SameTicketAs
<1>4. CASE Created /\ store.nodeStatus[n] # "COMPLETED"
  <2>1. PICK c \in FreshIds(store), m \in Nodes, p \in Tickets \cup {NoTicket} :
          Put(store, store', c, NewSpec(m, p))
    BY <1>4 DEF Created
  <2>2. store'.nodeStatus[n] # "COMPLETED"
    BY <1>1, <1>4, <2>1, NewSpecType DEF Put, RoutingDatabases
  <2> QED BY <2>2 DEF DoneFine
<1>5. CASE Turned
  BY <1>5, TurnDone DEF Turned
<1>6. CASE Followed /\ store.nodeStatus[n] # "COMPLETED"
  <2>1. PICK t \in Tickets, s \in RoutingStatuses, w \in Workers, v \in Verdicts,
             mid \in RoutingDatabases : \E c \in FreshIds(mid), sp \in RoutingSpecs :
          /\ Turn(store, mid, t, s, w, v) /\ Happens(t, s, w, v)
          /\ Put(mid, store', c, sp) /\ FollowedBy(t, s, w, v, sp)
    BY <1>6 DEF Followed
  <2>2. PICK c \in FreshIds(mid), sp \in RoutingSpecs :
          /\ Turn(store, mid, t, s, w, v) /\ Happens(t, s, w, v)
          /\ Put(mid, store', c, sp) /\ FollowedBy(t, s, w, v, sp)
    BY <2>1
  <2>3. RowsInv /\ sp.node \in Nodes /\ StoreFine(mid) /\ c \in Tickets /\ ~ Exists(mid, c)
    BY <2>2, HappensFine, FreshIsNext DEF RouteInv, RoutingSpecs
  <2>4. CASE n = sp.node
    <3>1. store'.nodeStatus[n] = "PENDING"
      BY <2>2, <2>3, <2>4 DEF Put, RoutingDatabases
    <3> QED BY <3>1 DEF DoneFine
  <2>5. CASE n # sp.node
    <3>1. /\ store'.nodeStatus[n] = mid.nodeStatus[n] /\ store'.latest[n] = mid.latest[n]
          /\ store'.verdict = mid.verdict
          /\ \A u \in Tickets \ {c} : store'.spec[u] = mid.spec[u]
      BY <2>2, <2>3, <2>5 DEF Put, RoutingDatabases
    <3>2. IsMade(t, s, w, v) => sp.node = store.spec[t].node
      BY <2>2, <2>3, FollowedPayload DEF IsMade, IsDecided
    <3>3. DoneFine(mid, approval', n)
      BY <2>2, <2>5, <3>2, TurnDone
    <3>4. mid.nodeStatus[n] = "COMPLETED" => mid.latest[n] \in Tickets \ {c}
      BY <2>3 DEF StoreFine, Shows, RoutingDatabases
    <3>5. ASSUME mid.nodeStatus[n] = "COMPLETED" PROVE PassedIn(store', approval', n)
      BY <3>1, <3>3, <3>4, <3>5 DEF DoneFine, PassedIn
    <3> QED BY <3>1, <3>5 DEF DoneFine
  <2> QED BY <2>4, <2>5
<1> QED BY <1>2, <1>3, <1>4, <1>5, <1>6 DEF StoreStep

-----------------------------------------------------------------------------
(* The other variables.                                                    *)

(* What a step does to git: nothing, a receipt, a branch, or a merge.      *)
Receipts == {"NONE", "PENDING_REVIEW_GATE", "NOT_REQUESTED", "MERGED"}

GitStep ==
  \/ git' = git
  \/ \E x : git' = [git EXCEPT !.receipt[x] = "NOT_REQUESTED"]
  \/ \E t \in Tickets : git' = [git EXCEPT !.branches = @ \cup {t},
                                           !.receipt[t] = "PENDING_REVIEW_GATE"]
  \/ \E x \in Tickets : git' = [git EXCEPT !.main = @ \cup {x}, !.receipt[x] = "MERGED"]

(* Every step does one of these.                                           *)
LEMMA GitKinds == [Next]_vars => GitStep
<1> SUFFICES ASSUME [Next]_vars PROVE GitStep
  OBVIOUS
<1>1. ASSUME NEW t \in Tickets, git' = Unmerged(t) PROVE GitStep
  BY <1>1 DEF Unmerged, GitStep
<1>2. CASE Create
  BY <1>2 DEF Create, CreateTicket, GitStep
<1>3. CASE Work
  <2>1. PICK t \in Tickets :
          \/ \E e \in Employees : Dispatch(t, e)
          \/ DispatchFail(t) \/ Fail(t) \/ TimeOut(t) \/ Cancel(t) \/ Stop(t)
          \/ CommitDelivery(t)
          \/ SubmitUnreviewed(t) \/ SubmitToBoard(t) \/ SubmitToChecker(t)
    BY <1>3 DEF Work
  <2>2. CASE CommitDelivery(t)
    BY <2>2 DEF CommitDelivery, GitStep
  <2>3. CASE Cancel(t) \/ Fail(t)
    BY <1>1, <2>3 DEF Cancel, Fail, GitStep
  <2>4. CASE git' = git
    BY <2>4 DEF GitStep
  <2> QED BY <2>1, <2>2, <2>3, <2>4 DEF Dispatch, DispatchFail, TimeOut, Stop,
          SubmitUnreviewed, SubmitToBoard, SubmitToChecker
<1>4. CASE Check
  BY <1>4 DEF Check, Accept, CompleteUnjudged, Refuse, RestoreOnly, GitStep
<1>5. CASE Board
  BY <1>5 DEF Board, ApproveMerge, HasBranch, MergeConflict, ApproveCommit, Crash, SendBack, GitStep
<1>6. CASE UNCHANGED vars
  BY <1>6 DEF vars, GitStep
<1> QED BY <1>2, <1>3, <1>4, <1>5, <1>6 DEF Next

(* The lock: taken with a merge, given back with its approval or a crash.  *)
LEMMA LockKinds ==
  ASSUME RouteInv, [Next]_vars
  PROVE  \/ txn' = NoTicket
         \/ txn' = txn /\ (txn # NoTicket => Kept)
         \/ \E t \in Tickets : txn' = t /\ Decidable(t) /\ Kept
<1>1. CASE Create
  BY <1>1 DEF Create, CreateTicket, Accepts, Unlocked
<1>2. CASE Work
  BY <1>2 DEF Work, Dispatch, DispatchFail, Queued, Fail, TimeOut, Cancel, Accepts, Stop, Unlocked,
              CommitDelivery, SubmitUnreviewed, SubmitToBoard, SubmitToChecker, Finishes, Kept
<1>3. CASE Check
  BY <1>3 DEF Check, Accept, CompleteUnjudged, Refuse, RestoreOnly, Accepts, Finishes, Unlocked, Kept
<1>4. CASE Board
  BY <1>4 DEF Board, ApproveMerge, MergeConflict, ApproveCommit, Crash, SendBack, Decidable, Unlocked, Kept
<1>5. CASE UNCHANGED vars
  BY <1>5 DEF vars, Kept
<1> QED BY <1>1, <1>2, <1>3, <1>4, <1>5 DEF Next

(* Incidents.                                                              *)
LEMMA IncidentTypes ==
  ASSUME RouteInv, [Next]_vars
  PROVE  incident' \in [Nodes -> {"NONE", "REWORK", "MERGE"}]
<1>1. incident \in [Nodes -> {"NONE", "REWORK", "MERGE"}]
  BY DEF RouteInv, TypeOK
<1>2. \A n : ReworkIncident(n) \in [Nodes -> {"NONE", "REWORK", "MERGE"}]
  BY <1>1 DEF ReworkIncident
<1>3. CASE incident' = incident
  BY <1>1, <1>3
<1>4. CASE Create \/ Work
  BY <1>3, <1>4 DEF Create, CreateTicket, Work, Dispatch, DispatchFail, Fail, TimeOut, Cancel, Stop,
            CommitDelivery, SubmitUnreviewed, SubmitToBoard, SubmitToChecker
<1>5. CASE Check
  BY <1>1, <1>2, <1>3, <1>5 DEF Check, Accept, CompleteUnjudged, Refuse, RestoreOnly
<1>6. CASE Board
  BY <1>1, <1>3, <1>6 DEF Board, ApproveMerge, MergeConflict, ApproveCommit, Crash, SendBack
<1>7. CASE UNCHANGED vars
  BY <1>3, <1>7 DEF vars
<1> QED BY <1>4, <1>5, <1>6, <1>7 DEF Next

(* Every variable keeps its type.                                          *)
LEMMA StepTypes == RouteInv /\ [Next]_vars => TypeOK'
<1> SUFFICES ASSUME RouteInv, [Next]_vars PROVE TypeOK'
  OBVIOUS
<1>1. RowsInv /\ StoreStep
  BY StepKinds DEF RouteInv
<1>2. store' \in RoutingDatabases
  BY <1>1, StepFine DEF StoreFine
<1>3. approval' \in [Tickets -> {"NONE", "OPEN", "APPROVED", "REJECTED", "MODIFIED_CONSTRAINTS"}]
  <2>1. approval \in [Tickets -> {"NONE", "OPEN", "APPROVED", "REJECTED", "MODIFIED_CONSTRAINTS"}]
    BY DEF RouteInv, TypeOK
  <2>2. ASSUME NEW t, NEW s, NEW w, NEW v, Happens(t, s, w, v)
        PROVE  approval' \in [Tickets -> {"NONE", "OPEN", "APPROVED", "REJECTED", "MODIFIED_CONSTRAINTS"}]
    BY <2>1, <2>2 DEF Happens
  <2> QED BY <1>1, <2>1, <2>2 DEF StoreStep, Kept, Created, Turned, Followed
<1>4. git' \in [branches : SUBSET Tickets, main : SUBSET Tickets, receipt : [Tickets -> Receipts]]
  <2>1. git \in [branches : SUBSET Tickets, main : SUBSET Tickets, receipt : [Tickets -> Receipts]]
    BY DEF RouteInv, TypeOK, Receipts
  <2>2. \A x : [git.receipt EXCEPT ![x] = "NOT_REQUESTED"] \in [Tickets -> Receipts]
    BY <2>1 DEF Receipts
  <2>3. \A x : [git.receipt EXCEPT ![x] = "PENDING_REVIEW_GATE"] \in [Tickets -> Receipts]
    BY <2>1 DEF Receipts
  <2>4. \A x : [git.receipt EXCEPT ![x] = "MERGED"] \in [Tickets -> Receipts]
    BY <2>1 DEF Receipts
  <2>5. CASE git' = git
    BY <2>1, <2>5
  <2>6. CASE \E x : git' = [git EXCEPT !.receipt[x] = "NOT_REQUESTED"]
    BY <2>1, <2>2, <2>6
  <2>7. CASE \E t \in Tickets : git' = [git EXCEPT !.branches = @ \cup {t},
                                                  !.receipt[t] = "PENDING_REVIEW_GATE"]
    <3>1. PICK t \in Tickets : git' = [git EXCEPT !.branches = @ \cup {t},
                                                !.receipt[t] = "PENDING_REVIEW_GATE"]
      BY <2>7
    <3>2. git' = [branches |-> git.branches \cup {t}, main |-> git.main,
                  receipt |-> [git.receipt EXCEPT ![t] = "PENDING_REVIEW_GATE"]]
      BY <2>1, <3>1
    <3> QED BY <2>1, <2>3, <3>2
  <2>8. CASE \E x \in Tickets : git' = [git EXCEPT !.main = @ \cup {x},
                                                       !.receipt[x] = "MERGED"]
    <3>1. PICK x \in Tickets : git' = [git EXCEPT !.main = @ \cup {x},
                                                     !.receipt[x] = "MERGED"]
      BY <2>8
    <3>2. git' = [branches |-> git.branches, main |-> git.main \cup {x},
                  receipt |-> [git.receipt EXCEPT ![x] = "MERGED"]]
      BY <2>1, <3>1
    <3> QED BY <2>1, <2>4, <3>2
  <2> QED BY <2>5, <2>6, <2>7, <2>8, GitKinds DEF GitStep
<1>5. txn' \in Tickets \cup {NoTicket}
  BY LockKinds DEF RouteInv, TypeOK
<1> QED BY <1>2, <1>3, <1>4, <1>5, IncidentTypes
        DEF TypeOK, RoutingDatabases, RoutingStatuses, Workers, Verdicts, Receipts

-----------------------------------------------------------------------------
(* The invariant.                                                          *)

(* It holds at first: there is no ticket.                                  *)
LEMMA RouteInit == Init => RouteInv
<1> SUFFICES ASSUME Init PROVE RouteInv
  OBVIOUS
<1> DEFINE first == CHOOSE n \in Nodes : TRUE
<1>1. first \in Nodes
  BY ProjectionAssumption
<1>2. NewSpec(first, NoTicket) \in RoutingSpecs
  BY <1>1, NewSpecType
<1> HIDE DEF first
<1>3. /\ store.status = [t \in Tickets |-> "NONE"]
      /\ store.spec = [t \in Tickets |-> NewSpec(first, NoTicket)]
      /\ store.worker = [t \in Tickets |-> NoOne] /\ store.verdict = [t \in Tickets |-> "NONE"]
      /\ store.latest = [n \in Nodes |-> NoTicket] /\ store.nodeStatus = [n \in Nodes |-> "NONE"]
      /\ approval = [t \in Tickets |-> "NONE"] /\ txn = NoTicket
  BY DEF Init, first
<1>4. TypeOK
  <2>1. /\ [t \in Tickets |-> "NONE"] \in [Tickets -> RoutingStatuses]
        /\ [n \in Nodes |-> "NONE"] \in [Nodes -> NodeStatuses \cup {"BLOCKED_FOR_BOARD_REVIEW"}]
    BY DEF RoutingStatuses, Statuses, NodeStatuses
  <2>2. store \in RoutingDatabases
    BY <1>2, <2>1 DEF Init, RoutingDatabases, Workers, Verdicts, first
  <2>3. /\ incident \in [Nodes -> {"NONE", "REWORK", "MERGE"}]
        /\ git \in [branches : SUBSET Tickets, main : SUBSET Tickets, receipt : [Tickets -> Receipts]]
    BY DEF Init, Receipts
  <2> QED BY <1>3, <2>2, <2>3
          DEF TypeOK, RoutingDatabases, RoutingStatuses, Workers, Verdicts, Receipts
<1>5. store \in RoutingDatabases
  BY <1>4 DEF TypeOK, RoutingDatabases, RoutingStatuses, Workers, Verdicts
<1>6. ASSUME NEW n \in Nodes PROVE Shows(store, n) /\ DoneFine(store, approval, n)
  BY <1>3 DEF Shows, DoneFine
<1>7. ASSUME NEW t \in Tickets
      PROVE  RefersFine(store, t) /\ TicketFine(store, t)
             /\ BoardFine(store, approval, t) /\ UpstreamFine(store, t)
  <2>1. /\ store.spec[t].kind = "make" /\ store.spec[t].parent = NoTicket
        /\ store.status[t] = "NONE" /\ approval[t] = "NONE" /\ 0 < t
    BY <1>1, <1>3, NewSpecType, TicketNumbers, ProjectionAssumption DEF Tickets
  <2> QED BY <2>1, TicketNumbers
          DEF RefersFine, TicketFine, BoardFine, UpstreamFine, Exists, OpenStatus
<1>8. Numbered(store)
  BY <1>3 DEF Numbered, Exists
<1> QED BY <1>3, <1>4, <1>5, <1>6, <1>7, <1>8 DEF RouteInv, RowsInv, StoreFine

(* Every step keeps it.                                                    *)
LEMMA RouteStep == RouteInv /\ [Next]_vars => RouteInv'
<1> SUFFICES ASSUME RouteInv, [Next]_vars PROVE RouteInv'
  OBVIOUS
<1>1. StoreStep /\ TypeOK'
  BY StepKinds, StepTypes DEF RouteInv
<1>2. StoreFine(store')
  BY <1>1, StepFine DEF RouteInv
<1>3. \A t \in Tickets : BoardFine(store', approval', t) /\ UpstreamFine(store', t)
  BY <1>1, StepBoard, StepUpstream
<1>4. \A n \in Nodes : DoneFine(store', approval', n)
  BY <1>1, StepDone
<1>5. txn' # NoTicket => txn' \in Tickets /\ store'.status[txn'] = "BLOCKED_FOR_BOARD_REVIEW"
  BY LockKinds DEF RouteInv, RowsInv, Decidable, Kept
<1> QED BY <1>1, <1>2, <1>3, <1>4, <1>5 DEF RouteInv, RowsInv

(* So it holds in every behaviour.                                         *)
LEMMA RouteAlways == Spec => []RouteInv
BY RouteInit, RouteStep, PTL DEF Spec

-----------------------------------------------------------------------------
(* Every state of the routing is made of what its types say.               *)
THEOREM RoutingTypes == Spec => []TypeOK
<1>1. RouteInv => TypeOK
  BY DEF RouteInv
<1> QED BY <1>1, RouteAlways, PTL

(* In every behaviour what waits for the board can be decided by it, and   *)
(* an open approval is about what waits, or was cancelled while it did.    *)
THEOREM BoardQueue == Spec => []BoardQueueAgrees
<1>1. RouteInv => BoardQueueAgrees
  <2> SUFFICES ASSUME RouteInv, NEW t \in Tickets
               PROVE  /\ store.status[t] = "BLOCKED_FOR_BOARD_REVIEW" =>
                           /\ approval[t] = "OPEN" /\ IsLatest(store, t)
                           /\ store.nodeStatus[NodeOf(store, t)] = "BLOCKED_FOR_BOARD_REVIEW"
                      /\ approval[t] = "OPEN" =>
                           store.status[t] \in {"BLOCKED_FOR_BOARD_REVIEW", "CANCELLED"}
    BY DEF BoardQueueAgrees
  <2>1. /\ BoardFine(store, approval, t) /\ TicketFine(store, t)
        /\ store.spec[t].node \in Nodes /\ Shows(store, store.spec[t].node)
    BY RoutingFields DEF RouteInv, RowsInv, StoreFine
  <2>2. store.status[t] = "BLOCKED_FOR_BOARD_REVIEW" =>
          store.nodeStatus[store.spec[t].node] = "BLOCKED_FOR_BOARD_REVIEW"
    BY <2>1, TicketNumbers DEF TicketFine, OpenStatus, Shows, Stuck, NodeStatusFor
  <2> QED BY <2>1, <2>2 DEF BoardFine, TicketFine, OpenStatus, IsLatest, NodeOf
<1> QED BY <1>1, RouteAlways, PTL

(* In every behaviour a ticket that runs on another node's deliverable     *)
(* runs on one its last reviewer let pass, one that was refused for good,  *)
(* or one whose internal check was completed without a verdict: the gate   *)
(* of the dispatch, which looks at the node row once, is enough because a  *)
(* node that is past its review is not opened again.                       *)
THEOREM DownstreamWaits == Spec => []DownstreamWaitsForReview
<1>1. RouteInv => DownstreamWaitsForReview
  <2> SUFFICES ASSUME RouteInv, NEW t \in Running, NEW n \in UpstreamNodes(t)
               PROVE  \/ Accepted(n) \/ Refused(store.latest[n])
                      \/ ReviewOf[n] = "INTERNAL" /\ Unjudged(store.latest[n])
    BY DEF DownstreamWaitsForReview
  <2>1. t \in Tickets /\ store.status[t] = "EXECUTING" /\ UpstreamFine(store, t)
    BY DEF Running, RouteInv, RowsInv
  <2>2. /\ n = store.spec[store.spec[t].parent].node /\ store.spec[t].parent # NoTicket
        /\ n # store.spec[t].node
    BY DEF UpstreamNodes, NodeOf
  <2>3. store \in RoutingDatabases /\ RefersFine(store, t)
    BY <2>1 DEF RouteInv, RowsInv, StoreFine
  <2>4. n \in Nodes /\ store.nodeStatus[n] = "COMPLETED"
    BY <2>1, <2>2, <2>3, RoutingFields DEF UpstreamFine
  <2>5. PassedIn(store, approval, n) /\ Shows(store, n)
    BY <2>4 DEF RouteInv, RowsInv, StoreFine, DoneFine
  <2>6. store.latest[n] \in Tickets /\ store.status[store.latest[n]] = "COMPLETED"
    BY <2>3, <2>4, <2>5 DEF Shows, NodeStatusFor, RoutingDatabases
  <2>7. ReviewOf[n] \in {"NONE", "INTERNAL", "DIRECT", "BOARD"}
    BY <2>4, RoutingAssumption DEF ReviewKinds
  <2> QED BY <2>5, <2>6, <2>7, TicketNumbers DEF PassedIn, Accepted, Refused, Unjudged, KindOf
<1> QED BY <1>1, RouteAlways, PTL

-----------------------------------------------------------------------------
(* The contract of a node's review.                                        *)
StageAt(db, n) ==
  LET t == db.latest[n]
      s == db.nodeStatus[n]
  IN CASE s = "NONE" -> "none"
       [] s \in {"PENDING", "EXECUTING", "CANCEL_REQUESTED"} ->
            IF db.spec[t].kind = "check" THEN "checking" ELSE "making"
       [] s = "BLOCKED_FOR_BOARD_REVIEW" -> "deciding"
       [] s = "COMPLETED" ->
            IF db.status[t] = "COMPLETED" /\ db.verdict[t] \in {"CHANGES_REQUIRED", "ESCALATED"}
            THEN "escalated"
            ELSE IF /\ db.spec[t].kind = "check" /\ db.status[t] = "COMPLETED"
                    /\ db.verdict[t] = "NONE"
                 THEN "unjudged" ELSE "done"
       [] s = "CANCELLED" -> "dropped"
       [] OTHER -> "rework"

StageMap(db) == [n \in Nodes |-> StageAt(db, n)]

(* The stage a row puts its node in.                                       *)
StageFor(s, kind, v) ==
  CASE s \in {"PENDING", "LEASED", "EXECUTING", "CANCEL_REQUESTED"} ->
         IF kind = "check" THEN "checking" ELSE "making"
    [] s = "BLOCKED_FOR_BOARD_REVIEW" -> "deciding"
    [] s = "COMPLETED" -> IF v \in {"CHANGES_REQUIRED", "ESCALATED"} THEN "escalated"
                          ELSE IF kind = "check" /\ v = "NONE" THEN "unjudged" ELSE "done"
    [] s = "CANCELLED" -> "dropped"
    [] OTHER -> "rework"

(* And a turn; the check that sticks goes on as one.                       *)
StageAfter(t, s, v) ==
  IF Sticks(store, t, s, v) THEN "checking" ELSE StageFor(s, store.spec[t].kind, v)

(* The stages of the model are those of its rows.                          *)
LEMMA StagesOfRows ==
  /\ [n \in Nodes |-> StageOf(n)] = StageMap(store)
  /\ [n \in Nodes |-> StageOf(n)]' = StageMap(store')
<1>1. \A n \in Nodes : StageOf(n) = StageAt(store, n)
  BY DEF StageOf, StageAt, KindOf, Refused, Unjudged
<1>2. \A n \in Nodes : StageOf(n)' = StageAt(store', n)
  BY DEF StageOf, StageAt, KindOf, Refused, Unjudged
<1> QED BY <1>1, <1>2 DEF StageMap

(* A node is in the stage of its latest ticket.                            *)
LEMMA StageOfLatest ==
  ASSUME NEW db, StoreFine(db), NEW n \in Nodes, NEW t \in Tickets, db.latest[n] = t,
         db.nodeStatus[n] = NodeStatusFor(db.status[t])
  PROVE  StageAt(db, n) = StageFor(db.status[t], db.spec[t].kind, db.verdict[t])
<1>1. Exists(db, t) /\ db.status[t] \in RoutingStatuses
  BY TicketNumbers, RoutingFields DEF StoreFine, Shows
<1>2. db.status[t] \in {"PENDING", "LEASED", "EXECUTING", "CANCEL_REQUESTED", "CANCELLED",
                        "COMPLETED", "FAILED", "TIMED_OUT", "BLOCKED_FOR_BOARD_REVIEW",
                        "REWORK_REQUIRED"}
  BY <1>1 DEF RoutingStatuses, Statuses, LiveStatus, DeadStatus, Exists
<1> QED BY <1>1, <1>2 DEF StageAt, StageFor, NodeStatusFor

(* A turn moves the stage of its node alone.                               *)
LEMMA TurnStage ==
  ASSUME RowsInv, NEW t \in Tickets, NEW s \in RoutingStatuses, NEW w, NEW v, NEW new,
         Turn(store, new, t, s, w, v), Happens(t, s, w, v)
  PROVE  /\ StageMap(new) = [StageMap(store) EXCEPT
                               ![store.spec[t].node] = StageAfter(t, s, v)]
         /\ StageMap(store)[store.spec[t].node]
              = StageFor(store.status[t], store.spec[t].kind, store.verdict[t])
         /\ store.spec[t].node \in Nodes
<1> DEFINE m == store.spec[t].node
<1>1. /\ StoreFine(store) /\ StoreFine(new) /\ store \in RoutingDatabases
      /\ m \in Nodes /\ store.latest[m] = t
  BY HappensFine, HappensSides, RoutingFields DEF RowsInv, StoreFine
<1>2. /\ new.spec = store.spec /\ new.status[t] = s /\ new.verdict[t] = v /\ new.latest[m] = t
      /\ new.nodeStatus[m] = RowAfter(store, t, s, v)
  BY <1>1 DEF Turn, RoutingDatabases
<1>3. StageAt(new, m) = StageAfter(t, s, v)
  <2>1. CASE Sticks(store, t, s, v)
    BY <1>2, <2>1 DEF StageAt, StageAfter, RowAfter, Sticks
  <2>2. CASE ~ Sticks(store, t, s, v)
    BY <1>1, <1>2, <2>2, StageOfLatest DEF StageAfter, RowAfter
  <2> QED BY <2>1, <2>2
<1>4. StageAt(store, m) = StageFor(store.status[t], store.spec[t].kind, store.verdict[t])
  <2>1. store.status[t] # "COMPLETED" /\ Shows(store, m)
    BY <1>1, HappensSides DEF StoreFine
  <2>2. store.nodeStatus[m] = NodeStatusFor(store.status[t])
    BY <1>1, <2>1, TicketNumbers DEF Shows, Stuck
  <2> QED BY <1>1, <2>2, StageOfLatest
<1>5. ASSUME NEW n \in Nodes \ {m} PROVE StageAt(new, n) = StageAt(store, n)
  <2>1. new.latest[n] = store.latest[n] /\ new.nodeStatus[n] = store.nodeStatus[n]
    BY <1>1, <1>5 DEF Turn, RoutingDatabases
  <2>2. CASE store.latest[n] = NoTicket
    BY <1>1, <2>1, <2>2 DEF StoreFine, Shows, StageAt
  <2>3. CASE store.latest[n] # NoTicket
    <3>1. store.latest[n] \in Tickets \ {t}
      BY <1>1, <1>5, <2>3 DEF StoreFine, Shows, NodeOf, RoutingDatabases
    <3>2. /\ new.status[store.latest[n]] = store.status[store.latest[n]]
          /\ new.verdict[store.latest[n]] = store.verdict[store.latest[n]]
      BY <1>1, <3>1 DEF Turn, RoutingDatabases
    <3> QED BY <1>2, <2>1, <3>2 DEF StageAt
  <2> QED BY <2>2, <2>3
<1> HIDE DEF m
<1>6. StageMap(new) = [StageMap(store) EXCEPT ![m] = StageAfter(t, s, v)]
  BY <1>1, <1>3, <1>5 DEF StageMap
<1>7. StageMap(store)[m] = StageAt(store, m)
  BY <1>1 DEF StageMap
<1> QED BY <1>1, <1>4, <1>6, <1>7 DEF m

(* A creation starts making or checking on its node.                       *)
LEMMA PutStage ==
  ASSUME NEW db, StoreFine(db), NEW c \in FreshIds(db), NEW sp \in RoutingSpecs, NEW new,
         Put(db, new, c, sp)
  PROVE  StageMap(new) = [StageMap(db) EXCEPT
                            ![sp.node] = IF sp.kind = "check" THEN "checking" ELSE "making"]
<1>1. db \in RoutingDatabases /\ c \in Tickets /\ ~ Exists(db, c) /\ sp.node \in Nodes
  BY FreshIsNext DEF StoreFine, RoutingSpecs
<1>2. StageAt(new, sp.node) = IF sp.kind = "check" THEN "checking" ELSE "making"
  BY <1>1 DEF Put, StageAt, RoutingDatabases
<1>3. ASSUME NEW n \in Nodes \ {sp.node} PROVE StageAt(new, n) = StageAt(db, n)
  <2>1. new.latest[n] = db.latest[n] /\ new.nodeStatus[n] = db.nodeStatus[n]
    BY <1>1, <1>3 DEF Put, RoutingDatabases
  <2>2. CASE db.latest[n] = NoTicket
    BY <2>1, <2>2 DEF StoreFine, Shows, StageAt
  <2>3. CASE db.latest[n] # NoTicket
    <3>1. db.latest[n] \in Tickets \ {c}
      BY <1>1, <2>3 DEF StoreFine, Shows, RoutingDatabases
    <3>2. /\ new.status[db.latest[n]] = db.status[db.latest[n]]
          /\ new.verdict[db.latest[n]] = db.verdict[db.latest[n]]
          /\ new.spec[db.latest[n]] = db.spec[db.latest[n]]
      BY <1>1, <3>1 DEF Put, RoutingDatabases
    <3> QED BY <2>1, <3>2 DEF StageAt
  <2> QED BY <2>2, <2>3
<1> QED BY <1>1, <1>2, <1>3 DEF StageMap

(* The steps the contract allows, with the stages before and after.        *)
ReviewMoves(old, new) ==
  \/ new = old
  \/ \E n \in Nodes :
       \/ old[n] \in {"none", "rework"} /\ new = [old EXCEPT ![n] = "making"]
       \/ /\ ReviewOf[n] \in {"INTERNAL", "BOARD"} /\ old[n] = "making"
          /\ new = [old EXCEPT ![n] = "checking"]
       \/ ReviewOf[n] = "INTERNAL" /\ old[n] = "checking" /\ new = [old EXCEPT ![n] = "unjudged"]
       \/ old[n] = "checking" /\ \E to \in {"making", "escalated"} : new = [old EXCEPT ![n] = to]
       \/ /\ \/ ReviewOf[n] = "DIRECT" /\ old[n] = "making"
             \/ ReviewOf[n] = "BOARD" /\ old[n] = "checking"
          /\ new = [old EXCEPT ![n] = "deciding"]
       \/ /\ \/ ReviewOf[n] = "NONE" /\ old[n] = "making"
             \/ ReviewOf[n] = "INTERNAL" /\ old[n] = "checking"
             \/ old[n] = "deciding"
          /\ new = [old EXCEPT ![n] = "done"]
       \/ \E m \in Nodes \ {n} :
            /\ old[n] = "deciding" /\ old[m] = "none"
            /\ new = [k \in Nodes |-> IF k = n THEN "done"
                                      ELSE IF k = m THEN "making" ELSE old[k]]
       \/ /\ old[n] \in {"making", "checking", "deciding"}
          /\ new = [old EXCEPT ![n] = "rework"]
       \/ /\ old[n] \in {"making", "checking", "deciding", "rework"}
          /\ new = [old EXCEPT ![n] = "dropped"]

(* A turn that nothing follows.                                            *)
LEMMA TurnReview ==
  ASSUME RouteInv, NEW t \in Tickets, NEW s \in RoutingStatuses, NEW w, NEW v, NEW new,
         Turn(store, new, t, s, w, v), Happens(t, s, w, v),
         IsMade(t, s, w, v) => ReviewOn(t) = "NONE"
  PROVE  ReviewMoves(StageMap(store), StageMap(new))
<1> DEFINE m == store.spec[t].node
           old == StageMap(store)
           kind == store.spec[t].kind
           to == StageAfter(t, s, v)
<1>1. /\ RowsInv /\ StageMap(new) = [old EXCEPT ![m] = to] /\ m \in Nodes
      /\ old[m] = StageFor(store.status[t], kind, store.verdict[t])
  BY TurnStage DEF RouteInv
<1>2. [old EXCEPT ![m] = old[m]] = old
  BY <1>1 DEF StageMap
<1>3. /\ KindOf(t) = kind /\ ReviewOn(t) = ReviewOf[m] /\ BoardFine(store, approval, t)
      /\ store.status[t] \in RoutingStatuses \ {"NONE"}
  <2>1. StoreFine(store) /\ store.latest[m] = t
    BY <1>1, HappensSides DEF RowsInv
  <2>2. Exists(store, t) /\ store.status[t] \in RoutingStatuses
    BY <1>1, <2>1, RoutingFields, TicketNumbers DEF StoreFine, Shows
  <2> QED BY <1>1, <2>2 DEF KindOf, ReviewOn, NodeOf, RowsInv, Exists
<1>12. /\ to = IF /\ s = "COMPLETED" /\ v = "NONE" /\ store.status[t] = "EXECUTING"
                  /\ kind = "check" /\ ReviewOf[m] = "BOARD"
               THEN "checking" ELSE StageFor(s, kind, v)
       /\ kind = "check" => ReviewOf[m] \in {"INTERNAL", "BOARD"}
       /\ store.status[t] = "BLOCKED_FOR_BOARD_REVIEW" =>
            store.verdict[t] = IF kind = "check" THEN "APPROVED" ELSE "NONE"
  BY <1>1, <1>3 DEF StageAfter, Sticks, RowsInv, StoreFine, RefersFine, BoardFine
<1> HIDE DEF m, old, kind, to
<1> USE DEF ReviewMoves
<1>4. CASE Starts(t, s, w, v)
  <2>1. to = old[m]
    BY <1>1, <1>12, <1>4 DEF Starts, StageFor
  <2> QED BY <1>1, <1>2, <2>1 DEF old
<1>5. CASE Breaks(t, s, w, v)
  <2>1. old[m] \in {"making", "checking"} /\ to = "rework"
    BY <1>1, <1>12, <1>5 DEF Breaks, StageFor
  <2> QED BY <1>1, <2>1 DEF old
<1>6. CASE IsCancelled(t, s, w, v)
  <2>1. CASE s = "CANCEL_REQUESTED"
    <3>1. to = old[m]
      BY <1>1, <1>12, <1>6, <2>1 DEF IsCancelled, StageFor
    <3> QED BY <1>1, <1>2, <3>1 DEF old
  <2>2. CASE s = "CANCELLED"
    <3>1. old[m] \in {"making", "checking", "deciding", "rework"}
      BY <1>1, <1>3, <1>6, <2>2
         DEF IsCancelled, StageFor, RoutingStatuses, Statuses, LiveStatus, DeadStatus
    <3>2. to = "dropped"
      BY <1>12, <2>2 DEF StageFor
    <3> QED BY <1>1, <3>1, <3>2 DEF old
  <2> QED BY <1>6, <2>1, <2>2 DEF IsCancelled
<1>7. CASE IsMade(t, s, w, v)
  <2>1. old[m] = "making" /\ to = "done" /\ ReviewOf[m] = "NONE"
    BY <1>1, <1>3, <1>12, <1>7 DEF IsMade, StageFor
  <2> QED BY <1>1, <2>1 DEF old
<1>8. CASE IsAccepted(t, s, w, v)
  <2>1. old[m] = "checking" /\ to = "done" /\ ReviewOf[m] = "INTERNAL"
    BY <1>1, <1>3, <1>12, <1>8 DEF IsAccepted, StageFor
  <2> QED BY <1>1, <2>1 DEF old
<1>9. CASE IsRefused(t, s, w, v)
  <2>1. old[m] = "checking" /\ to = "escalated"
    BY <1>1, <1>3, <1>12, <1>9 DEF IsRefused, StageFor
  <2> QED BY <1>1, <2>1 DEF old
<1>10. CASE AsksBoard(t, s, w, v)
  <2>1. /\ to = "deciding"
        /\ \/ ReviewOf[m] = "DIRECT" /\ old[m] = "making"
           \/ ReviewOf[m] = "BOARD" /\ old[m] = "checking"
    BY <1>1, <1>3, <1>12, <1>10 DEF AsksBoard, StageFor
  <2> QED BY <1>1, <2>1 DEF old
<1>11. CASE IsDecided(t, s, w, v)
  <2>1. old[m] = "deciding" /\ to \in {"done", "rework"}
    BY <1>1, <1>3, <1>12, <1>11 DEF IsDecided, StageFor
  <2> QED BY <1>1, <2>1 DEF old
<1>13. CASE IsUnjudged(t, s, w, v)
  <2>1. kind = "check" /\ old[m] = "checking" /\ ReviewOf[m] \in {"INTERNAL", "BOARD"}
    BY <1>1, <1>3, <1>12, <1>13 DEF IsUnjudged, StageFor
  <2>2. CASE ReviewOf[m] = "INTERNAL"
    <3>1. to = "unjudged"
      BY <1>12, <1>13, <2>1, <2>2 DEF IsUnjudged, StageFor
    <3> QED BY <1>1, <2>1, <2>2, <3>1 DEF old
  <2>3. CASE ReviewOf[m] = "BOARD"
    <3>1. to = old[m]
      BY <1>12, <1>13, <2>1, <2>3 DEF IsUnjudged
    <3> QED BY <1>1, <1>2, <3>1 DEF old
  <2> QED BY <2>1, <2>2, <2>3
<1> QED BY <1>4, <1>5, <1>6, <1>7, <1>8, <1>9, <1>10, <1>11, <1>13 DEF Happens, old

(* A turn and the ticket that follows it.                                  *)
LEMMA FollowReview ==
  ASSUME RouteInv, NEW t \in Tickets, NEW s \in RoutingStatuses, NEW w, NEW v, NEW mid,
         Turn(store, mid, t, s, w, v), Happens(t, s, w, v), NEW new,
         NEW c \in FreshIds(mid), NEW sp \in RoutingSpecs,
         Put(mid, new, c, sp), FollowedBy(t, s, w, v, sp)
  PROVE  ReviewMoves(StageMap(store), StageMap(new))
<1> DEFINE m == store.spec[t].node
           old == StageMap(store)
           kind == store.spec[t].kind
           begun == IF sp.kind = "check" THEN "checking" ELSE "making"
<1>1. /\ RowsInv /\ StageMap(mid) = [old EXCEPT ![m] = StageAfter(t, s, v)] /\ m \in Nodes
      /\ old[m] = StageFor(store.status[t], kind, store.verdict[t])
  BY TurnStage DEF RouteInv
<1>2. StageMap(new) = [StageMap(mid) EXCEPT ![sp.node] = begun]
  <2>1. StoreFine(mid)
    BY <1>1, HappensFine
  <2> QED BY <2>1, PutStage
<1>3. /\ [old EXCEPT ![m] = old[m]] = old
      /\ \A n \in Nodes : old[n] = StageAt(store, n)
  BY <1>1 DEF StageMap
<1>4. /\ KindOf(t) = kind /\ ReviewOn(t) = ReviewOf[m] /\ BoardFine(store, approval, t)
      /\ store.spec[t] \in RoutingSpecs
  BY <1>1, RoutingFields DEF KindOf, ReviewOn, NodeOf, RowsInv, StoreFine
<1>9. \A k \in Nodes : StageMap(new)[k] = IF k = sp.node THEN begun
                                         ELSE IF k = m THEN StageAfter(t, s, v) ELSE old[k]
  <2>1. \A k \in Nodes : StageMap(mid)[k] = IF k = m THEN StageAfter(t, s, v) ELSE old[k]
    BY <1>1 DEF StageMap
  <2>2. \A k \in Nodes : StageMap(new)[k] = IF k = sp.node THEN begun ELSE StageMap(mid)[k]
    BY <1>2 DEF StageMap
  <2> QED BY <2>1, <2>2
<1>10. sp.node = m => StageMap(new) = [old EXCEPT ![m] = begun]
  BY <1>9 DEF StageMap
<1> HIDE DEF m, old, kind, begun
<1> USE DEF ReviewMoves
<1>5. CASE Breaks(t, s, w, v) /\ store.status[t] = "EXECUTING" /\ sp = RetrySpec(store, t)
  <2>1. sp.node = m /\ sp.kind = kind
    BY <1>4, <1>5 DEF RetrySpec, RoutingSpecs, m, kind
  <2>2. begun = old[m]
    BY <1>1, <1>5, <2>1 DEF StageFor, begun
  <2> QED BY <1>3, <1>10, <2>1, <2>2 DEF old
<1>6. CASE IsMade(t, s, w, v) /\ ReviewOn(t) \in {"INTERNAL", "BOARD"} /\ sp = CheckerSpec(t)
  <2>1. sp.node = m /\ sp.kind = "check"
    BY <1>1, <1>6, NewSpecType DEF CheckerSpec, NewSpec, NodeOf, m
  <2>2. begun = "checking" /\ old[m] = "making" /\ ReviewOf[m] \in {"INTERNAL", "BOARD"}
    BY <1>1, <1>4, <1>6, <2>1 DEF IsMade, StageFor, begun
  <2>3. StageMap(new) = [old EXCEPT ![m] = "checking"]
    BY <1>10, <2>1, <2>2
  <2> QED BY <1>1, <2>2, <2>3 DEF old
<1>7. CASE IsRefused(t, s, w, v) /\ \E f \in Findings : sp = FixSpec(t, f)
  <2>1. sp.node = m /\ sp.kind = "fix"
    <3>1. PICK f \in Findings : sp = FixSpec(t, f)
      BY <1>7
    <3> QED BY <3>1, FixSpecIs DEF m
  <2>2. begun = "making" /\ old[m] = "checking"
    BY <1>1, <1>4, <1>7, <2>1 DEF IsRefused, StageFor, begun
  <2>3. StageMap(new) = [old EXCEPT ![m] = "making"]
    BY <1>10, <2>1, <2>2
  <2> QED BY <1>1, <2>2, <2>3 DEF old
<1>8. CASE /\ IsDecided(t, s, w, v) /\ s = "COMPLETED"
           /\ \E n \in Nodes : store.latest[n] = NoTicket /\ sp = NewSpec(n, Subject(t))
  <2>1. PICK n \in Nodes : store.latest[n] = NoTicket /\ sp = NewSpec(n, Subject(t))
    BY <1>8
  <2>2. store.latest[m] = t /\ m # n
    BY <1>1, <2>1, HappensSides, TicketNumbers DEF m
  <2>3. sp.node = n /\ sp.kind = "make"
    BY <2>1 DEF NewSpec
  <2>4. old[m] = "deciding" /\ StageAfter(t, s, v) = "done" /\ begun = "making"
    BY <1>1, <1>4, <1>8, <2>3
       DEF IsDecided, BoardFine, StageAfter, Sticks, StageFor, KindOf, begun, kind
  <2>5. old[n] = "none"
    BY <1>1, <1>3, <2>1 DEF RowsInv, StoreFine, Shows, StageAt
  <2>6. StageMap(new) = [k \in Nodes |-> IF k = m THEN "done"
                                       ELSE IF k = n THEN "making" ELSE old[k]]
    BY <1>9, <2>2, <2>3, <2>4 DEF StageMap
  <2> HIDE DEF ReviewMoves
  <2>7. \E k \in Nodes : \E l \in Nodes \ {k} :
           /\ old[k] = "deciding" /\ old[l] = "none"
           /\ StageMap(new) = [x \in Nodes |-> IF x = k THEN "done"
                                        ELSE IF x = l THEN "making" ELSE old[x]]
    <3>1. m \in Nodes /\ n \in Nodes \ {m}
      BY <1>1, <2>2
    <3> USE <3>1
    <3> WITNESS m \in Nodes
    <3> WITNESS n \in Nodes \ {m}
    <3> QED BY <2>4, <2>5, <2>6, Zenon
  <2> QED BY <2>7, Zenon DEF ReviewMoves, old
<1> QED BY <1>5, <1>6, <1>7, <1>8 DEF FollowedBy, old

(* What every step does to the stages.                                     *)
LEMMA StepReview ==
  ASSUME RouteInv, StoreStep
  PROVE  ReviewMoves(StageMap(store), StageMap(store'))
<1>1. RowsInv /\ StoreFine(store)
  BY DEF RouteInv, RowsInv
<1>2. CASE Kept
  BY <1>2 DEF Kept, ReviewMoves
<1>3. CASE Created
  <2>1. PICK c \in FreshIds(store), n \in Nodes, p \in Tickets \cup {NoTicket} :
          Put(store, store', c, NewSpec(n, p)) /\ NodeTakesTicket(n)
    BY <1>3 DEF Created
  <2>2. StageMap(store') = [StageMap(store) EXCEPT ![n] = "making"]
    BY <1>1, <2>1, PutStage, NewSpecType
  <2>3. StageMap(store)[n] \in {"none", "rework"}
    BY <2>1 DEF StageMap, StageAt, NodeTakesTicket
  <2> QED BY <2>2, <2>3 DEF ReviewMoves
<1>4. CASE Turned
  BY <1>4, TurnReview DEF Turned
<1>5. CASE Followed
  BY <1>5, FollowReview DEF Followed
<1> QED BY <1>2, <1>3, <1>4, <1>5 DEF StoreStep

(* The routing implements the contract of ReviewContract for every node:   *)
(* nothing is done that its last reviewer did not let pass, no checker is  *)
(* skipped, and what is done or dropped stays so, whatever timeouts,       *)
(* cancellations and crashes come between.  An internal check that a       *)
(* command closed without a verdict is a stage of its own, "unjudged"; a   *)
(* check before the board closed so leaves its node in "checking".         *)
THEOREM ReviewRefined == Spec => ContractKept
<1>1. Init => Contract!Start
  <2> SUFFICES ASSUME Init PROVE [n \in Nodes |-> StageOf(n)] = [n \in Nodes |-> "none"]
    BY DEF Contract!Start
  <2> QED BY DEF Init, StageOf
<1>2. RouteInv /\ [Next]_vars => [Contract!Step]_([n \in Nodes |-> StageOf(n)])
  <2> SUFFICES ASSUME RouteInv, [Next]_vars
               PROVE  [Contract!Step]_([n \in Nodes |-> StageOf(n)])
    OBVIOUS
  <2> DEFINE stages == [n \in Nodes |-> StageOf(n)]
  <2>1. ReviewMoves(stages, stages')
    BY StepKinds, StepReview, StagesOfRows DEF RouteInv
  <2> QED BY <2>1 DEF ReviewMoves, stages, Contract!Step, Contract!Goes, Contract!Requested,
             Contract!HandedOver, Contract!SentBack, Contract!Escalated, Contract!LetThrough,
             Contract!PutToBoard, Contract!Passed, Contract!Approved, Contract!GivenUp, Contract!Dropped
<1> QED BY <1>1, <1>2, RouteAlways, PTL DEF Spec, ContractKept, Contract!ContractSpec

-----------------------------------------------------------------------------
(* Chains of tickets.  A ticket comes after its parent, so what holds of a *)
(* ticket when it holds of all before it holds of all tickets, and what is *)
(* computed along the parents is well defined.                             *)

(* Every set of numbers that is not empty has a least one.                 *)
LEMMA LeastNumber ==
  ASSUME NEW T, T \subseteq Nat, T # {}
  PROVE  \E m \in T : \A n \in T : m <= n
<1>1. PICK m \in T : \A n \in T : <<n, m>> \notin OpToRel(<, Nat)
  BY WFMin, NatLessThanWellFounded
<1>2. \A n \in T : ~ (n < m)
  BY <1>1 DEF OpToRel
<1> QED BY <1>2

(* What each number up to N gets from those before it, all get.            *)
LEMMA UpTo ==
  ASSUME NEW N \in Nat, NEW G,
         \A u \in 1 .. N : (\A x \in 1 .. N : x < u => x \in G) => u \in G
  PROVE  1 .. N \subseteq G
<1> SUFFICES ASSUME (1 .. N) \ G # {} PROVE FALSE
  OBVIOUS
<1>1. PICK u \in (1 .. N) \ G : \A x \in (1 .. N) \ G : u <= x
  <2> DEFINE T == (1 .. N) \ G
  <2>1. T \subseteq Nat /\ T # {}
    OBVIOUS
  <2> HIDE DEF T
  <2>2. \E u \in T : \A x \in T : u <= x
    BY <2>1, LeastNumber
  <2> QED BY <2>2 DEF T
<1>2. \A x \in 1 .. N : x < u => x \in G
  BY <1>1
<1> QED BY <1>1, <1>2

(* A function whose value at `u` is given where a chain ends, and comes    *)
(* from its value at the number before `u` on the chain elsewhere.         *)
Chained(S, V, ends, before, base, step) ==
  /\ \A u \in S \ ends : before[u] \in S /\ before[u] < u
  /\ \A u \in S : base[u] \in V
  /\ \A u \in S : \A x \in V : step[u][x] \in V

Computes(f, S, ends, before, base, step) ==
  \A u \in S : f[u] = IF u \in ends THEN base[u] ELSE step[u][f[before[u]]]

(* There is such a function.                                               *)
LEMMA ChainFunction ==
  ASSUME NEW N \in Nat, NEW V, NEW ends, NEW before, NEW base, NEW step,
         Chained(1 .. N, V, ends, before, base, step)
  PROVE  \E f \in [1 .. N -> V] : Computes(f, 1 .. N, ends, before, base, step)
<1> USE DEF Chained
<1> DEFINE Fits(f, k) == \A u \in 1 .. k :
             f[u] = IF u \in ends THEN base[u] ELSE step[u][f[before[u]]]
           Bad == {k \in 0 .. N : ~ \E f \in [1 .. k -> V] : Fits(f, k)}
<1>1. ASSUME NEW k \in 1 .. N, NEW f \in [1 .. (k - 1) -> V], Fits(f, k - 1)
      PROVE  \E g \in [1 .. k -> V] : Fits(g, k)
  <2> DEFINE y == IF k \in ends THEN base[k] ELSE step[k][f[before[k]]]
             g == [u \in 1 .. k |-> IF u = k THEN y ELSE f[u]]
  <2>1. y \in V
    <3>1. CASE k \in ends
      BY <3>1
    <3>2. CASE k \notin ends
      <4>1. before[k] \in 1 .. (k - 1)
        BY <3>2
      <4> QED BY <3>2, <4>1
    <3> QED BY <3>1, <3>2
  <2> HIDE DEF y
  <2>2. g \in [1 .. k -> V]
    BY <2>1
  <2>3. ASSUME NEW u \in 1 .. k
        PROVE  g[u] = IF u \in ends THEN base[u] ELSE step[u][g[before[u]]]
    <3>1. u \notin ends => before[u] \in 1 .. (k - 1) /\ g[before[u]] = f[before[u]]
      BY <2>3
    <3>2. CASE u = k
      BY <3>1, <3>2 DEF y
    <3>3. CASE u # k
      <4>1. u \in 1 .. (k - 1) /\ g[u] = f[u]
        BY <3>3
      <4> HIDE DEF g
      <4> QED BY <1>1, <3>1, <4>1
    <3> QED BY <3>2, <3>3
  <2> HIDE DEF g
  <2> QED BY <2>2, <2>3
<1>2. 0 \notin Bad
  <2>1. [u \in 1 .. 0 |-> CHOOSE x : TRUE] \in [1 .. 0 -> V] /\ Fits([u \in 1 .. 0 |-> CHOOSE x : TRUE], 0)
    OBVIOUS
  <2> QED BY <2>1
<1>3. Bad = {}
  <2> SUFFICES ASSUME Bad # {} PROVE FALSE
    OBVIOUS
  <2>1. Bad \subseteq Nat
    OBVIOUS
  <2> HIDE DEF Bad
  <2>2. PICK k \in Bad : \A n \in Bad : k <= n
    BY <2>1, LeastNumber
  <2>3. k \in 1 .. N /\ k - 1 \in 0 .. N
    BY <1>2, <2>2 DEF Bad
  <2>4. k - 1 \notin Bad
    BY <2>2, <2>3
  <2>5. \E f \in [1 .. (k - 1) -> V] : Fits(f, k - 1)
    BY <2>3, <2>4 DEF Bad
  <2> HIDE DEF Fits
  <2>6. \E g \in [1 .. k -> V] : Fits(g, k)
    BY <1>1, <2>3, <2>5
  <2> QED BY <2>2, <2>6 DEF Bad
<1>4. \E f \in [1 .. N -> V] : Fits(f, N)
  BY <1>3
<1> QED BY <1>4 DEF Computes

(* The parent of a ticket comes before it.                                 *)
LEMMA ParentBefore ==
  ASSUME RowsInv, NEW u \in Tickets
  PROVE  /\ store.spec[u].parent \in Tickets \cup {NoTicket}
         /\ store.spec[u].parent # NoTicket =>
              /\ store.spec[u].parent \in Tickets /\ store.spec[u].parent < u
              /\ Exists(store, store.spec[u].parent)
BY RoutingFields DEF RowsInv, StoreFine, RefersFine

(* Along the chain of a ticket too.                                        *)
LEMMA TicketChain ==
  ASSUME NEW V, NEW ends, NEW before, NEW base, NEW step,
         Chained(Tickets, V, ends, before, base, step)
  PROVE  \E f \in [Tickets -> V] : Computes(f, Tickets, ends, before, base, step)
BY ChainFunction, ProjectionAssumption DEF Tickets

(* What each ticket gets from those before it, all get.                    *)
LEMMA TicketsUpTo ==
  ASSUME NEW G, \A u \in Tickets : (\A x \in Tickets : x < u => x \in G) => u \in G
  PROVE  Tickets \subseteq G
BY UpTo, ProjectionAssumption DEF Tickets

(* The source behind a ticket is its own or the one behind its parent.     *)
SourceFacts ==
  \A u \in Tickets : \A p \in Tickets \cup {NoTicket} :
    /\ SourceOf(u) \in Tickets \cup {NoTicket}
    /\ store.spec[u].parent = p =>
         SourceOf(u) = IF IsSource(u) THEN u
                       ELSE IF p = NoTicket THEN NoTicket ELSE SourceOf(p)

(* Following the parents there is one answer.                              *)
LEMMA SourceIs == RouteInv => SourceFacts
<1> SUFFICES ASSUME RouteInv PROVE SourceFacts
  OBVIOUS
<1> DEFINE ends == {u \in Tickets : IsSource(u) \/ store.spec[u].parent = NoTicket}
           before == [u \in Tickets |-> store.spec[u].parent]
           base == [u \in Tickets |-> IF IsSource(u) THEN u ELSE NoTicket]
           V == Tickets \cup {NoTicket}
           step == [u \in Tickets |-> [x \in V |-> x]]
<1>1. RowsInv /\ MaxTickets \in Nat /\ Tickets = 1 .. MaxTickets
  BY ProjectionAssumption DEF RouteInv, Tickets
<1>2. \A u \in Tickets \ ends : before[u] \in Tickets /\ before[u] < u
  BY <1>1, ParentBefore
<1>3. Chained(Tickets, V, ends, before, base, step)
  BY <1>2 DEF Chained
<1> HIDE DEF ends, before, base, V, step
<1>4. PICK f \in [Tickets -> V] : Computes(f, Tickets, ends, before, base, step)
  BY <1>3, TicketChain
<1>5. ASSUME NEW u \in Tickets
      PROVE  f[u] = IF IsSource(u) THEN u
                    ELSE IF store.spec[u].parent = NoTicket THEN NoTicket
                         ELSE f[store.spec[u].parent]
  <2>1. CASE u \in ends
    BY <1>4, <2>1 DEF ends, base, Computes
  <2>2. CASE u \notin ends
    <3>1. f[before[u]] \in V
      BY <1>2, <1>4, <2>2
    <3>2. step[u][f[before[u]]] = f[before[u]]
      BY <3>1 DEF step
    <3> QED BY <1>4, <2>2, <3>2 DEF ends, before, Computes
  <2> QED BY <2>1, <2>2
<1> DEFINE Fits(up) == up = [u \in Tickets |->
             IF NodeOf(store, u) \in Code /\ KindOf(u) # "check" THEN u
             ELSE LET p == store.spec[u].parent
                  IN IF p = NoTicket THEN NoTicket ELSE up[p]]
           up == CHOOSE up : Fits(up)
<1>6. Fits(f)
  BY <1>4, <1>5 DEF IsSource
<1>7. Fits(up)
  <2> HIDE DEF Fits
  <2> QED BY <1>6, Zenon
<1>8. \A t : SourceOf(t) = up[t]
  BY Zenon DEF SourceOf
<1> HIDE DEF up
<1>9. up = [u \in Tickets |-> IF IsSource(u) THEN u
                              ELSE IF store.spec[u].parent = NoTicket THEN NoTicket
                                   ELSE up[store.spec[u].parent]]
  BY <1>7 DEF IsSource
<1> HIDE DEF Fits
<1>10. ASSUME NEW u \in Tickets
       PROVE  SourceOf(u) = IF IsSource(u) THEN u
                            ELSE IF store.spec[u].parent = NoTicket THEN NoTicket
                                 ELSE SourceOf(store.spec[u].parent)
  BY <1>8, <1>9
<1>11. Tickets \subseteq {u \in Tickets : SourceOf(u) \in Tickets \cup {NoTicket}}
  <2> DEFINE G == {u \in Tickets : SourceOf(u) \in Tickets \cup {NoTicket}}
  <2>1. ASSUME NEW u \in Tickets, \A x \in Tickets : x < u => x \in G PROVE u \in G
    BY <1>1, <1>10, <2>1, ParentBefore
  <2> HIDE DEF G
  <2>2. Tickets \subseteq G
    BY <2>1, TicketsUpTo
  <2> QED BY <2>2 DEF G
<1> QED BY <1>10, <1>11 DEF SourceFacts

(* The source behind a ticket that exists never changes.                   *)
LEMMA SourceStays ==
  ASSUME RouteInv, StoreStep, SourceFacts, SourceFacts', NEW t \in Tickets, Exists(store, t)
  PROVE  SourceOf(t)' = SourceOf(t)
<1> DEFINE G == {u \in Tickets : Exists(store, u) => SourceOf(u)' = SourceOf(u)}
<1>1. ASSUME NEW u \in Tickets, \A x \in Tickets : x < u => x \in G PROVE u \in G
  <2> SUFFICES ASSUME Exists(store, u) PROVE SourceOf(u)' = SourceOf(u)
    OBVIOUS
  <2>1. store'.spec[u] = store.spec[u]
    BY PayloadKept
  <2>2. IsSource(u)' = IsSource(u)
    BY <2>1 DEF IsSource, NodeOf, KindOf
  <2>3. PICK p \in Tickets \cup {NoTicket} : p = store.spec[u].parent
    BY ParentBefore DEF RouteInv
  <2>4. p # NoTicket => SourceOf(p)' = SourceOf(p)
    BY <1>1, <2>3, ParentBefore DEF RouteInv
  <2>5. SourceOf(u) = IF IsSource(u) THEN u ELSE IF p = NoTicket THEN NoTicket ELSE SourceOf(p)
    BY <2>3 DEF SourceFacts
  <2>6. SourceOf(u)' = IF IsSource(u)' THEN u ELSE IF p = NoTicket THEN NoTicket ELSE SourceOf(p)'
    BY <2>1, <2>3 DEF SourceFacts
  <2> QED BY <2>2, <2>4, <2>5, <2>6
<1> HIDE DEF G
<1>2. Tickets \subseteq G
  BY <1>1, TicketsUpTo
<1> QED BY <1>2 DEF G

(* So is the source that the approval of a ticket merges.                  *)
LEMMA GateStays ==
  ASSUME RouteInv, StoreStep, SourceFacts, SourceFacts', NEW t \in Tickets, Exists(store, t)
  PROVE  GateSource(t)' = GateSource(t)
<1>1. store'.spec[t] = store.spec[t]
  BY PayloadKept
<1>2. Subject(t)' = Subject(t) /\ ReviewOn(t)' = ReviewOn(t)
  BY <1>1 DEF Subject, KindOf, ReviewOn, NodeOf
<1>3. Subject(t) \in Tickets /\ Exists(store, Subject(t))
  BY DEF Subject, KindOf, RouteInv, RowsInv, StoreFine, RefersFine, Exists
<1>4. PICK m \in Tickets : m = Subject(t)
  BY <1>3
<1>5. SourceOf(m)' = SourceOf(m)
  BY <1>3, <1>4, SourceStays
<1>6. GateSource(t) = IF ReviewOn(t) = "BOARD" THEN SourceOf(m) ELSE NoTicket
  BY <1>4 DEF GateSource
<1>7. GateSource(t)' = IF ReviewOn(t)' = "BOARD" THEN SourceOf(m)' ELSE NoTicket
  BY <1>2, <1>4 DEF GateSource
<1> QED BY <1>2, <1>5, <1>6, <1>7

-----------------------------------------------------------------------------
(* The merge gate.                                                         *)
GateInv ==
  /\ \A t \in Tickets :
       approval[t] = "APPROVED" /\ GateSource(t) # NoTicket => GateSource(t) \in git.main
  /\ \A t \in Tickets : git.receipt[t] = "MERGED" => t \in git.main
  /\ txn # NoTicket => GateSource(txn) \in git.main

(* Nothing leaves main, and a receipt says MERGED only with a merge.       *)
LEMMA GitGrows ==
  ASSUME TypeOK, [Next]_vars
  PROVE  /\ git.main \subseteq git'.main
         /\ \A t \in Tickets : git'.receipt[t] = "MERGED" =>
              git.receipt[t] = "MERGED" \/ t \in git'.main
<1>1. git \in [branches : SUBSET Tickets, main : SUBSET Tickets, receipt : [Tickets -> Receipts]]
  BY DEF TypeOK, Receipts
<1>2. CASE git' = git
  BY <1>2
<1>3. CASE \E x : git' = [git EXCEPT !.receipt[x] = "NOT_REQUESTED"]
  BY <1>1, <1>3
<1>4. CASE \E t \in Tickets : git' = [git EXCEPT !.branches = @ \cup {t},
                                                !.receipt[t] = "PENDING_REVIEW_GATE"]
  <2>1. PICK t \in Tickets : git' = [git EXCEPT !.branches = @ \cup {t},
                                              !.receipt[t] = "PENDING_REVIEW_GATE"]
    BY <1>4
  <2>2. git' = [branches |-> git.branches \cup {t}, main |-> git.main,
                receipt |-> [git.receipt EXCEPT ![t] = "PENDING_REVIEW_GATE"]]
    BY <1>1, <2>1
  <2> QED BY <1>1, <2>2
<1>5. CASE \E x \in Tickets : git' = [git EXCEPT !.main = @ \cup {x}, !.receipt[x] = "MERGED"]
  <2>1. PICK x \in Tickets : git' = [git EXCEPT !.main = @ \cup {x}, !.receipt[x] = "MERGED"]
    BY <1>5
  <2>2. git' = [branches |-> git.branches, main |-> git.main \cup {x},
                receipt |-> [git.receipt EXCEPT ![x] = "MERGED"]]
    BY <1>1, <2>1
  <2> QED BY <1>1, <2>2
<1> QED BY <1>2, <1>3, <1>4, <1>5, GitKinds DEF GitStep

(* An approval is recorded under the lock, or where nothing is to merge.   *)
LEMMA ApprovedHow ==
  ASSUME RouteInv, [Next]_vars, NEW t \in Tickets, approval'[t] = "APPROVED",
         approval[t] # "APPROVED"
  PROVE  MayRecordApproval(t)
<1>1. approval \in [Tickets -> {"NONE", "OPEN", "APPROVED", "REJECTED", "MODIFIED_CONSTRAINTS"}]
  BY DEF RouteInv, TypeOK
<1>2. approval' # approval
  OBVIOUS
<1>3. CASE Create
  BY <1>2, <1>3 DEF Create, CreateTicket
<1>4. CASE Work
  BY <1>1, <1>2, <1>4 DEF Work, Dispatch, DispatchFail, Fail, TimeOut, Cancel, Stop, CommitDelivery,
              SubmitUnreviewed, SubmitToBoard, SubmitToChecker, AskBoard
<1>5. CASE Check
  BY <1>1, <1>2, <1>5 DEF Check, Accept, CompleteUnjudged, Refuse, RestoreOnly, AskBoard
<1>6. CASE Board
  BY <1>1, <1>2, <1>6 DEF Board, ApproveMerge, MergeConflict, ApproveCommit, SendBack, Crash
<1>7. CASE UNCHANGED vars
  BY <1>2, <1>7 DEF vars
<1> QED BY <1>3, <1>4, <1>5, <1>6, <1>7 DEF Next

(* The lock is taken with the merge.                                       *)
LEMMA LockedHow ==
  ASSUME RouteInv, [Next]_vars, txn' # NoTicket, txn' # txn
  PROVE  /\ txn' \in Tickets /\ Decidable(txn') /\ Kept
         /\ GateSource(txn') \in git'.main
<1>1. git \in [branches : SUBSET Tickets, main : SUBSET Tickets, receipt : [Tickets -> Receipts]]
  BY DEF RouteInv, TypeOK, Receipts
<1>2. PICK t \in Tickets : ApproveMerge(t)
  <2>1. CASE Create
    BY <2>1 DEF Create, CreateTicket
  <2>2. CASE Work
    BY <2>2 DEF Work, Dispatch, DispatchFail, Fail, TimeOut, Cancel, Stop, CommitDelivery,
                SubmitUnreviewed, SubmitToBoard, SubmitToChecker
  <2>3. CASE Check
    BY <2>3 DEF Check, Accept, CompleteUnjudged, Refuse, RestoreOnly
  <2>4. CASE Board
    BY <2>4 DEF Board, MergeConflict, ApproveCommit, SendBack, Crash
  <2>5. CASE UNCHANGED vars
    BY <2>5 DEF vars
  <2> QED BY <2>1, <2>2, <2>3, <2>4, <2>5 DEF Next
<1>3. txn' = t /\ Decidable(t) /\ Kept
  BY <1>2 DEF ApproveMerge, Kept
<1> DEFINE x == GateSource(t)
<1>4. git' = [git EXCEPT !.main = @ \cup {x}, !.receipt[x] = "MERGED"]
  BY <1>2 DEF ApproveMerge
<1> HIDE DEF x
<1>5. x \in git'.main
  BY <1>1, <1>4
<1> QED BY <1>3, <1>5 DEF x

(* The gate keeps the invariant.                                           *)
LEMMA GateStep ==
  ASSUME RouteInv, RouteInv', SourceFacts, SourceFacts', GateInv, [Next]_vars
  PROVE  GateInv'
<1>1. StoreStep /\ RowsInv /\ git.main \subseteq git'.main
  BY StepKinds, GitGrows DEF RouteInv
<1>2. ASSUME NEW t \in Tickets, approval'[t] = "APPROVED", GateSource(t)' # NoTicket
      PROVE  GateSource(t)' \in git'.main
  <2>1. Exists(store, t)
    <3>1. CASE approval[t] = "APPROVED"
      BY <1>1, <3>1 DEF RowsInv, BoardFine
    <3>2. CASE approval[t] # "APPROVED"
      <4>1. t = txn \/ Decidable(t)
        BY <1>2, <3>2, ApprovedHow DEF MayRecordApproval
      <4> QED BY <1>1, <4>1, TicketNumbers DEF RowsInv, Decidable, Exists
    <3> QED BY <3>1, <3>2
  <2>2. GateSource(t)' = GateSource(t)
    BY <1>1, <2>1, GateStays
  <2>3. CASE approval[t] = "APPROVED"
    BY <1>1, <1>2, <2>2, <2>3 DEF GateInv
  <2>4. CASE approval[t] # "APPROVED"
    <3>1. txn = t
      BY <1>2, <2>2, <2>4, ApprovedHow DEF MayRecordApproval
    <3> QED BY <1>1, <2>2, <3>1, TicketNumbers DEF GateInv
  <2> QED BY <2>3, <2>4
<1>3. \A t \in Tickets : git'.receipt[t] = "MERGED" => t \in git'.main
  BY <1>1, GitGrows DEF GateInv, RouteInv
<1>4. ASSUME NEW t \in Tickets, txn' = t PROVE GateSource(t)' \in git'.main
  <2>1. /\ Exists(store, t) /\ GateSource(t) \in git'.main
    <3>1. CASE txn = t
      BY <1>1, <3>1, TicketNumbers DEF GateInv, RowsInv, Exists
    <3>2. CASE txn # t
      BY <1>4, <3>2, LockedHow, TicketNumbers DEF Decidable, Exists
    <3> QED BY <3>1, <3>2
  <2> QED BY <1>1, <2>1, GateStays
<1>5. txn' # NoTicket => txn' \in Tickets
  BY DEF RouteInv, TypeOK
<1> QED BY <1>2, <1>3, <1>4, <1>5 DEF GateInv

(* Database and git agree in every behaviour, also when the process dies   *)
(* between the merge and the transaction that records the approval: what   *)
(* is approved has its source on main, whatever cancellations, late        *)
(* commits and conflicts come between.                                     *)
THEOREM GateKept == Spec => []GateAgrees
<1>1. Init => GateInv
  <2> SUFFICES ASSUME Init PROVE GateInv
    OBVIOUS
  <2>1. \A t \in Tickets : approval[t] = "NONE" /\ git.receipt[t] = "NONE"
    BY DEF Init
  <2>2. txn = NoTicket
    BY DEF Init
  <2> QED BY <2>1, <2>2 DEF GateInv
<1>2. GateInv /\ RouteInv /\ RouteInv' /\ SourceFacts /\ SourceFacts' /\ [Next]_vars => GateInv'
  BY GateStep
<1>3. GateInv => GateAgrees
  BY DEF GateInv, GateAgrees
<1> QED BY <1>1, <1>2, <1>3, RouteAlways, SourceIs, PTL DEF Spec

-----------------------------------------------------------------------------
(* What is counted along the parents.                                      *)

(* The cycle of a ticket is that of its parent, and one more after a fix.  *)
CycleFacts ==
  \A u \in Tickets : \A p \in Tickets \cup {NoTicket} :
    /\ ReworkCycle(u) \in Nat \ {0}
    /\ store.spec[u].parent = p =>
         ReworkCycle(u) = IF p = NoTicket THEN 1
                          ELSE ReworkCycle(p) + (IF KindOf(p) = "fix" THEN 1 ELSE 0)

(* Following the parents there is one count.                               *)
LEMMA CycleIs == RouteInv => CycleFacts
<1> SUFFICES ASSUME RouteInv PROVE CycleFacts
  OBVIOUS
<1> DEFINE after(p) == IF KindOf(p) = "fix" THEN 1 ELSE 0
           ends == {u \in Tickets : store.spec[u].parent = NoTicket}
           before == [u \in Tickets |-> store.spec[u].parent]
           base == [u \in Tickets |-> 0]
           step == [u \in Tickets |-> [x \in Nat |-> x + after(store.spec[u].parent)]]
<1>1. \A u \in Tickets \ ends : before[u] \in Tickets /\ before[u] < u
  BY ParentBefore DEF RouteInv
<1>2. \A u \in Tickets : base[u] \in Nat /\ \A x \in Nat : step[u][x] \in Nat
  OBVIOUS
<1>3. \A u \in Tickets, x \in Nat : step[u][x] = x + after(store.spec[u].parent)
  OBVIOUS
<1> HIDE DEF base, step
<1>4. Chained(Tickets, Nat, ends, before, base, step)
  BY <1>1, <1>2 DEF Chained
<1> HIDE DEF ends, before
<1>5. PICK f \in [Tickets -> Nat] : Computes(f, Tickets, ends, before, base, step)
  BY <1>4, TicketChain
<1> HIDE DEF after
<1>6. ASSUME NEW u \in Tickets
      PROVE  f[u] = IF store.spec[u].parent = NoTicket THEN 0
                    ELSE f[store.spec[u].parent] + after(store.spec[u].parent)
  <2>1. CASE u \in ends
    BY <1>5, <2>1 DEF ends, base, Computes
  <2>2. CASE u \notin ends
    <3>1. f[before[u]] \in Nat
      BY <1>1, <1>5, <2>2
    <3> QED BY <1>3, <1>5, <2>2, <3>1 DEF ends, before, Computes
  <2> QED BY <2>1, <2>2
<1> DEFINE Fits(fixes) == fixes = [u \in Tickets |->
             LET p == store.spec[u].parent
             IN IF p = NoTicket THEN 0
                ELSE fixes[p] + (IF KindOf(p) = "fix" THEN 1 ELSE 0)]
           fixes == CHOOSE fixes : Fits(fixes)
<1>7. Fits(f)
  BY <1>5, <1>6 DEF after
<1>8. Fits(fixes)
  <2> HIDE DEF Fits
  <2> QED BY <1>7, Zenon
<1>9. \A t : ReworkCycle(t) = 1 + fixes[t]
  BY Zenon DEF ReworkCycle
<1> HIDE DEF fixes
<1>10. fixes = [u \in Tickets |-> IF store.spec[u].parent = NoTicket THEN 0
                                  ELSE fixes[store.spec[u].parent] + after(store.spec[u].parent)]
  BY <1>8 DEF after
<1> HIDE DEF Fits
<1>11. after(NoTicket) \in Nat /\ \A p \in Tickets : after(p) \in Nat
  BY DEF after
<1>12. Tickets \subseteq {u \in Tickets : fixes[u] \in Nat}
  <2> DEFINE G == {u \in Tickets : fixes[u] \in Nat}
  <2>1. ASSUME NEW u \in Tickets, \A x \in Tickets : x < u => x \in G PROVE u \in G
    <3>1. CASE store.spec[u].parent = NoTicket
      BY <1>10, <3>1
    <3>2. CASE store.spec[u].parent # NoTicket
      <4>1. fixes[store.spec[u].parent] \in Nat /\ store.spec[u].parent \in Tickets
        BY <2>1, <3>2, ParentBefore DEF RouteInv
      <4> QED BY <1>10, <1>11, <3>2, <4>1
    <3> QED BY <3>1, <3>2
  <2> HIDE DEF G
  <2>2. Tickets \subseteq G
    BY <2>1, TicketsUpTo
  <2> QED BY <2>2 DEF G
<1>13. ASSUME NEW u \in Tickets, NEW p \in Tickets \cup {NoTicket}, store.spec[u].parent = p
       PROVE  ReworkCycle(u) = IF p = NoTicket THEN 1 ELSE ReworkCycle(p) + after(p)
  <2>1. CASE p = NoTicket
    <3>1. fixes[u] = 0
      BY <1>10, <1>13, <2>1
    <3> QED BY <1>9, <2>1, <3>1
  <2>2. CASE p # NoTicket
    <3>1. fixes[u] = fixes[p] + after(p) /\ fixes[p] \in Nat /\ after(p) \in Nat
      BY <1>10, <1>11, <1>12, <1>13, <2>2
    <3> QED BY <1>9, <2>2, <3>1
  <2> QED BY <2>1, <2>2
<1>14. \A u \in Tickets : ReworkCycle(u) \in Nat \ {0}
  BY <1>9, <1>12
<1> QED BY <1>13, <1>14 DEF CycleFacts, after

(* The lineage of a ticket is its own row and its parent's on the node.    *)
LineageFacts ==
  \A u \in Tickets : \A p \in Tickets \cup {NoTicket} :
    /\ Lineage(store, u) \subseteq 1 .. u
    /\ store.spec[u].parent = p =>
         Lineage(store, u) = {u} \cup
           (IF p # NoTicket /\ NodeOf(store, p) = NodeOf(store, u) THEN Lineage(store, p) ELSE {})

(* Following the parents there is one set.                                 *)
LEMMA LineageIs == RouteInv => LineageFacts
<1> SUFFICES ASSUME RouteInv PROVE LineageFacts
  OBVIOUS
<1> DEFINE Goes(u) == LET p == store.spec[u].parent
                      IN p # NoTicket /\ NodeOf(store, p) = NodeOf(store, u)
           ends == {u \in Tickets : ~ Goes(u)}
           before == [u \in Tickets |-> store.spec[u].parent]
           base == [u \in Tickets |-> {u}]
           V == SUBSET Tickets
           step == [u \in Tickets |-> [x \in V |-> {u} \cup x]]
<1>1. \A u \in Tickets \ ends : before[u] \in Tickets /\ before[u] < u
  BY ParentBefore DEF RouteInv
<1>2. \A u \in Tickets : base[u] \in V /\ \A x \in V : step[u][x] \in V
  OBVIOUS
<1>3. \A u \in Tickets, x \in V : step[u][x] = {u} \cup x
  OBVIOUS
<1> HIDE DEF step, V
<1>4. Chained(Tickets, V, ends, before, base, step)
  BY <1>1, <1>2 DEF Chained
<1> HIDE DEF ends, before, base, Goes
<1>5. PICK f \in [Tickets -> V] : Computes(f, Tickets, ends, before, base, step)
  BY <1>4, TicketChain
<1>6. ASSUME NEW u \in Tickets
      PROVE  f[u] = IF Goes(u) THEN {u} \cup f[store.spec[u].parent] ELSE {u}
  <2>1. CASE u \in ends
    BY <1>5, <2>1 DEF ends, base, Computes
  <2>2. CASE u \notin ends
    <3>1. f[before[u]] \in V
      BY <1>1, <1>5, <2>2
    <3> QED BY <1>3, <1>5, <2>2, <3>1 DEF ends, before, Computes
  <2> QED BY <2>1, <2>2
<1> DEFINE Fits(up) == up = [u \in Tickets |->
             LET p == store.spec[u].parent
             IN IF p # NoTicket /\ NodeOf(store, p) = NodeOf(store, u)
                THEN {u} \cup up[p] ELSE {u}]
           up == CHOOSE up : Fits(up)
<1>7. Fits(f)
  BY <1>5, <1>6 DEF Goes
<1>8. Fits(up)
  <2> HIDE DEF Fits
  <2> QED BY <1>7, Zenon
<1>9. \A t : Lineage(store, t) = up[t]
  BY Zenon DEF Lineage
<1> HIDE DEF up
<1>10. up = [u \in Tickets |-> IF Goes(u) THEN {u} \cup up[store.spec[u].parent] ELSE {u}]
  BY <1>8 DEF Goes
<1> HIDE DEF Fits
<1>11. Tickets \subseteq {u \in Tickets : up[u] \subseteq 1 .. u}
  <2> DEFINE G == {u \in Tickets : up[u] \subseteq 1 .. u}
  <2>1. ASSUME NEW u \in Tickets, \A x \in Tickets : x < u => x \in G PROVE u \in G
    <3>1. u \in Nat /\ 1 <= u
      BY ProjectionAssumption DEF Tickets
    <3>2. CASE ~ Goes(u)
      BY <1>10, <3>1, <3>2
    <3>3. CASE Goes(u)
      <4> DEFINE p == store.spec[u].parent
      <4>1. p \in Tickets /\ p < u /\ p \in Nat
        BY <3>3, ParentBefore, ProjectionAssumption DEF RouteInv, Goes, Tickets
      <4>2. up[p] \subseteq 1 .. p /\ up[u] = {u} \cup up[p]
        BY <1>10, <2>1, <3>3, <4>1
      <4> HIDE DEF p
      <4> QED BY <3>1, <4>1, <4>2
    <3> QED BY <3>2, <3>3
  <2> HIDE DEF G
  <2>2. Tickets \subseteq G
    BY <2>1, TicketsUpTo
  <2> QED BY <2>2 DEF G
<1>12. ASSUME NEW u \in Tickets, NEW p \in Tickets \cup {NoTicket}, store.spec[u].parent = p
       PROVE  up[u] = {u} \cup
                (IF p # NoTicket /\ NodeOf(store, p) = NodeOf(store, u) THEN up[p] ELSE {})
  BY <1>10, <1>12 DEF Goes
<1> QED BY <1>9, <1>11, <1>12 DEF LineageFacts

-----------------------------------------------------------------------------
(* How a ticket came about, as its payload and its parent still show it.   *)

(* A client or the approval of another node asked for it.                  *)
IsCreation(u) ==
  /\ KindOf(u) = "make" /\ store.spec[u].retries = 0 /\ store.spec[u].excluded = {}
  /\ LET p == store.spec[u].parent
     IN p # NoTicket => \/ NodeOf(store, p) \in Upstream[NodeOf(store, u)]
                        \/ NodeOf(store, p) # NodeOf(store, u)

(* It is the next attempt of its parent.                                   *)
IsRetry(u, p) ==
  LET sp == store.spec[u]  up == store.spec[p]
  IN /\ sp.node = up.node /\ store.status[p] \in {"FAILED", "TIMED_OUT"}
     /\ sp.kind = up.kind /\ sp.maker = up.maker /\ sp.finding = up.finding
     /\ sp.streak = up.streak /\ sp.excluded = up.excluded /\ sp.retries # 0

(* It checks its parent.                                                   *)
IsCheckOf(u, p) ==
  LET sp == store.spec[u]
  IN /\ sp.node = NodeOf(store, p) /\ sp.kind = "check" /\ KindOf(p) # "check"
     /\ sp.maker = p

(* It mends what its parent, a check, refused.                             *)
IsFixOf(u, p) ==
  LET sp == store.spec[u]  m == store.spec[p].maker
  IN /\ sp.node = NodeOf(store, p) /\ sp.kind = "fix" /\ KindOf(p) = "check"
     /\ sp.retries = 0 /\ sp.maker = m /\ Refused(p)
     /\ sp.streak = ReworkStreak(p, sp.finding)
     /\ sp.excluded = store.spec[m].excluded \cup {store.worker[m]}
     /\ ~ Escalates(p, sp.finding) /\ ~ Converges(p)

LinkFine(u) ==
  Exists(store, u) =>
    \/ IsCreation(u)
    \/ \E p \in Tickets : /\ store.spec[u].parent = p
                          /\ IsRetry(u, p) \/ IsCheckOf(u, p) \/ IsFixOf(u, p)

LinkInv == \A u \in Tickets : LinkFine(u)

(* A ticket that ended never changes again.                                *)
LEMMA EndedStays ==
  ASSUME RouteInv, StoreStep, NEW u \in Tickets, store.status[u] \in DeadStatus
  PROVE  SameTicketAs(u)
<1>1. RowsInv
  BY DEF RouteInv
<1>2. ~ TurnedTo(u)
  BY <1>1, HappensSides DEF TurnedTo, DeadStatus
<1>3. ~ NewTicket(u)
  BY DEF NewTicket, Exists, DeadStatus
<1> QED BY <1>2, <1>3, TicketSees

(* The cycle of a ticket that exists never changes.                        *)
LEMMA CycleStays ==
  ASSUME RouteInv, StoreStep, CycleFacts, CycleFacts', NEW t \in Tickets, Exists(store, t)
  PROVE  ReworkCycle(t)' = ReworkCycle(t)
<1> DEFINE G == {u \in Tickets : Exists(store, u) => ReworkCycle(u)' = ReworkCycle(u)}
<1>1. ASSUME NEW u \in Tickets, \A x \in Tickets : x < u => x \in G PROVE u \in G
  <2> SUFFICES ASSUME Exists(store, u) PROVE ReworkCycle(u)' = ReworkCycle(u)
    OBVIOUS
  <2>1. store'.spec[u] = store.spec[u]
    BY PayloadKept
  <2>2. PICK p \in Tickets \cup {NoTicket} : p = store.spec[u].parent
    BY ParentBefore DEF RouteInv
  <2>3. p # NoTicket => p \in Tickets /\ Exists(store, p) /\ ReworkCycle(p)' = ReworkCycle(p)
    BY <1>1, <2>2, ParentBefore DEF RouteInv
  <2>4. p # NoTicket => KindOf(p)' = KindOf(p)
    BY <2>3, PayloadKept DEF KindOf
  <2>5. ReworkCycle(u) = IF p = NoTicket THEN 1
                         ELSE ReworkCycle(p) + (IF KindOf(p) = "fix" THEN 1 ELSE 0)
    BY <2>2 DEF CycleFacts
  <2>6. ReworkCycle(u)' = IF p = NoTicket THEN 1
                          ELSE ReworkCycle(p)' + (IF KindOf(p)' = "fix" THEN 1 ELSE 0)
    BY <2>1, <2>2 DEF CycleFacts
  <2> QED BY <2>3, <2>4, <2>5, <2>6
<1> HIDE DEF G
<1>2. Tickets \subseteq G
  BY <1>1, TicketsUpTo
<1> QED BY <1>2 DEF G

(* So is whether a refusal would be turned into an acceptance, and whether *)
(* it would escalate.                                                      *)
LEMMA RoutingStays ==
  ASSUME RouteInv, StoreStep, CycleFacts, CycleFacts', NEW t \in Tickets, Exists(store, t)
  PROVE  /\ Converges(t)' <=> Converges(t)
         /\ \A f : ReworkStreak(t, f)' = ReworkStreak(t, f)
         /\ \A f : Escalates(t, f)' <=> Escalates(t, f)
<1>1. store'.spec[t] = store.spec[t]
  BY PayloadKept
<1>2. PICK p \in Tickets \cup {NoTicket} : p = store.spec[t].parent
  BY ParentBefore DEF RouteInv
<1>3. p # NoTicket => store'.spec[p] = store.spec[p]
  BY <1>2, ParentBefore, PayloadKept DEF RouteInv
<1>4. ASSUME NEW f PROVE ReworkStreak(t, f)' = ReworkStreak(t, f)
  BY <1>1, <1>2, <1>3 DEF ReworkStreak, KindOf
<1>5. ASSUME NEW f PROVE Escalates(t, f)' <=> Escalates(t, f)
  BY <1>4 DEF Escalates
<1>6. Converges(t)' <=> Converges(t)
  <2>1. ReworkCycle(t)' = ReworkCycle(t) /\ ReviewOn(t)' = ReviewOn(t)
    BY <1>1, CycleStays DEF ReviewOn, NodeOf
  <2> QED BY <2>1 DEF Converges
<1> QED BY <1>4, <1>5, <1>6

(* What a ticket shows of how it came about stays as it is.                *)
LEMMA LinkStays ==
  ASSUME RouteInv, StoreStep, CycleFacts, CycleFacts', NEW u \in Tickets, Exists(store, u),
         LinkFine(u)
  PROVE  LinkFine(u)'
<1>1. store'.spec[u] = store.spec[u]
  BY PayloadKept
<1>2. CASE IsCreation(u)
  <2>1. PICK p \in Tickets \cup {NoTicket} : p = store.spec[u].parent
    BY ParentBefore DEF RouteInv
  <2>2. p # NoTicket => store'.spec[p] = store.spec[p]
    BY <2>1, ParentBefore, PayloadKept DEF RouteInv
  <2>3. IsCreation(u)'
    BY <1>1, <1>2, <2>1, <2>2 DEF IsCreation, KindOf, NodeOf
  <2> QED BY <2>3 DEF LinkFine
<1>3. CASE \E p \in Tickets : /\ store.spec[u].parent = p
                              /\ IsRetry(u, p) \/ IsCheckOf(u, p) \/ IsFixOf(u, p)
  <2>1. PICK p \in Tickets : /\ store.spec[u].parent = p
                             /\ IsRetry(u, p) \/ IsCheckOf(u, p) \/ IsFixOf(u, p)
    BY <1>3
  <2>2. Exists(store, p) /\ store'.spec[p] = store.spec[p] /\ store'.spec[u].parent = p
    BY <1>1, <2>1, ParentBefore, PayloadKept, TicketNumbers DEF RouteInv
  <2>3. CASE IsRetry(u, p)
    <3>1. SameTicketAs(p)
      BY <2>3, EndedStays DEF IsRetry, DeadStatus
    <3>2. IsRetry(u, p)'
      BY <1>1, <2>2, <2>3, <3>1 DEF IsRetry, SameTicketAs
    <3> QED BY <2>2, <3>2 DEF LinkFine
  <2>4. CASE IsCheckOf(u, p)
    <3>1. IsCheckOf(u, p)'
      BY <1>1, <2>2, <2>4 DEF IsCheckOf, NodeOf, KindOf
    <3> QED BY <2>2, <3>1 DEF LinkFine
  <2>5. CASE IsFixOf(u, p)
    <3>1. SameTicketAs(p)
      BY <2>5, EndedStays DEF IsFixOf, Refused, DeadStatus
    <3>2. PICK m \in Tickets : m = store.spec[p].maker /\ store.status[m] = "COMPLETED"
      BY <2>5 DEF IsFixOf, KindOf, RouteInv, RowsInv, StoreFine, RefersFine
    <3>3. SameTicketAs(m)
      BY <3>2, EndedStays DEF DeadStatus
    <3>4. PICK f : f = store.spec[u].finding
      OBVIOUS
    <3>5. /\ Converges(p)' <=> Converges(p)
          /\ ReworkStreak(p, f)' = ReworkStreak(p, f)
          /\ Escalates(p, f)' <=> Escalates(p, f)
      BY <2>2, RoutingStays
    <3>6. Refused(p)'
      BY <2>5, <3>1 DEF IsFixOf, Refused, SameTicketAs
    <3>7. store'.spec[m] = store.spec[m] /\ store'.worker[m] = store.worker[m]
      BY <3>3 DEF SameTicketAs
    <3>8. IsFixOf(u, p)'
      <4>1. /\ store'.spec[u].streak = ReworkStreak(p, f)'
            /\ ~ Escalates(p, f)' /\ ~ Converges(p)'
        BY <1>1, <2>5, <3>4, <3>5 DEF IsFixOf
      <4>2. store'.spec[u].finding = f /\ store'.spec[p].maker = m
        BY <1>1, <2>2, <3>2, <3>4
      <4>3. /\ store'.spec[u].node = NodeOf(store', p) /\ store'.spec[u].kind = "fix"
            /\ KindOf(p)' = "check" /\ store'.spec[u].retries = 0 /\ store'.spec[u].maker = m
            /\ store'.spec[u].excluded = store'.spec[m].excluded \cup {store'.worker[m]}
        BY <1>1, <2>2, <2>5, <3>2, <3>7 DEF IsFixOf, NodeOf, KindOf
      <4> QED BY <3>6, <4>1, <4>2, <4>3 DEF IsFixOf
    <3> QED BY <2>2, <3>8 DEF LinkFine
  <2> QED BY <2>1, <2>3, <2>4, <2>5
<1> QED BY <1>2, <1>3 DEF LinkFine

(* A ticket that a step creates shows how, when it follows a turn.         *)
LEMMA FollowedLink ==
  ASSUME RouteInv, StoreStep, CycleFacts, CycleFacts',
         NEW t \in Tickets, NEW s \in RoutingStatuses, NEW w \in Workers, NEW v \in Verdicts,
         NEW mid, Turn(store, mid, t, s, w, v), Happens(t, s, w, v),
         NEW c \in FreshIds(mid), NEW sp \in RoutingSpecs, Put(mid, store', c, sp),
         FollowedBy(t, s, w, v, sp)
  PROVE  LinkFine(c)'
<1>1. RowsInv /\ StoreFine(store) /\ StoreFine(mid) /\ RefersFine(store, t)
  BY HappensFine DEF RouteInv, RowsInv, StoreFine
<1>2. c \in Tickets /\ ~ Exists(mid, c)
  BY <1>1, FreshIsNext
<1>3. /\ store \in RoutingDatabases /\ mid \in RoutingDatabases
      /\ store.spec[t] \in RoutingSpecs /\ store.spec[t].node \in Nodes
  BY <1>1, RoutingFields DEF StoreFine
<1>4. t # NoTicket /\ Exists(store, t) /\ s # "NONE"
  BY <1>1, <1>3, HappensSides, TicketNumbers DEF StoreFine, Shows
<1>5. c # t
  BY <1>2, <1>3, <1>4 DEF Turn, Exists, RoutingDatabases
<1>6. store'.spec[t] = store.spec[t] /\ store'.status[t] = s /\ store'.verdict[t] = v
  <2>1. mid.spec = store.spec /\ mid.status[t] = s /\ mid.verdict[t] = v
    BY <1>3, TurnIs
  <2>2. /\ store'.spec[t] = mid.spec[t] /\ store'.status[t] = mid.status[t]
        /\ store'.verdict = mid.verdict
    BY <1>2, <1>3, <1>5, PutIs
  <2> QED BY <2>1, <2>2
<1>7. store'.spec[c] = sp
  BY <1>2, <1>3 DEF Put, RoutingDatabases
<1>8. CASE Breaks(t, s, w, v) /\ store.status[t] = "EXECUTING" /\ sp = RetrySpec(store, t)
  <2> DEFINE up == store.spec[t]
  <2>1. /\ sp.node = up.node /\ sp.parent = t /\ sp.kind = up.kind /\ sp.maker = up.maker
        /\ sp.finding = up.finding /\ sp.streak = up.streak /\ sp.excluded = up.excluded
        /\ sp.retries = up.retries + 1 /\ up.retries \in Nat
    BY <1>3, <1>8 DEF RetrySpec, RoutingSpecs
  <2> HIDE DEF up
  <2>2. IsRetry(c, t)'
    BY <1>6, <1>7, <1>8, <2>1 DEF IsRetry, Breaks, up
  <2> QED BY <1>7, <2>1, <2>2 DEF LinkFine
<1>9. CASE IsMade(t, s, w, v) /\ ReviewOn(t) \in {"INTERNAL", "BOARD"} /\ sp = CheckerSpec(t)
  <2>1. sp.node = store.spec[t].node /\ sp.parent = t /\ sp.kind = "check" /\ sp.maker = t
    BY <1>3, <1>9, NewSpecType DEF CheckerSpec, NodeOf, NewSpec
  <2>2. IsCheckOf(c, t)'
    BY <1>6, <1>7, <1>9, <2>1 DEF IsCheckOf, IsMade, NodeOf, KindOf
  <2> QED BY <1>7, <2>1, <2>2 DEF LinkFine
<1>10. CASE /\ IsRefused(t, s, w, v)
            /\ \E f \in Findings : ~ Converges(t) /\ ~ Escalates(t, f) /\ sp = FixSpec(t, f)
  <2>1. PICK f \in Findings : ~ Converges(t) /\ ~ Escalates(t, f) /\ sp = FixSpec(t, f)
    BY <1>10
  <2>2. PICK m \in Tickets : m = store.spec[t].maker /\ store.status[m] = "COMPLETED"
    BY <1>1, <1>10 DEF RefersFine, IsRefused, KindOf
  <2>3. store'.spec[m] = store.spec[m] /\ store'.worker[m] = store.worker[m]
    BY <2>2, EndedStays DEF DeadStatus, SameTicketAs
  <2>4. /\ Converges(t)' <=> Converges(t)
        /\ ReworkStreak(t, f)' = ReworkStreak(t, f)
        /\ Escalates(t, f)' <=> Escalates(t, f)
    BY <1>4, RoutingStays
  <2>5. /\ sp.node = store.spec[t].node /\ sp.parent = t /\ sp.kind = "fix" /\ sp.retries = 0
        /\ sp.maker = m /\ sp.finding = f /\ sp.streak = ReworkStreak(t, f)
        /\ sp.excluded = store.spec[m].excluded \cup {store.worker[m]}
    BY <2>1, <2>2, FixSpecIs
  <2>6. Refused(t)'
    BY <1>6, <1>10 DEF IsRefused, Refused
  <2>7. /\ sp.node = NodeOf(store', t) /\ KindOf(t)' = "check" /\ store'.spec[t].maker = m
        /\ sp.excluded = store'.spec[m].excluded \cup {store'.worker[m]}
    BY <1>6, <1>10, <2>2, <2>3, <2>5 DEF IsRefused, KindOf, NodeOf
  <2>8. sp.streak = ReworkStreak(t, f)' /\ ~ Escalates(t, f)' /\ ~ Converges(t)'
    BY <2>1, <2>4, <2>5
  <2>9. IsFixOf(c, t)'
    BY <1>7, <2>5, <2>6, <2>7, <2>8 DEF IsFixOf
  <2> QED BY <1>7, <2>5, <2>9 DEF LinkFine
<1>11. CASE /\ IsDecided(t, s, w, v) /\ s = "COMPLETED"
            /\ \E n \in Nodes : store.latest[n] = NoTicket /\ sp = NewSpec(n, Subject(t))
  <2>1. PICK n \in Nodes : store.latest[n] = NoTicket /\ sp = NewSpec(n, Subject(t))
    BY <1>11
  <2>2. n # store.spec[t].node
    BY <1>1, <1>4, <2>1, HappensSides
  <2>3. PICK p \in Tickets : /\ p = Subject(t) /\ Exists(store, p)
                             /\ store.spec[p].node = store.spec[t].node
    BY <1>1, <1>4 DEF Subject, RefersFine, KindOf, Exists
  <2>4. /\ sp.node = n /\ sp.parent = p /\ sp.kind = "make" /\ sp.retries = 0
        /\ sp.excluded = {}
    BY <2>1, <2>3 DEF NewSpec
  <2>5. store'.spec[p].node # n
    BY <2>2, <2>3, PayloadKept
  <2>6. IsCreation(c)'
    BY <1>7, <2>4, <2>5 DEF IsCreation, KindOf, NodeOf
  <2> QED BY <2>6 DEF LinkFine
<1> QED BY <1>8, <1>9, <1>10, <1>11 DEF FollowedBy

(* So after every step each ticket shows how it came about.                *)
LEMMA LinkStep ==
  ASSUME RouteInv, StoreStep, CycleFacts, CycleFacts', LinkInv
  PROVE  LinkInv'
<1> SUFFICES ASSUME NEW u \in Tickets PROVE LinkFine(u)'
  BY DEF LinkInv
<1>1. StoreFine(store) /\ store \in RoutingDatabases /\ RowsInv
  BY DEF RouteInv, RowsInv, StoreFine
<1>2. CASE Exists(store, u)
  BY <1>2, LinkStays DEF LinkInv
<1>3. CASE ~ Exists(store, u) /\ store'.status[u] = store.status[u]
  BY <1>3 DEF LinkFine, Exists
<1>4. CASE ~ Exists(store, u) /\ Kept
  BY <1>3, <1>4 DEF Kept
<1>5. CASE ~ Exists(store, u) /\ Created
  <2>1. PICK c \in FreshIds(store), n \in Nodes, p \in Tickets \cup {NoTicket} :
          /\ Put(store, store', c, NewSpec(n, p))
          /\ p # NoTicket => Exists(store, p) /\ store.spec[p].node \in Upstream[n]
    BY <1>5 DEF Created
  <2>2. c \in Tickets /\ ~ Exists(store, c)
    BY <1>1, FreshIsNext
  <2>3. CASE u = c
    <3>1. store'.spec[u] = NewSpec(n, p)
      BY <1>1, <2>1, <2>2, <2>3 DEF Put, RoutingDatabases
    <3>2. /\ store'.spec[u].node = n /\ store'.spec[u].parent = p /\ store'.spec[u].kind = "make"
          /\ store'.spec[u].retries = 0 /\ store'.spec[u].excluded = {}
      BY <3>1 DEF NewSpec
    <3>3. p # NoTicket => store'.spec[p].node \in Upstream[n]
      BY <2>1, PayloadKept
    <3>4. IsCreation(u)'
      BY <3>2, <3>3 DEF IsCreation, KindOf, NodeOf
    <3> QED BY <3>4 DEF LinkFine
  <2>4. CASE u # c
    <3>1. store'.status[u] = store.status[u]
      BY <1>1, <2>1, <2>4 DEF Put, RoutingDatabases
    <3> QED BY <1>3, <1>5, <3>1
  <2> QED BY <2>3, <2>4
<1>6. CASE ~ Exists(store, u) /\ Turned
  <2>1. PICK t \in Tickets, s \in RoutingStatuses, w \in Workers, v \in Verdicts :
          Turn(store, store', t, s, w, v) /\ Happens(t, s, w, v)
    BY <1>6 DEF Turned
  <2>2. Exists(store, t)
    BY <1>1, <2>1, HappensSides, RoutingFields, TicketNumbers DEF StoreFine, Shows
  <2>3. store'.status[u] = store.status[u]
    BY <1>1, <1>6, <2>1, <2>2 DEF Turn, RoutingDatabases
  <2> QED BY <1>3, <1>6, <2>3
<1>7. CASE ~ Exists(store, u) /\ Followed
  <2>1. PICK t \in Tickets, s \in RoutingStatuses, w \in Workers, v \in Verdicts,
             mid \in RoutingDatabases : \E c \in FreshIds(mid), sp \in RoutingSpecs :
          /\ Turn(store, mid, t, s, w, v) /\ Happens(t, s, w, v)
          /\ Put(mid, store', c, sp) /\ FollowedBy(t, s, w, v, sp)
    BY <1>7 DEF Followed
  <2>2. PICK c \in FreshIds(mid), sp \in RoutingSpecs :
          /\ Turn(store, mid, t, s, w, v) /\ Happens(t, s, w, v)
          /\ Put(mid, store', c, sp) /\ FollowedBy(t, s, w, v, sp)
    BY <2>1
  <2>3. CASE u = c
    BY <2>2, <2>3, FollowedLink
  <2>4. CASE u # c
    <3>1. Exists(store, t)
      BY <1>1, <2>2, HappensSides, RoutingFields, TicketNumbers DEF StoreFine, Shows
    <3>2. store'.status[u] = store.status[u]
      <4>1. c \in Tickets /\ t # u
        BY <1>1, <1>7, <2>2, <3>1, HappensFine, FreshIsNext
      <4>2. mid.status[u] = store.status[u]
        BY <1>1, <2>1, <2>2, <4>1, TurnIs
      <4>3. store'.status[u] = mid.status[u]
        BY <2>1, <2>2, <2>4, <4>1, PutIs
      <4> QED BY <4>2, <4>3
    <3> QED BY <1>3, <1>7, <3>2
  <2> QED BY <2>3, <2>4
<1> QED BY <1>2, <1>4, <1>5, <1>6, <1>7 DEF StoreStep

(* In every behaviour.                                                     *)
LEMMA LinkAlways == Spec => []LinkInv
<1>1. Init => LinkInv
  <2> SUFFICES ASSUME Init, NEW u \in Tickets PROVE LinkFine(u)
    BY DEF LinkInv
  <2>1. store.status[u] = "NONE"
    BY DEF Init
  <2> QED BY <2>1 DEF LinkFine, Exists
<1>2. RouteInv /\ CycleFacts /\ CycleFacts' /\ LinkInv /\ [Next]_vars => LinkInv'
  BY StepKinds, LinkStep DEF RouteInv
<1> QED BY <1>1, <1>2, RouteAlways, CycleIs, PTL DEF Spec

-----------------------------------------------------------------------------
(* The fix loop.                                                           *)

(* Whoever made what was refused on the way to a ticket is excluded from   *)
(* it: a fix says so in its payload, a check in that of what it checks.    *)
ExcludedFrom(u) ==
  LET m == store.spec[u].maker
  IN IF KindOf(u) = "check"
     THEN store.spec[m].excluded \cup (IF Refused(u) THEN {store.worker[m]} ELSE {})
     ELSE store.spec[u].excluded

(* The makers refused on the way to a ticket, along its parents.           *)
LEMMA RefusedAlong ==
  ASSUME LineageFacts, NEW u \in Tickets, NEW p \in Tickets \cup {NoTicket},
         p = store.spec[u].parent
  PROVE  RefusedMakers(u) =
           (IF KindOf(u) = "check" /\ Refused(u) THEN {store.worker[store.spec[u].maker]} ELSE {})
           \cup (IF p # NoTicket /\ NodeOf(store, p) = NodeOf(store, u)
                 THEN RefusedMakers(p) ELSE {})
<1>1. Lineage(store, u) = {u} \cup
        (IF p # NoTicket /\ NodeOf(store, p) = NodeOf(store, u) THEN Lineage(store, p) ELSE {})
  BY DEF LineageFacts
<1>2. CASE p # NoTicket /\ NodeOf(store, p) = NodeOf(store, u)
  <2>1. Lineage(store, u) = {u} \cup Lineage(store, p)
    BY <1>1, <1>2
  <2> QED BY <1>2, <2>1 DEF RefusedMakers
<1>3. CASE ~ (p # NoTicket /\ NodeOf(store, p) = NodeOf(store, u))
  <2>1. Lineage(store, u) = {u}
    BY <1>1, <1>3
  <2> QED BY <1>3, <2>1 DEF RefusedMakers
<1> QED BY <1>2, <1>3

(* They are the excluded, where no ticket is asked for as the follow-up of *)
(* one on its own node.                                                    *)
LEMMA RefusedAreExcluded ==
  ASSUME RouteInv, LineageFacts, LinkInv, \A n \in Nodes : n \notin Upstream[n],
         NEW t \in Tickets, Exists(store, t)
  PROVE  RefusedMakers(t) = ExcludedFrom(t)
<1> DEFINE G == {u \in Tickets : Exists(store, u) => RefusedMakers(u) = ExcludedFrom(u)}
<1>1. ASSUME NEW u \in Tickets, \A x \in Tickets : x < u => x \in G PROVE u \in G
  <2> SUFFICES ASSUME Exists(store, u) PROVE RefusedMakers(u) = ExcludedFrom(u)
    OBVIOUS
  <2>1. PICK p \in Tickets \cup {NoTicket} : p = store.spec[u].parent
    BY ParentBefore DEF RouteInv
  <2>2. p # NoTicket => p \in Tickets /\ RefusedMakers(p) = ExcludedFrom(p)
    BY <1>1, <2>1, ParentBefore DEF RouteInv
  <2>3. store.spec[u].node \in Nodes
    BY RoutingFields DEF RouteInv, RowsInv, StoreFine
  <2>4. \/ IsCreation(u)
        \/ /\ p # NoTicket
           /\ IsRetry(u, p) \/ IsCheckOf(u, p) \/ IsFixOf(u, p)
    <3>1. LinkFine(u)
      BY DEF LinkInv
    <3>2. CASE IsCreation(u)
      BY <3>2
    <3>3. CASE ~ IsCreation(u)
      <4>1. PICK q \in Tickets : /\ store.spec[u].parent = q
                                 /\ IsRetry(u, q) \/ IsCheckOf(u, q) \/ IsFixOf(u, q)
        BY <3>1, <3>3 DEF LinkFine
      <4>2. q = p /\ p # NoTicket
        BY <2>1, <4>1, TicketNumbers
      <4> QED BY <4>1, <4>2
    <3> QED BY <3>2, <3>3
  <2> DEFINE own == IF KindOf(u) = "check" /\ Refused(u)
                    THEN {store.worker[store.spec[u].maker]} ELSE {}
  <2>9. p # NoTicket /\ NodeOf(store, p) = NodeOf(store, u) =>
           RefusedMakers(u) = own \cup RefusedMakers(p)
    BY <2>1, RefusedAlong
  <2>10. KindOf(u) # "check" => own = {}
    OBVIOUS
  <2> HIDE DEF own
  <2>5. CASE IsCreation(u)
    <3>1. p # NoTicket => NodeOf(store, p) # NodeOf(store, u)
      BY <2>1, <2>3, <2>5 DEF IsCreation, NodeOf
    <3>2. KindOf(u) = "make" /\ store.spec[u].excluded = {}
      BY <2>5 DEF IsCreation
    <3>3. RefusedMakers(u) = {}
      BY <2>1, <3>1, <3>2, RefusedAlong
    <3> QED BY <3>2, <3>3 DEF ExcludedFrom
  <2>6. CASE p # NoTicket /\ IsRetry(u, p)
    <3>1. NodeOf(store, p) = NodeOf(store, u) /\ ~ Refused(p)
      BY <2>6 DEF IsRetry, NodeOf, Refused
    <3>2. CASE KindOf(u) = "check"
      <4>1. RefusedMakers(p) = store.spec[store.spec[u].maker].excluded
        BY <2>2, <2>6, <3>1, <3>2 DEF ExcludedFrom, IsRetry, KindOf
      <4> QED BY <2>1, <2>6, <3>1, <3>2, <4>1, RefusedAlong DEF ExcludedFrom
    <3>3. CASE KindOf(u) # "check"
      <4>1. RefusedMakers(p) = store.spec[u].excluded
        BY <2>2, <2>6, <3>3 DEF ExcludedFrom, IsRetry, KindOf
      <4>2. RefusedMakers(u) = RefusedMakers(p)
        BY <2>6, <2>9, <2>10, <3>1, <3>3
      <4> QED BY <3>3, <4>1, <4>2 DEF ExcludedFrom
    <3> QED BY <3>2, <3>3
  <2>7. CASE p # NoTicket /\ IsCheckOf(u, p)
    <3>1. NodeOf(store, p) = NodeOf(store, u) /\ KindOf(u) = "check" /\ store.spec[u].maker = p
      BY <2>7 DEF IsCheckOf, NodeOf, KindOf
    <3>2. RefusedMakers(p) = store.spec[p].excluded
      BY <2>2, <2>7 DEF ExcludedFrom, IsCheckOf
    <3> QED BY <2>1, <2>7, <3>1, <3>2, RefusedAlong DEF ExcludedFrom
  <2>8. CASE p # NoTicket /\ IsFixOf(u, p)
    <3>1. NodeOf(store, p) = NodeOf(store, u) /\ KindOf(u) = "fix"
      BY <2>8 DEF IsFixOf, NodeOf, KindOf
    <3>2. RefusedMakers(p) = store.spec[u].excluded
      BY <2>2, <2>8 DEF ExcludedFrom, IsFixOf
    <3>3. RefusedMakers(u) = RefusedMakers(p)
      BY <2>8, <2>9, <2>10, <3>1
    <3> QED BY <3>1, <3>2, <3>3 DEF ExcludedFrom
  <2> QED BY <2>4, <2>5, <2>6, <2>7, <2>8
<1> HIDE DEF G
<1>2. Tickets \subseteq G
  BY <1>1, TicketsUpTo
<1> QED BY <1>2 DEF G

(* In every behaviour a fix goes to none of the makers whose work was      *)
(* refused on the way to it unless nobody else is free: what is handed on  *)
(* from payload to payload, through checks and retried attempts, is all    *)
(* of them and nobody else.  A ticket asked for as the follow-up of one on *)
(* its own node starts with a payload that excludes nobody.                *)
THEOREM FixesGetFreshEyes ==
  ASSUME \A n \in Nodes : n \notin Upstream[n]
  PROVE  Spec => FreshEyes
<1>1. ASSUME RouteInv, LineageFacts, LinkInv, [Next]_vars, NEW t \in Tickets,
             KindOf(t) = "fix", store.status[t] = "PENDING", store'.status[t] = "EXECUTING"
      PROVE  store'.worker[t] \notin RefusedMakers(t) \/ Free(t) \subseteq RefusedMakers(t)
  <2>1. StoreStep
    BY <1>1, StepKinds DEF RouteInv
  <2>2. TurnedTo(t)
    BY <1>1, <2>1, TicketSees DEF SameTicketAs, NewTicket
  <2>3. PICK w \in Workers, v \in Verdicts :
          Happens(t, "EXECUTING", w, v) /\ store'.worker[t] = w
    BY <1>1, <2>2 DEF TurnedTo
  <2>4. w \in OpenTo(t)
    BY <1>1, <2>3 DEF Happens, Starts, Breaks, IsCancelled, IsMade, IsAccepted,
                      IsUnjudged, IsRefused, AsksBoard, IsDecided
  <2>5. RefusedMakers(t) = store.spec[t].excluded
    BY <1>1, RefusedAreExcluded DEF ExcludedFrom, Exists
  <2> QED BY <1>1, <2>3, <2>4, <2>5 DEF OpenTo
<1>2. RouteInv /\ LineageFacts /\ LinkInv /\ [Next]_vars =>
        [\A t \in Tickets :
           /\ KindOf(t) = "fix"
           /\ store.status[t] = "PENDING" /\ store'.status[t] = "EXECUTING"
           => \/ store'.worker[t] \notin RefusedMakers(t)
              \/ Free(t) \subseteq RefusedMakers(t)]_vars
  BY <1>1
<1> QED BY <1>2, RouteAlways, LineageIs, LinkAlways, PTL DEF Spec, FreshEyes

(* The fixes on the way to a ticket, each counted once however often its   *)
(* attempts are retried.                                                   *)
Fixes(u) == {x \in Lineage(store, u) : KindOf(x) = "fix" /\ store.spec[x].retries = 0}

(* They are at most those the cycle has counted.                           *)
LEMMA FixesAlong ==
  ASSUME LineageFacts, NEW u \in Tickets, NEW p \in Tickets \cup {NoTicket},
         p = store.spec[u].parent, p # NoTicket => p < u
  PROVE  /\ IsFiniteSet(Fixes(u)) /\ Cardinality(Fixes(u)) \in Nat
         /\ LET here == p # NoTicket /\ NodeOf(store, p) = NodeOf(store, u)
                own  == KindOf(u) = "fix" /\ store.spec[u].retries = 0
            IN Cardinality(Fixes(u)) =
                 (IF here THEN Cardinality(Fixes(p)) ELSE 0) + (IF own THEN 1 ELSE 0)
<1> DEFINE here == p # NoTicket /\ NodeOf(store, p) = NodeOf(store, u)
           own  == KindOf(u) = "fix" /\ store.spec[u].retries = 0
           rest == IF here THEN Fixes(p) ELSE {}
<1>1. /\ Lineage(store, u) = {u} \cup (IF here THEN Lineage(store, p) ELSE {})
      /\ \A x \in Tickets : Lineage(store, x) \subseteq 1 .. x
  BY DEF LineageFacts
<1>2. \A x \in Tickets : x \in Nat
  BY TicketNumbers
<1>3. \A x \in Tickets : IsFiniteSet(Fixes(x)) /\ Cardinality(Fixes(x)) \in Nat
  <2> SUFFICES ASSUME NEW x \in Tickets
               PROVE  IsFiniteSet(Fixes(x)) /\ Cardinality(Fixes(x)) \in Nat
    OBVIOUS
  <2>1. IsFiniteSet(1 .. x) /\ Fixes(x) \subseteq 1 .. x
    BY <1>1, <1>2, FS_Interval DEF Fixes
  <2> QED BY <2>1, FS_Subset, FS_CardinalityType
<1>4. Fixes(u) = rest \cup (IF own THEN {u} ELSE {})
  BY <1>1 DEF Fixes
<1>5. IsFiniteSet(rest) /\ Cardinality(rest) = IF here THEN Cardinality(Fixes(p)) ELSE 0
  <2>1. CASE here
    BY <1>3, <2>1
  <2>2. CASE ~ here
    BY <2>2, FS_EmptySet
  <2> QED BY <2>1, <2>2
<1>6. u \notin rest
  <2>1. CASE here
    <3>1. p \in Tickets /\ p < u /\ p \in Nat /\ u \in Nat
      BY <1>2, <2>1
    <3>2. Fixes(p) \subseteq 1 .. p
      BY <1>1, <3>1 DEF Fixes
    <3> QED BY <2>1, <3>1, <3>2
  <2> QED BY <2>1
<1> HIDE DEF rest, own, here
<1>7. Cardinality(Fixes(u)) = Cardinality(rest) + (IF own THEN 1 ELSE 0)
  <2>1. CASE own
    <3>1. Fixes(u) = rest \cup {u}
      BY <1>4, <2>1
    <3>2. Cardinality(rest \cup {u}) = Cardinality(rest) + 1
      BY <1>5, <1>6, FS_AddElement
    <3> QED BY <2>1, <3>1, <3>2
  <2>2. CASE ~ own
    <3>1. Cardinality(rest) \in Nat /\ Fixes(u) = rest
      BY <1>4, <1>5, <2>2, FS_CardinalityType
    <3> QED BY <2>2, <3>1
  <2> QED BY <2>1, <2>2
<1> QED BY <1>3, <1>5, <1>7 DEF own, here

(* The cycle counts at least the fixes on the node.                        *)
LEMMA FixesCounted ==
  ASSUME RouteInv, LineageFacts, CycleFacts, NEW t \in Tickets
  PROVE  Cardinality(Fixes(t)) + 1 <= ReworkCycle(t) + (IF KindOf(t) = "fix" THEN 1 ELSE 0)
<1> DEFINE fix(u) == IF KindOf(u) = "fix" THEN 1 ELSE 0
           G == {u \in Tickets : Cardinality(Fixes(u)) + 1 <= ReworkCycle(u) + fix(u)}
<1>1. ASSUME NEW u \in Tickets, \A x \in Tickets : x < u => x \in G PROVE u \in G
  <2>1. PICK p \in Tickets \cup {NoTicket} : p = store.spec[u].parent
    BY ParentBefore DEF RouteInv
  <2>2. p # NoTicket => p \in Tickets /\ p < u
    BY <2>1, ParentBefore DEF RouteInv
  <2>3. p # NoTicket => Cardinality(Fixes(p)) + 1 <= ReworkCycle(p) + fix(p)
    BY <1>1, <2>2
  <2>4. /\ ReworkCycle(u) \in Nat \ {0}
        /\ ReworkCycle(u) = IF p = NoTicket THEN 1 ELSE ReworkCycle(p) + fix(p)
    BY <2>1 DEF CycleFacts
  <2> DEFINE here == p # NoTicket /\ NodeOf(store, p) = NodeOf(store, u)
             own  == KindOf(u) = "fix" /\ store.spec[u].retries = 0
  <2>5. /\ Cardinality(Fixes(u)) \in Nat
        /\ Cardinality(Fixes(u)) =
             (IF here THEN Cardinality(Fixes(p)) ELSE 0) + (IF own THEN 1 ELSE 0)
    BY <2>1, <2>2, FixesAlong
  <2>6. own => fix(u) = 1
    OBVIOUS
  <2>7. fix(u) \in Nat
    OBVIOUS
  <2> HIDE DEF fix, own
  <2>8. Cardinality(Fixes(u)) + 1 <= ReworkCycle(u) + fix(u)
    <3>1. CASE here
      <4>1. /\ ReworkCycle(u) = ReworkCycle(p) + fix(p)
            /\ Cardinality(Fixes(p)) + 1 <= ReworkCycle(u)
            /\ Cardinality(Fixes(u)) = Cardinality(Fixes(p)) + (IF own THEN 1 ELSE 0)
        BY <2>3, <2>4, <2>5, <3>1
      <4>2. p \in Tickets
        BY <2>2, <3>1
      <4>3. Cardinality(Fixes(p)) \in Nat
        <5>1. PICK q \in Tickets \cup {NoTicket} : q = store.spec[p].parent
          BY <4>2, ParentBefore DEF RouteInv
        <5> QED BY <4>2, <5>1, ParentBefore, FixesAlong DEF RouteInv
      <4> QED BY <2>4, <2>6, <2>7, <4>1, <4>3
    <3>2. CASE ~ here
      BY <2>4, <2>5, <2>6, <2>7, <3>2
    <3> QED BY <3>1, <3>2
  <2> QED BY <2>8
<1> HIDE DEF G
<1>2. Tickets \subseteq G
  BY <1>1, TicketsUpTo
<1> QED BY <1>2 DEF G

(* In every behaviour under autopilot the fixes on the way to a ticket of  *)
(* an internal review are fewer than the threshold, however often their    *)
(* attempts are retried and checkers answer: the check that reaches the    *)
(* threshold is accepted in the checker's name.                            *)
THEOREM FixLoopEnds == Spec => []ReworkBounded
<1>1. RouteInv /\ LineageFacts /\ CycleFacts /\ LinkInv => ReworkBounded
  <2> SUFFICES ASSUME RouteInv, LineageFacts, CycleFacts, LinkInv, Autopilot PROVE ReworkBounded
    BY DEF ReworkBounded
  <2> DEFINE Bound(u) == Exists(store, u) /\ ReviewOn(u) = "INTERNAL"
                           => Cardinality(Fixes(u)) < ReworkThreshold
             G == {u \in Tickets : Bound(u)}
  <2>1. ASSUME NEW u \in Tickets, \A x \in Tickets : x < u => x \in G PROVE u \in G
    <3> SUFFICES ASSUME Exists(store, u), ReviewOn(u) = "INTERNAL"
                 PROVE  Cardinality(Fixes(u)) < ReworkThreshold
      OBVIOUS
    <3>1. PICK p \in Tickets \cup {NoTicket} : p = store.spec[u].parent
      BY ParentBefore DEF RouteInv
    <3>2. p # NoTicket => p \in Tickets /\ p < u /\ Exists(store, p)
      BY <3>1, ParentBefore DEF RouteInv
    <3> DEFINE here == p # NoTicket /\ NodeOf(store, p) = NodeOf(store, u)
               own  == KindOf(u) = "fix" /\ store.spec[u].retries = 0
    <3>3. /\ Cardinality(Fixes(u)) \in Nat
          /\ Cardinality(Fixes(u)) =
               (IF here THEN Cardinality(Fixes(p)) ELSE 0) + (IF own THEN 1 ELSE 0)
      BY <3>1, <3>2, FixesAlong
    <3>4. here => Cardinality(Fixes(p)) < ReworkThreshold
      BY <2>1, <3>2 DEF ReviewOn
    <3>5. ReworkThreshold \in Nat \ {0}
      BY RoutingAssumption
    <3>6. CASE ~ own
      <4>1. here => Cardinality(Fixes(u)) = Cardinality(Fixes(p))
        <5>1. here => Cardinality(Fixes(p)) \in Nat
          <6> SUFFICES ASSUME here PROVE Cardinality(Fixes(p)) \in Nat
            OBVIOUS
          <6>1. PICK q \in Tickets \cup {NoTicket} : q = store.spec[p].parent
            BY <3>2, ParentBefore DEF RouteInv
          <6> QED BY <3>2, <6>1, ParentBefore, FixesAlong DEF RouteInv
        <5> QED BY <3>3, <3>6, <5>1
      <4> QED BY <3>3, <3>4, <3>5, <3>6, <4>1
    <3>7. CASE own
      <4>1. p # NoTicket /\ IsFixOf(u, p)
        <5>1. LinkFine(u)
          BY DEF LinkInv
        <5>2. ~ IsCreation(u)
          BY <3>7 DEF IsCreation
        <5>3. PICK q \in Tickets : /\ store.spec[u].parent = q
                                   /\ IsRetry(u, q) \/ IsCheckOf(u, q) \/ IsFixOf(u, q)
          BY <5>1, <5>2 DEF LinkFine
        <5>4. q = p /\ p # NoTicket
          BY <3>1, <5>3, TicketNumbers
        <5> QED BY <3>7, <5>3, <5>4 DEF IsRetry, IsCheckOf, KindOf
      <4>2. ReviewOn(p) = "INTERNAL"
        BY <3>7, <4>1 DEF IsFixOf, ReviewOn, NodeOf
      <4>3. /\ ReworkCycle(p) \in Nat /\ ReworkCycle(p) < ReworkThreshold
            /\ ReworkCycle(u) = ReworkCycle(p)
        <5>1. ~ (ReworkCycle(p) >= ReworkThreshold) /\ KindOf(p) = "check"
          BY <4>1, <4>2 DEF IsFixOf, Converges
        <5>2. ReworkCycle(p) \in Nat /\ ReworkCycle(u) \in Nat
          BY <3>2, <4>1 DEF CycleFacts
        <5>3. ReworkCycle(u) = ReworkCycle(p) + (IF KindOf(p) = "fix" THEN 1 ELSE 0)
          BY <3>1, <4>1 DEF CycleFacts
        <5> QED BY <3>5, <5>1, <5>2, <5>3
      <4>4. Cardinality(Fixes(u)) + 1 <= ReworkCycle(u) + 1
        BY <3>7, FixesCounted
      <4> QED BY <3>3, <3>5, <4>3, <4>4
    <3> QED BY <3>6, <3>7
  <2> HIDE DEF G
  <2>2. Tickets \subseteq G
    BY <2>1, TicketsUpTo
  <2> QED BY <2>2 DEF G, ReworkBounded, Fixes
<1> QED BY <1>1, RouteAlways, LineageIs, CycleIs, LinkAlways, PTL

(* The parent of a ticket and that of its parent; whether the check that   *)
(* refused a fix was the first to look at another fix for the same finding. *)
Before(u) == store.spec[u].parent
SecondBefore(u) == store.spec[Before(u)].parent

Repeats(u) ==
  /\ store.spec[Before(u)].retries = 0 /\ KindOf(SecondBefore(u)) = "fix"
  /\ store.spec[SecondBefore(u)].finding = store.spec[u].finding

(* The row of a fix is that of the attempt before it, and one more where   *)
(* the finding came back.                                                  *)
RowFacts ==
  \A u \in Tickets :
    /\ FixRow(u) \in Nat
    /\ KindOf(u) = "fix" =>
         FixRow(u) = IF KindOf(Before(u)) = "fix" THEN FixRow(Before(u))
                     ELSE IF Repeats(u) THEN 1 + FixRow(SecondBefore(u)) ELSE 1

(* What comes before a fix: the attempt it retries, or the check that      *)
(* refused and what that check checked.                                    *)
LEMMA FixBefore ==
  ASSUME RouteInv, LinkInv, NEW u \in Tickets, KindOf(u) = "fix"
  PROVE  /\ Exists(store, u) /\ Before(u) \in Tickets /\ Before(u) < u
         /\ Exists(store, Before(u))
         /\ \/ KindOf(Before(u)) = "fix" /\ IsRetry(u, Before(u))
            \/ /\ KindOf(Before(u)) = "check" /\ IsFixOf(u, Before(u))
               /\ SecondBefore(u) \in Tickets /\ SecondBefore(u) < u
               /\ Exists(store, SecondBefore(u))
<1>1. RowsInv
  BY DEF RouteInv
<1>2. Exists(store, u)
  BY <1>1 DEF RowsInv, StoreFine, TicketFine, KindOf
<1>3. PICK p \in Tickets : /\ store.spec[u].parent = p
                           /\ IsRetry(u, p) \/ IsFixOf(u, p)
  BY <1>2 DEF LinkInv, LinkFine, IsCreation, IsCheckOf, KindOf
<1>4. Before(u) = p /\ p < u /\ Exists(store, p) /\ SecondBefore(u) = store.spec[p].parent
  BY <1>1, <1>3, ParentBefore, TicketNumbers DEF Before, SecondBefore
<1>5. CASE IsRetry(u, p)
  BY <1>2, <1>4, <1>5 DEF IsRetry, KindOf
<1>6. CASE IsFixOf(u, p)
  <2>1. KindOf(p) = "check"
    BY <1>6 DEF IsFixOf
  <2>2. store.spec[p].parent # NoTicket
    BY <1>1, <2>1 DEF RowsInv, StoreFine, RefersFine, KindOf
  <2>3. PICK m \in Tickets : m = store.spec[p].parent /\ m < p /\ Exists(store, m)
    BY <1>1, <2>2, ParentBefore
  <2>4. m < u
    BY <1>4, <2>3, TicketNumbers
  <2> QED BY <1>2, <1>4, <1>6, <2>1, <2>3, <2>4
<1> QED BY <1>3, <1>5, <1>6

(* So the row is well defined.                                             *)
LEMMA RowIs == RouteInv /\ LinkInv => RowFacts
<1> SUFFICES ASSUME RouteInv, LinkInv PROVE RowFacts
  OBVIOUS
<1> DEFINE retried(u) == KindOf(Before(u)) = "fix"
           ends == {u \in Tickets : ~ (KindOf(u) = "fix" /\ (retried(u) \/ Repeats(u)))}
           before == [u \in Tickets |-> IF retried(u) THEN Before(u) ELSE SecondBefore(u)]
           base == [u \in Tickets |-> IF KindOf(u) = "fix" THEN 1 ELSE 0]
           step == [u \in Tickets |-> [x \in Nat |-> IF retried(u) THEN x ELSE 1 + x]]
<1>1. \A u \in Tickets \ ends : before[u] \in Tickets /\ before[u] < u
  <2> SUFFICES ASSUME NEW u \in Tickets, KindOf(u) = "fix"
               PROVE  before[u] \in Tickets /\ before[u] < u
    OBVIOUS
  <2>1. CASE retried(u)
    BY <2>1, FixBefore
  <2>2. CASE ~ retried(u)
    BY <2>2, FixBefore
  <2> QED BY <2>1, <2>2
<1>2. \A u \in Tickets : base[u] \in Nat /\ \A x \in Nat : step[u][x] \in Nat
  OBVIOUS
<1>3. \A u \in Tickets, x \in Nat : step[u][x] = IF retried(u) THEN x ELSE 1 + x
  OBVIOUS
<1> HIDE DEF step, ends, before, base
<1>4. Chained(Tickets, Nat, ends, before, base, step)
  BY <1>1, <1>2 DEF Chained
<1>5. PICK f \in [Tickets -> Nat] : Computes(f, Tickets, ends, before, base, step)
  BY <1>4, TicketChain
<1> HIDE DEF retried
<1>6. ASSUME NEW u \in Tickets
      PROVE  f[u] = IF KindOf(u) # "fix" THEN 0
                    ELSE IF retried(u) THEN f[Before(u)]
                    ELSE IF Repeats(u) THEN 1 + f[SecondBefore(u)] ELSE 1
  <2>1. CASE u \in ends
    BY <1>5, <2>1 DEF ends, base, Computes
  <2>2. CASE u \notin ends
    <3>1. f[before[u]] \in Nat
      BY <1>1, <1>5, <2>2
    <3>2. f[u] = IF retried(u) THEN f[before[u]] ELSE 1 + f[before[u]]
      BY <1>3, <1>5, <2>2, <3>1 DEF Computes
    <3> QED BY <2>2, <3>2 DEF ends, before
  <2> QED BY <2>1, <2>2
<1> DEFINE Fits(row) == row = [u \in Tickets |->
             LET c == store.spec[u].parent
                 m == store.spec[c].parent
             IN IF KindOf(u) # "fix" THEN 0
                ELSE IF KindOf(c) = "fix" THEN row[c]
                ELSE IF /\ store.spec[c].retries = 0 /\ KindOf(m) = "fix"
                        /\ store.spec[m].finding = store.spec[u].finding
                     THEN 1 + row[m] ELSE 1]
           row == CHOOSE row : Fits(row)
<1>7. Fits(f)
  BY <1>5, <1>6 DEF retried, Repeats, Before, SecondBefore
<1>8. Fits(row)
  <2> HIDE DEF Fits
  <2> QED BY <1>7, Zenon
<1>9. \A t : FixRow(t) = row[t]
  BY Zenon DEF FixRow
<1> HIDE DEF row
<1>10. row = [u \in Tickets |-> IF KindOf(u) # "fix" THEN 0
                                ELSE IF retried(u) THEN row[Before(u)]
                                ELSE IF Repeats(u) THEN 1 + row[SecondBefore(u)] ELSE 1]
  BY <1>8 DEF retried, Repeats, Before, SecondBefore
<1> HIDE DEF Fits
<1>11. Tickets \subseteq {u \in Tickets : row[u] \in Nat}
  <2> DEFINE G == {u \in Tickets : row[u] \in Nat}
  <2>1. ASSUME NEW u \in Tickets, \A x \in Tickets : x < u => x \in G PROVE u \in G
    <3>1. CASE KindOf(u) # "fix"
      BY <1>10, <3>1
    <3>2. CASE KindOf(u) = "fix" /\ retried(u)
      <4>1. row[Before(u)] \in Nat
        BY <2>1, <3>2, FixBefore
      <4> QED BY <1>10, <3>2, <4>1
    <3>3. CASE KindOf(u) = "fix" /\ ~ retried(u)
      <4>1. row[SecondBefore(u)] \in Nat
        BY <2>1, <3>3, FixBefore DEF retried
      <4> QED BY <1>10, <3>3, <4>1
    <3> QED BY <3>1, <3>2, <3>3
  <2> HIDE DEF G
  <2>2. Tickets \subseteq G
    BY <2>1, TicketsUpTo
  <2> QED BY <2>2 DEF G
<1>12. ASSUME NEW u \in Tickets, KindOf(u) = "fix"
       PROVE  row[u] = IF retried(u) THEN row[Before(u)]
                       ELSE IF Repeats(u) THEN 1 + row[SecondBefore(u)] ELSE 1
  BY <1>10, <1>12
<1> QED BY <1>9, <1>11, <1>12 DEF RowFacts, retried

(* The count a payload hands on is never behind the row it stands for.     *)
LEMMA RowCounted ==
  ASSUME RouteInv, LinkInv, RowFacts, EscalatesRepeats,
         NEW u \in Tickets, KindOf(u) = "fix"
  PROVE  FixRow(u) <= store.spec[u].streak /\ store.spec[u].streak < ReworkThreshold
<1> DEFINE Counted(x) == /\ FixRow(x) <= store.spec[x].streak
                         /\ store.spec[x].streak < ReworkThreshold
           G == {x \in Tickets : KindOf(x) = "fix" => Counted(x)}
<1>1. ASSUME NEW x \in Tickets, \A y \in Tickets : y < x => y \in G PROVE x \in G
  <2> SUFFICES ASSUME KindOf(x) = "fix" PROVE Counted(x)
    OBVIOUS
  <2>1. CASE KindOf(Before(x)) = "fix"
    <3>1. IsRetry(x, Before(x)) /\ Counted(Before(x))
      BY <1>1, <2>1, FixBefore
    <3>2. FixRow(x) = FixRow(Before(x))
      BY <2>1 DEF RowFacts
    <3> QED BY <3>1, <3>2 DEF IsRetry
  <2>2. CASE KindOf(Before(x)) # "fix"
    <3>1. PICK f : f = store.spec[x].finding
      OBVIOUS
    <3>2. /\ store.spec[x].streak = ReworkStreak(Before(x), f)
          /\ ~ Escalates(Before(x), f)
          /\ SecondBefore(x) \in Tickets /\ SecondBefore(x) < x
      BY <2>2, <3>1, FixBefore DEF IsFixOf
    <3>3. \A y \in Tickets : store.spec[y].streak \in Nat
      BY RoutingFields DEF RouteInv, RowsInv, StoreFine, RoutingSpecs
    <3>4. ReworkStreak(Before(x), f) =
            IF KindOf(SecondBefore(x)) = "fix" /\ store.spec[SecondBefore(x)].finding = f
            THEN store.spec[SecondBefore(x)].streak + 1 ELSE 1
      BY <3>2, TicketNumbers DEF ReworkStreak, SecondBefore
    <3>5. store.spec[x].streak < ReworkThreshold
      BY <3>2, <3>3, RoutingAssumption DEF Escalates
    <3>6. FixRow(x) = IF Repeats(x) THEN 1 + FixRow(SecondBefore(x)) ELSE 1
      BY <2>2 DEF RowFacts
    <3>7. CASE Repeats(x)
      <4>1. KindOf(SecondBefore(x)) = "fix" /\ store.spec[SecondBefore(x)].finding = f
        BY <3>1, <3>7 DEF Repeats
      <4>2. FixRow(SecondBefore(x)) <= store.spec[SecondBefore(x)].streak
        BY <1>1, <3>2, <4>1
      <4>3. FixRow(SecondBefore(x)) \in Nat /\ store.spec[SecondBefore(x)].streak \in Nat
        BY <3>2, <3>3 DEF RowFacts
      <4>4. /\ store.spec[x].streak = store.spec[SecondBefore(x)].streak + 1
            /\ FixRow(x) = 1 + FixRow(SecondBefore(x))
        BY <3>2, <3>4, <3>6, <3>7, <4>1
      <4> QED BY <3>5, <4>2, <4>3, <4>4
    <3>8. CASE ~ Repeats(x)
      <4>1. FixRow(x) = 1
        BY <3>6, <3>8
      <4>2. store.spec[SecondBefore(x)].streak \in Nat
        BY <3>2, <3>3
      <4>3. 1 <= store.spec[x].streak
        BY <3>2, <3>4, <4>2
      <4> QED BY <3>5, <4>1, <4>3
    <3> QED BY <3>7, <3>8
  <2> QED BY <2>1, <2>2
<1> HIDE DEF G
<1>2. u \in G
  BY <1>1, TicketsUpTo
<1> QED BY <1>2 DEF G

(* In every behaviour where repeats escalate, fewer fixes in a row than    *)
(* the threshold are each refused again for the finding they were to mend, *)
(* although the count is only handed on from one payload to the next.      *)
THEOREM RepeatsEnd == Spec => []RepeatsEscalate
<1>1. RouteInv /\ LinkInv /\ RowFacts => RepeatsEscalate
  <2> SUFFICES ASSUME RouteInv, LinkInv, RowFacts, EscalatesRepeats,
                      NEW t \in Tickets, KindOf(t) = "fix"
               PROVE  FixRow(t) < ReworkThreshold
    BY DEF RepeatsEscalate
  <2>1. FixRow(t) \in Nat /\ store.spec[t].streak \in Nat
    BY RoutingFields DEF RowFacts, RouteInv, RowsInv, StoreFine, RoutingSpecs
  <2> QED BY <2>1, RowCounted, RoutingAssumption
<1> QED BY <1>1, RouteAlways, LinkAlways, RowIs, PTL
=============================================================================
