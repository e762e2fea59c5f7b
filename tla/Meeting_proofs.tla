---------------------------- MODULE Meeting_proofs ----------------------------
(***************************************************************************)
(* Proofs about Meeting, for every set of nodes and employees, whatever    *)
(* operators ask for, and every bound.                                     *)
(***************************************************************************)
EXTENDS Meeting, SequenceTheorems, TLAPS

Topics == (Kinds \X (Nodes \cup Nat)) \cup {q.topic : q \in OperatorAsksFor}
Keys == ((Nodes \cup Nat) \X Nat) \cup {NoKey}

Rows ==
  [topic : Topics, key : Keys, recorder : Employees, rounds : Nat,
   status : {"OPEN", "CLOSED", "NO_CONSENSUS"},
   review : {"NONE", "CHECKER_PENDING", "BOARD_REVIEW_PENDING"}, pack : Nat, late : BOOLEAN]
MeetingTickets ==
  [no : Nat, work : {"meeting", "fix", "check"}, linked : BOOLEAN, retries : Nat,
   status : {"COMPLETED", "FAILED", "CANCELLED", "PENDING", "EXECUTING", "CANCEL_REQUESTED"}]
Approvals == [meeting : Nat, linked : BOOLEAN, status : {"OPEN", "RESOLVED"}]
Plans ==
  [source : Nodes \cup Nat, ticket : Nat, topic : Topics, team : SUBSET Employees,
   recorder : Employees]
Runs == [meeting : Nat, ticket : Nat, linked : BOOLEAN, result : {"none", "completed", "failed"}]

(* The types the proofs need; TypeOK adds the bounds.                      *)
RowsTyped ==
  /\ row \in Seq(Rows)
  /\ latest \in Seq(MeetingTickets) /\ Len(latest) = Len(row)
  /\ approval \in Seq(Approvals)
  /\ \A a \in 1 .. Len(approval) : approval[a].meeting \in Meetings
  /\ run \subseteq Runs
  /\ \A r \in run : r.meeting \in Meetings

WorldTyped ==
  /\ source \in [Nodes -> [ticket : Nat, status : {"RUNNING", "FAILED", "WAITING", "REFUSED"}]]
  /\ active \subseteq Employees
  /\ plan = NoPlan \/ plan \in Plans

(* A meeting that is CLOSED went through all its rounds, and no execution  *)
(* that comes late says otherwise.                                         *)
ClosedHadAllRounds == \A m \in Meetings : row[m].status = "CLOSED" => Consensus(m)

(* A ticket that holds the meeting has its context.                        *)
FirstWorkLinked == \A m \in Meetings : latest[m].work = "meeting" => latest[m].linked

(* There is a check, or a fix, only of a consensus.                        *)
LaterWorkIsClosed == \A m \in Meetings : latest[m].work # "meeting" => row[m].status = "CLOSED"

(* An execution is of the latest ticket or of one before it; what it       *)
(* completed is in the row.                                                *)
RunsAgree ==
  \A r \in run :
    /\ r.ticket <= latest[r.meeting].no
    /\ r.ticket = latest[r.meeting].no => r.linked = latest[r.meeting].linked
    /\ r.linked /\ r.result = "completed" => row[r.meeting].status = "CLOSED"

(* Nothing follows the check that asked the board.                         *)
ApprovalIsLast ==
  \A a \in 1 .. Len(approval) :
    LET m == approval[a].meeting
    IN /\ latest[m].work = "check" /\ latest[m].status = "COMPLETED"
       /\ approval[a].linked =>
            row[m].pack = a /\ (row[m].review = "BOARD_REVIEW_PENDING" \/ row[m].late)

BoardInv ==
  /\ ClosedHadAllRounds /\ FirstWorkLinked /\ LaterWorkIsClosed
  /\ RunsAgree /\ ApprovalIsLast

(* The inductive invariant.                                                *)
IInv == RowsTyped /\ WorldTyped /\ OneOpenPerTopic /\ OneMeetingPerSource /\ BoardInv

-----------------------------------------------------------------------------
(* What the rows are, one by one.                                          *)
LEMMA Shape ==
  ASSUME RowsTyped
  PROVE  /\ Len(row) \in Nat /\ Meetings = 1 .. Len(row) /\ Meetings \subseteq Nat
         /\ DOMAIN latest = Meetings
         /\ \A m \in Meetings : row[m] \in Rows /\ latest[m] \in MeetingTickets
         /\ Len(approval) \in Nat
         /\ \A a \in 1 .. Len(approval) : approval[a] \in Approvals
BY DEF RowsTyped, Meetings

(* A new meeting comes last, and the ones before it stay.                  *)
LEMMA OpenedRow ==
  ASSUME RowsTyped, NEW topic \in Topics, NEW key \in Keys, NEW recorder \in Employees,
         NEW rounds \in Nat, Opened(topic, key, recorder, rounds)
  PROVE  LET n == Len(row) + 1
         IN /\ row' \in Seq(Rows) /\ Len(row') = n
            /\ latest' \in Seq(MeetingTickets) /\ Len(latest') = n
            /\ \A m \in Meetings : row'[m] = row[m] /\ latest'[m] = latest[m]
            /\ row'[n] = Row(topic, key, recorder, rounds)
            /\ latest'[n] = Ticket(1, "meeting", TRUE, 0)
            /\ Meetings' = Meetings \cup {n} /\ n \notin Meetings
<1>1. Row(topic, key, recorder, rounds) \in Rows
  BY DEF Row, Rows
<1>2. Ticket(1, "meeting", TRUE, 0) \in MeetingTickets
  BY DEF Ticket, MeetingTickets
<1>3. row \in Seq(Rows) /\ latest \in Seq(MeetingTickets) /\ Len(latest) = Len(row)
  BY DEF RowsTyped
<1>4. Meetings = 1 .. Len(row) /\ Len(row) \in Nat
  BY Shape
<1>5. /\ row' = Append(row, Row(topic, key, recorder, rounds))
      /\ latest' = Append(latest, Ticket(1, "meeting", TRUE, 0))
  BY DEF Opened
<1>6. /\ row' \in Seq(Rows) /\ Len(row') = Len(row) + 1
      /\ \A m \in 1 .. Len(row) : row'[m] = row[m]
      /\ row'[Len(row) + 1] = Row(topic, key, recorder, rounds)
  BY <1>1, <1>3, <1>5, AppendProperties
<1>7. /\ latest' \in Seq(MeetingTickets) /\ Len(latest') = Len(latest) + 1
      /\ \A m \in 1 .. Len(latest) : latest'[m] = latest[m]
      /\ latest'[Len(latest) + 1] = Ticket(1, "meeting", TRUE, 0)
  <2> DEFINE t == Ticket(1, "meeting", TRUE, 0)
  <2>1. t \in MeetingTickets /\ latest \in Seq(MeetingTickets) /\ latest' = Append(latest, t)
    BY <1>2, <1>3, <1>5
  <2> HIDE DEF t
  <2>2. /\ latest' \in Seq(MeetingTickets) /\ Len(latest') = Len(latest) + 1
        /\ \A m \in 1 .. Len(latest) : latest'[m] = latest[m]
        /\ latest'[Len(latest) + 1] = t
    BY <2>1, AppendProperties
  <2> QED BY <2>2 DEF t
<1>8. Meetings' = 1 .. Len(row')
  BY <1>6 DEF Meetings
<1> QED BY <1>3, <1>4, <1>6, <1>7, <1>8

(* The ticket of one meeting changes, and no other.                        *)
LEMMA ReplacedTicket ==
  ASSUME RowsTyped, NEW m \in Meetings, NEW t \in MeetingTickets,
         latest' = [latest EXCEPT ![m] = t]
  PROVE  /\ latest' \in Seq(MeetingTickets) /\ Len(latest') = Len(latest)
         /\ latest'[m] = t
         /\ \A k \in Meetings : k # m => latest'[k] = latest[k]
<1>1. latest \in Seq(MeetingTickets) /\ Len(latest) = Len(row) /\ m \in 1 .. Len(latest)
  BY Shape DEF RowsTyped
<1>2. latest' \in Seq(MeetingTickets) /\ Len(latest') = Len(latest)
  BY <1>1, ExceptSeq
<1> QED BY <1>1, <1>2, Shape

(* So does its row.                                                        *)
LEMMA ReplacedRow ==
  ASSUME RowsTyped, NEW m \in Meetings, NEW r \in Rows, row' = [row EXCEPT ![m] = r]
  PROVE  /\ row' \in Seq(Rows) /\ Len(row') = Len(row) /\ Meetings' = Meetings
         /\ row'[m] = r
         /\ \A k \in Meetings : k # m => row'[k] = row[k]
<1>1. row \in Seq(Rows) /\ m \in 1 .. Len(row)
  BY Shape DEF RowsTyped
<1>2. row' \in Seq(Rows) /\ Len(row') = Len(row)
  BY <1>1, ExceptSeq
<1> QED BY <1>1, <1>2, Shape DEF Meetings

-----------------------------------------------------------------------------
(* A step that leaves the meetings alone.                                  *)
LEMMA WorldMoves ==
  ASSUME IInv, UNCHANGED <<row, latest, approval, run>>, WorldTyped'
  PROVE  IInv'
<1>1. RowsTyped'
  BY DEF IInv, RowsTyped, Meetings
<1>2. OneOpenPerTopic' /\ OneMeetingPerSource'
  BY DEF IInv, OneOpenPerTopic, OneMeetingPerSource, Meetings
<1>3. BoardInv'
  BY DEF IInv, BoardInv, ClosedHadAllRounds, FirstWorkLinked, LaterWorkIsClosed, RunsAgree,
         ApprovalIsLast, Consensus, Meetings
<1> QED BY <1>1, <1>2, <1>3 DEF IInv

(* A step that only takes the ticket of one meeting further, and may end   *)
(* an execution.                                                           *)
LEMMA TicketMoves ==
  ASSUME IInv, NEW m \in Meetings, NEW t \in MeetingTickets,
         latest' = [latest EXCEPT ![m] = t], run' \subseteq run,
         UNCHANGED <<source, active, row, approval, plan>>,
         t.no >= latest[m].no, t.no = latest[m].no => t.linked = latest[m].linked,
         t.work = "meeting" => t.linked,
         t.work # "meeting" => row[m].status = "CLOSED",
         latest[m].work # "check" \/ latest[m].status # "COMPLETED"
  PROVE  IInv'
<1> USE DEF IInv
<1>1. /\ latest' \in Seq(MeetingTickets) /\ Len(latest') = Len(latest)
      /\ latest'[m] = t /\ \A k \in Meetings : k # m => latest'[k] = latest[k]
      /\ Meetings' = Meetings
  BY ReplacedTicket DEF Meetings
<1>2. RowsTyped' /\ WorldTyped'
  BY <1>1 DEF RowsTyped, WorldTyped
<1>3. OneOpenPerTopic'
  BY <1>1 DEF OneOpenPerTopic
<1>7. OneMeetingPerSource'
  BY <1>1 DEF OneMeetingPerSource
<1>4. ClosedHadAllRounds' /\ FirstWorkLinked' /\ LaterWorkIsClosed'
  BY <1>1 DEF BoardInv, ClosedHadAllRounds, FirstWorkLinked, LaterWorkIsClosed, Consensus
<1>5. RunsAgree'
  <2> SUFFICES ASSUME NEW r \in run
               PROVE  /\ r.ticket <= latest'[r.meeting].no
                      /\ r.ticket = latest'[r.meeting].no => r.linked = latest'[r.meeting].linked
                      /\ r.linked /\ r.result = "completed" => row'[r.meeting].status = "CLOSED"
    BY DEF RunsAgree
  <2>1. /\ r.meeting \in Meetings /\ r \in Runs
        /\ r.ticket <= latest[r.meeting].no
        /\ r.ticket = latest[r.meeting].no => r.linked = latest[r.meeting].linked
        /\ r.linked /\ r.result = "completed" => row[r.meeting].status = "CLOSED"
    BY DEF RowsTyped, BoardInv, RunsAgree
  <2>2. latest[m].no \in Nat /\ t.no \in Nat /\ r.ticket \in Nat
    BY <2>1, Shape DEF MeetingTickets, Runs
  <2> QED BY <1>1, <2>1, <2>2
<1>6. ApprovalIsLast'
  BY <1>1 DEF RowsTyped, BoardInv, ApprovalIsLast
<1> QED BY <1>2, <1>3, <1>4, <1>5, <1>6, <1>7 DEF BoardInv

(* A step that only moves executions.                                      *)
LEMMA RunMoves ==
  ASSUME IInv, run' \subseteq Runs,
         UNCHANGED <<source, active, row, latest, approval, plan>>,
         \A r \in run' : \/ r \in run
                        \/ \E q \in run : /\ r.meeting = q.meeting /\ r.ticket = q.ticket
                                          /\ r.linked = q.linked
                                          /\ r.linked => r.result # "completed"
  PROVE  IInv'
<1> USE DEF IInv
<1>1. RowsTyped' /\ WorldTyped'
  BY DEF RowsTyped, WorldTyped, Meetings
<1>4. OneOpenPerTopic'
  BY DEF OneOpenPerTopic, Meetings
<1>5. OneMeetingPerSource'
  BY DEF OneMeetingPerSource, Meetings
<1>2. /\ ClosedHadAllRounds' /\ FirstWorkLinked' /\ LaterWorkIsClosed' /\ ApprovalIsLast'
  BY DEF BoardInv, ClosedHadAllRounds, FirstWorkLinked, LaterWorkIsClosed, ApprovalIsLast,
         Consensus, Meetings
<1>3. RunsAgree'
  BY DEF BoardInv, RunsAgree
<1> QED BY <1>1, <1>2, <1>3, <1>4, <1>5 DEF BoardInv

(* A step that opens a meeting.                                            *)
LEMMA OpenedKeeps ==
  ASSUME IInv, NEW topic \in Topics, NEW key \in Keys, NEW recorder \in Employees,
         NEW rounds \in Nat, Opened(topic, key, recorder, rounds), ~OpenOn(topic),
         key = NoKey \/ ~AskedFor(key),
         UNCHANGED <<source, active, approval, plan, run>>
  PROVE  IInv'
<1> USE DEF IInv
<1> DEFINE n == Len(row) + 1
<1>1. /\ row' \in Seq(Rows) /\ Len(row') = n
      /\ latest' \in Seq(MeetingTickets) /\ Len(latest') = n
      /\ \A m \in Meetings : row'[m] = row[m] /\ latest'[m] = latest[m]
      /\ row'[n] = Row(topic, key, recorder, rounds)
      /\ latest'[n] = Ticket(1, "meeting", TRUE, 0)
      /\ Meetings' = Meetings \cup {n} /\ n \notin Meetings
  BY OpenedRow
<1> HIDE DEF n
<1>2. RowsTyped' /\ WorldTyped'
  BY <1>1 DEF RowsTyped, WorldTyped
<1>3. /\ row'[n].topic = topic /\ row'[n].key = key /\ row'[n].status = "OPEN"
      /\ latest'[n].work = "meeting" /\ latest'[n].linked = TRUE
  BY <1>1 DEF Row, Ticket
<1>4. OneOpenPerTopic'
  <2> SUFFICES ASSUME NEW m1 \in Meetings', NEW m2 \in Meetings',
                      row'[m1].topic = row'[m2].topic,
                      row'[m1].status = "OPEN", row'[m2].status = "OPEN"
               PROVE  m1 = m2
    BY DEF OneOpenPerTopic
  <2>1. \A m \in Meetings : row[m].topic = topic => row[m].status # "OPEN"
    BY DEF OpenOn
  <2>2. CASE m1 \in Meetings /\ m2 \in Meetings
    BY <1>1, <2>2 DEF OneOpenPerTopic
  <2>3. CASE m1 = n \/ m2 = n
    BY <1>1, <1>3, <2>1, <2>3
  <2> QED BY <1>1, <2>2, <2>3
<1>5. OneMeetingPerSource'
  BY <1>1, <1>3 DEF OneMeetingPerSource, AskedFor
<1>6. ClosedHadAllRounds' /\ FirstWorkLinked' /\ LaterWorkIsClosed'
  BY <1>1, <1>3 DEF BoardInv, ClosedHadAllRounds, FirstWorkLinked, LaterWorkIsClosed, Consensus
<1>7. RunsAgree'
  BY <1>1 DEF RowsTyped, BoardInv, RunsAgree
<1>8. ApprovalIsLast'
  <2>1. \A a \in 1 .. Len(approval) : approval[a].meeting \in Meetings
    BY DEF RowsTyped
  <2>2. ApprovalIsLast
    BY DEF BoardInv
  <2> QED BY <1>1, <2>1, <2>2 DEF ApprovalIsLast
<1> QED BY <1>2, <1>4, <1>5, <1>6, <1>7, <1>8 DEF BoardInv

-----------------------------------------------------------------------------
(* The candidate of a snapshot is well formed.                             *)
LEMMA ThinkKeeps ==
  ASSUME IInv, NEW s \in Sources, NEW kind \in Kinds, Think(s, kind)
  PROVE  IInv'
<1>0. PICK owner \in Owners(s) : \E p \in Partners(s, owner) :
        plan' = Candidate(s, kind, owner, p)
  BY DEF Think
<1>1. PICK partner \in Partners(s, owner) : plan' = Candidate(s, kind, owner, partner)
  BY <1>0
<1>2. owner \in Employees /\ partner \in Employees
  BY DEF IInv, WorldTyped, Owners, Partners
<1>3. s \in Nodes \cup Nat /\ TicketOf(s) \in Nat
  BY Shape DEF IInv, WorldTyped, Sources, TicketOf, MeetingTickets
<1>4. plan' \in Plans
  BY <1>1, <1>2, <1>3 DEF Candidate, Plans, Topics
<1>5. WorldTyped'
  BY <1>4 DEF IInv, WorldTyped, Think
<1> QED BY <1>5, WorldMoves DEF Think, tickets

LEMMA CeoAsksKeeps == ASSUME IInv, CeoAsks PROVE IInv'
<1> DEFINE key == <<plan.source, plan.ticket>>
<1>1. plan \in Plans /\ key \in Keys
  BY DEF IInv, WorldTyped, CeoAsks, Plans, Keys
<1>2. CASE ~AskedFor(key) /\ MayMeet(plan.topic, plan.team, plan.recorder)
  <2>1. Opened(plan.topic, key, plan.recorder, FullRounds) /\ ~OpenOn(plan.topic)
    BY <1>2 DEF CeoAsks, MayMeet
  <2>2. plan.topic \in Topics /\ plan.recorder \in Employees /\ FullRounds \in Nat
    BY <1>1, MeetingAssumption DEF Plans
  <2>3. UNCHANGED <<source, active, approval, plan, run>>
    BY DEF CeoAsks
  <2> QED BY <1>1, <1>2, <2>1, <2>2, <2>3, OpenedKeeps
<1>3. CASE ~(~AskedFor(key) /\ MayMeet(plan.topic, plan.team, plan.recorder))
  BY <1>3, WorldMoves DEF CeoAsks, Refused, IInv, WorldTyped
<1> QED BY <1>2, <1>3

LEMMA OperatorAsksKeeps ==
  ASSUME IInv, NEW q \in OperatorAsksFor, OperatorAsks(q) PROVE IInv'
<1>1. q.topic \in Topics /\ NoKey \in Keys /\ q.recorder \in Employees /\ q.rounds \in Nat
  BY MeetingAssumption DEF Topics, Keys
<1>2. /\ Opened(q.topic, NoKey, q.recorder, q.rounds) /\ ~OpenOn(q.topic)
      /\ UNCHANGED <<source, active, approval, plan, run>>
  BY DEF OperatorAsks, MayMeet
<1> QED BY <1>1, <1>2, OpenedKeeps

LEMMA StartKeeps ==
  ASSUME IInv, NEW m \in Meetings, Start(m) PROVE IInv'
<1> USE DEF IInv
<1> DEFINE t == [latest[m] EXCEPT !.status = "EXECUTING"]
           r == [meeting |-> m, ticket |-> latest[m].no, linked |-> latest[m].linked,
                 result |-> "none"]
<1>1. /\ latest[m] \in MeetingTickets /\ latest[m].work # "check" /\ m \in Nat
  BY Shape DEF Start
<1>2. /\ t \in MeetingTickets /\ t.no = latest[m].no /\ t.linked = latest[m].linked
      /\ t.work = latest[m].work
  BY <1>1 DEF MeetingTickets
<1>3. /\ latest' = [latest EXCEPT ![m] = t] /\ run' = run \cup {r}
      /\ UNCHANGED <<source, active, row, approval, plan>>
  BY DEF Start, Stands
<1>4. r \in Runs
  BY <1>1 DEF Runs, MeetingTickets
<1> HIDE DEF t
<1>5. /\ latest' \in Seq(MeetingTickets) /\ Len(latest') = Len(latest)
      /\ latest'[m] = t /\ \A k \in Meetings : k # m => latest'[k] = latest[k]
      /\ Meetings' = Meetings
  BY <1>2, <1>3, ReplacedTicket DEF Meetings
<1>6. RowsTyped' /\ WorldTyped'
  BY <1>3, <1>4, <1>5 DEF RowsTyped, WorldTyped
<1>7. OneOpenPerTopic'
  BY <1>3, <1>5 DEF OneOpenPerTopic
<1>8. OneMeetingPerSource'
  BY <1>3, <1>5 DEF OneMeetingPerSource
<1>9. ClosedHadAllRounds' /\ FirstWorkLinked' /\ LaterWorkIsClosed'
  BY <1>2, <1>3, <1>5 DEF BoardInv, ClosedHadAllRounds, FirstWorkLinked, LaterWorkIsClosed, Consensus
<1>10. RunsAgree'
  <2>1. \A k \in Meetings : latest'[k].no = latest[k].no /\ latest'[k].linked = latest[k].linked
    BY <1>2, <1>5
  <2>2. r.ticket <= latest'[r.meeting].no /\ r.linked = latest'[r.meeting].linked
    BY <1>1, <1>2, <1>5 DEF MeetingTickets
  <2> QED BY <1>3, <2>1, <2>2 DEF RowsTyped, BoardInv, RunsAgree
<1>11. ApprovalIsLast'
  BY <1>1, <1>3, <1>5 DEF RowsTyped, BoardInv, ApprovalIsLast
<1> QED BY <1>6, <1>7, <1>8, <1>9, <1>10, <1>11 DEF BoardInv

(* The outcome: a row that is over stays over, what was CLOSED stays       *)
(* CLOSED, and a row the checker had asked the board about is marked late. *)
LEMMA HoldKeeps ==
  ASSUME IInv, NEW r \in run, Hold(r) PROVE IInv'
<1> USE DEF IInv
<1> DEFINE m == r.meeting
           late == StatusOf(r) \notin {"EXECUTING", "CANCEL_REQUESTED"}
           w == Outcome(m, late)
           done == [r EXCEPT !.result = IF Consensus(m) THEN "completed" ELSE "failed"]
<1>1. m \in Meetings /\ m \in Nat /\ r \in Runs /\ row[m] \in Rows /\ r.linked
  BY Shape DEF RowsTyped, Runs, Hold
<1>2. /\ w \in Rows /\ w.topic = row[m].topic /\ w.key = row[m].key /\ w.pack = row[m].pack
      /\ w.rounds = row[m].rounds
      /\ w.late = (row[m].late \/ late)
      /\ w.status = IF Consensus(m) THEN "CLOSED" ELSE "NO_CONSENSUS"
  BY <1>1 DEF Outcome, Rows
<1>3. /\ row' = [row EXCEPT ![m] = w] /\ run' = (run \ {r}) \cup {done}
      /\ UNCHANGED <<source, active, latest, approval, plan>>
  BY DEF Hold
<1>4. /\ done \in Runs /\ done.meeting = m /\ done.ticket = r.ticket /\ done.linked = r.linked
      /\ done.result = "completed" => Consensus(m)
  BY <1>1 DEF Runs
<1> HIDE DEF w, done
<1>5. /\ row' \in Seq(Rows) /\ Len(row') = Len(row) /\ Meetings' = Meetings
      /\ row'[m] = w /\ \A k \in Meetings : k # m => row'[k] = row[k]
  BY <1>1, <1>2, <1>3, ReplacedRow
<1>6. RowsTyped' /\ WorldTyped'
  BY <1>1, <1>3, <1>4, <1>5 DEF RowsTyped, WorldTyped
<1>7. OneOpenPerTopic'
  BY <1>1, <1>2, <1>5 DEF OneOpenPerTopic
<1>8. OneMeetingPerSource'
  BY <1>1, <1>2, <1>5 DEF OneMeetingPerSource
<1>9. \A k \in Meetings : row[k].status = "CLOSED" => row'[k].status = "CLOSED"
  BY <1>1, <1>2, <1>5 DEF BoardInv, ClosedHadAllRounds
<1>10. ClosedHadAllRounds'
  BY <1>1, <1>2, <1>5 DEF BoardInv, ClosedHadAllRounds, Consensus
<1>11. FirstWorkLinked' /\ LaterWorkIsClosed'
  BY <1>3, <1>5, <1>9 DEF BoardInv, FirstWorkLinked, LaterWorkIsClosed
<1>12. RunsAgree'
  <2>1. \A q \in run :
          RunsAgree /\ q.linked /\ q.result = "completed" => row'[q.meeting].status = "CLOSED"
    BY <1>9 DEF RowsTyped, RunsAgree
  <2>2. done.result = "completed" => row'[m].status = "CLOSED"
    BY <1>2, <1>4, <1>5
  <2> QED BY <1>3, <1>4, <2>1, <2>2 DEF BoardInv, RunsAgree
<1>13. ApprovalIsLast'
  <2> SUFFICES ASSUME NEW a \in 1 .. Len(approval)
               PROVE  LET k == approval[a].meeting
                      IN /\ latest[k].work = "check" /\ latest[k].status = "COMPLETED"
                         /\ approval[a].linked =>
                              /\ row'[k].pack = a
                              /\ row'[k].review = "BOARD_REVIEW_PENDING" \/ row'[k].late
    BY <1>3 DEF ApprovalIsLast
  <2>1. approval[a].meeting = m => StatusOf(r) \in {"COMPLETED", "over"}
    BY DEF BoardInv, ApprovalIsLast, StatusOf
  <2>2. approval[a].meeting = m => w.late
    BY <1>2, <2>1
  <2> QED BY <1>2, <1>5, <2>2 DEF RowsTyped, BoardInv, ApprovalIsLast
<1> QED BY <1>6, <1>7, <1>8, <1>10, <1>11, <1>12, <1>13 DEF BoardInv

LEMMA RewriteKeeps == ASSUME IInv, NEW r \in run, Rewrite(r) PROVE IInv'
<1>1. r \in Runs
  BY DEF IInv, RowsTyped
<1>2. [r EXCEPT !.result = "completed"] \in Runs
  BY <1>1 DEF Runs
<1>3. /\ [r EXCEPT !.result = "completed"].meeting = r.meeting
      /\ [r EXCEPT !.result = "completed"].ticket = r.ticket
      /\ [r EXCEPT !.result = "completed"].linked = r.linked
  BY <1>1 DEF Runs
<1>4. /\ run' = (run \ {r}) \cup {[r EXCEPT !.result = "completed"]} /\ ~r.linked
      /\ UNCHANGED <<source, active, row, latest, approval, plan>>
  BY DEF Rewrite
<1>5. run' \subseteq Runs
  BY <1>2, <1>4 DEF IInv, RowsTyped
<1> QED BY <1>3, <1>4, <1>5, RunMoves

LEMMA BreakKeeps == ASSUME IInv, NEW r \in run, Break(r) PROVE IInv'
<1>1. r \in Runs
  BY DEF IInv, RowsTyped
<1>2. [r EXCEPT !.result = "failed"] \in Runs
  BY <1>1 DEF Runs
<1>3. /\ [r EXCEPT !.result = "failed"].meeting = r.meeting
      /\ [r EXCEPT !.result = "failed"].ticket = r.ticket
      /\ [r EXCEPT !.result = "failed"].linked = r.linked
      /\ [r EXCEPT !.result = "failed"].result = "failed"
  BY <1>1 DEF Runs
<1>4. /\ run' = (run \ {r}) \cup {[r EXCEPT !.result = "failed"]}
      /\ UNCHANGED <<source, active, row, latest, approval, plan>>
  BY DEF Break
<1>5. run' \subseteq Runs
  BY <1>2, <1>4 DEF IInv, RowsTyped
<1> QED BY <1>3, <1>4, <1>5, RunMoves

LEMMA CrashKeeps == ASSUME IInv, Crash PROVE IInv'
BY RunMoves DEF Crash

-----------------------------------------------------------------------------
(* A ticket that only changes its status.                                  *)
LEMMA StandsKeeps ==
  ASSUME IInv, NEW m \in Meetings,
         NEW status \in {"FAILED", "CANCELLED", "CANCEL_REQUESTED"}, latest' = Stands(m, status),
         run' \subseteq run, UNCHANGED <<source, active, row, approval, plan>>,
         latest[m].work # "check" \/ latest[m].status # "COMPLETED"
  PROVE  IInv'
<1> DEFINE t == [latest[m] EXCEPT !.status = status]
<1>1. latest[m] \in MeetingTickets
  BY Shape DEF IInv
<1>2. /\ t \in MeetingTickets /\ t.no = latest[m].no /\ t.linked = latest[m].linked
      /\ t.work = latest[m].work /\ t.no \in Nat
  BY <1>1 DEF MeetingTickets
<1>3. latest' = [latest EXCEPT ![m] = t]
  BY DEF Stands
<1>4. /\ t.work = "meeting" => t.linked
      /\ t.work # "meeting" => row[m].status = "CLOSED"
  BY <1>2 DEF IInv, BoardInv, FirstWorkLinked, LaterWorkIsClosed
<1> HIDE DEF t
<1>5. t \in MeetingTickets /\ t.no >= latest[m].no
  BY <1>2
<1>6. t.no = latest[m].no => t.linked = latest[m].linked
  BY <1>2
<1> QED BY <1>3, <1>4, <1>5, <1>6, TicketMoves, Zenon

(* A ticket that follows another one.                                      *)
LEMMA FollowKeeps ==
  ASSUME IInv, NEW m \in Meetings, NEW work \in {"meeting", "fix", "check"},
         NEW linked \in BOOLEAN, NEW retries \in Nat, Follow(m, work, linked, retries),
         run' \subseteq run, UNCHANGED <<source, active, row, approval, plan>>,
         work = "meeting" => linked, work # "meeting" => row[m].status = "CLOSED",
         latest[m].work # "check" \/ latest[m].status # "COMPLETED"
  PROVE  IInv'
<1> DEFINE t == Ticket(latest[m].no + 1, work, linked, retries)
<1>1. latest[m].no \in Nat
  BY Shape DEF IInv, MeetingTickets
<1>2. /\ t \in MeetingTickets /\ t.no = latest[m].no + 1 /\ t.work = work /\ t.linked = linked
  BY <1>1 DEF Ticket, MeetingTickets
<1>3. latest' = [latest EXCEPT ![m] = t]
  BY DEF Follow
<1> HIDE DEF t
<1>4. t.no >= latest[m].no /\ t.no # latest[m].no
  BY <1>1, <1>2
<1>5. t.work = "meeting" => t.linked
  BY <1>2, Zenon
<1>6. t.work # "meeting" => row[m].status = "CLOSED"
  BY <1>2
<1>7. t \in MeetingTickets
  BY <1>2
<1>8. t.no >= latest[m].no /\ (t.no = latest[m].no => t.linked = latest[m].linked)
  BY <1>4
<1> QED BY <1>3, <1>5, <1>6, <1>7, <1>8, TicketMoves, Zenon

LEMMA FailKeeps ==
  ASSUME IInv, NEW m \in Meetings, Fail(m), run' \subseteq run,
         latest[m].status \in {"EXECUTING"},
         UNCHANGED <<source, active, row, approval, plan>>
  PROVE  IInv'
<1>1. /\ latest[m].work \in {"meeting", "fix", "check"} /\ latest[m].linked \in BOOLEAN
      /\ latest[m].retries + 1 \in Nat
  BY Shape DEF IInv, MeetingTickets
<1>2. CASE latest[m].retries < RetryBudget
  <2>1. Follow(m, latest[m].work, latest[m].linked, latest[m].retries + 1)
    BY <1>2 DEF Fail
  <2>2. /\ latest[m].work = "meeting" => latest[m].linked
        /\ latest[m].work # "meeting" => row[m].status = "CLOSED"
    BY DEF IInv, BoardInv, FirstWorkLinked, LaterWorkIsClosed
  <2> QED BY <1>1, <2>1, <2>2, FollowKeeps
<1>3. CASE ~(latest[m].retries < RetryBudget)
  BY <1>3, StandsKeeps DEF Fail
<1> QED BY <1>2, <1>3

LEMMA ReportKeeps == ASSUME IInv, NEW r \in run, Report(r) PROVE IInv'
<1> DEFINE m == r.meeting
<1>1. /\ m \in Meetings /\ r \in Runs /\ run' \subseteq run
      /\ UNCHANGED <<source, active, row, approval, plan>>
  BY DEF IInv, RowsTyped, Report
<1>2. CASE StatusOf(r) = "EXECUTING"
  <2>1. latest[m].status = "EXECUTING" /\ r.ticket = latest[m].no
    BY <1>2 DEF StatusOf
  <2>2. CASE r.result = "completed"
    <3>1. Follow(m, "check", latest[m].linked, 0)
      BY <1>2, <2>2 DEF Report
    <3>2. row[m].status = "CLOSED"
      BY <1>1, <2>1, <2>2 DEF IInv, BoardInv, RunsAgree, FirstWorkLinked, LaterWorkIsClosed
    <3>3. latest[m].linked \in BOOLEAN
      BY <1>1, Shape DEF IInv, MeetingTickets
    <3> QED BY <1>1, <2>1, <3>1, <3>2, <3>3, FollowKeeps
  <2>3. CASE r.result # "completed"
    <3>1. Fail(m)
      BY <1>2, <2>3 DEF Report
    <3> QED BY <1>1, <2>1, <3>1, FailKeeps
  <2> QED BY <2>2, <2>3
<1>3. CASE StatusOf(r) = "CANCEL_REQUESTED"
  <2>1. latest[m].status = "CANCEL_REQUESTED"
    BY <1>3 DEF StatusOf
  <2>2. latest' = Stands(m, "CANCELLED")
    BY <1>3 DEF Report
  <2> QED BY <1>1, <2>1, <2>2, StandsKeeps
<1>4. CASE StatusOf(r) \notin {"EXECUTING", "CANCEL_REQUESTED"}
  <2>1. UNCHANGED latest
    BY <1>4 DEF Report
  <2>2. run' \subseteq Runs
    BY <1>1 DEF IInv, RowsTyped
  <2> QED BY <1>1, <2>1, <2>2, RunMoves
<1> QED BY <1>2, <1>3, <1>4

LEMMA TimeOutKeeps == ASSUME IInv, NEW m \in Meetings, TimeOut(m) PROVE IInv'
BY FailKeeps DEF TimeOut

LEMMA CancelKeeps == ASSUME IInv, NEW m \in Meetings, Cancel(m) PROVE IInv'
BY StandsKeeps DEF Cancel

LEMMA RecoverKeeps == ASSUME IInv, NEW m \in Meetings, Recover(m) PROVE IInv'
<1>1. /\ latest[m].work \in {"meeting", "fix", "check"} /\ latest[m].linked \in BOOLEAN
      /\ latest[m].retries \in Nat
  BY Shape DEF IInv, MeetingTickets
<1>2. /\ latest[m].work = "meeting" => latest[m].linked
      /\ latest[m].work # "meeting" => row[m].status = "CLOSED"
  BY DEF IInv, BoardInv, FirstWorkLinked, LaterWorkIsClosed
<1> QED BY <1>1, <1>2, FollowKeeps DEF Recover

LEMMA CheckerRefusesKeeps == ASSUME IInv, NEW m \in Meetings, CheckerRefuses(m) PROVE IInv'
<1>1. latest[m].work = "check" /\ latest[m].status = "PENDING"
  BY DEF CheckerRefuses, Checks
<1>2. row[m].status = "CLOSED"
  BY <1>1 DEF IInv, BoardInv, LaterWorkIsClosed
<1> QED BY <1>1, <1>2, FollowKeeps DEF CheckerRefuses

-----------------------------------------------------------------------------
(* The approval is the next one, and the row names it.                     *)
LEMMA CheckerAcceptsKeeps == ASSUME IInv, NEW m \in Meetings, CheckerAccepts(m) PROVE IInv'
<1> USE DEF IInv
<1> DEFINE t == [latest[m] EXCEPT !.status = "COMPLETED"]
           ap == [meeting |-> m, linked |-> latest[m].linked, status |-> "OPEN"]
           n == Len(approval) + 1
           w == [row[m] EXCEPT !.review = "BOARD_REVIEW_PENDING", !.pack = n, !.late = FALSE]
<1>1. /\ latest[m] \in MeetingTickets /\ latest[m].work = "check" /\ latest[m].status = "PENDING"
      /\ m \in Nat /\ row[m] \in Rows /\ Len(approval) \in Nat /\ approval \in Seq(Approvals)
  BY Shape DEF CheckerAccepts, Checks, RowsTyped
<1>2. /\ t \in MeetingTickets /\ t.no = latest[m].no /\ t.linked = latest[m].linked
      /\ t.work = "check" /\ t.status = "COMPLETED"
  BY <1>1 DEF MeetingTickets
<1>3. /\ ap \in Approvals /\ ap.meeting = m /\ ap.linked = latest[m].linked
  BY <1>1 DEF Approvals, MeetingTickets
<1>4. /\ w \in Rows /\ w.topic = row[m].topic /\ w.key = row[m].key /\ w.status = row[m].status
      /\ w.rounds = row[m].rounds /\ w.pack = n /\ w.review = "BOARD_REVIEW_PENDING"
  <2>1. n \in Nat
    BY <1>1
  <2> HIDE DEF n
  <2> QED BY <1>1, <2>1 DEF Rows
<1>5. approval' = Append(approval, ap)
  BY DEF CheckerAccepts, AskBoard
<1>6. /\ approval' \in Seq(Approvals) /\ Len(approval') = n
      /\ \A a \in 1 .. Len(approval) : approval'[a] = approval[a]
      /\ approval'[n] = ap
  BY <1>1, <1>3, <1>5, AppendProperties
<1>7. /\ latest' = [latest EXCEPT ![m] = t]
      /\ UNCHANGED <<source, active, plan, run>>
  BY DEF CheckerAccepts, Stands
<1>8. row' = IF latest[m].linked THEN [row EXCEPT ![m] = w] ELSE row
  BY <1>6 DEF CheckerAccepts, AskBoard
<1> HIDE DEF t, ap, w
<1>9. /\ latest' \in Seq(MeetingTickets) /\ Len(latest') = Len(latest)
      /\ latest'[m] = t /\ \A k \in Meetings : k # m => latest'[k] = latest[k]
  BY <1>2, <1>7, ReplacedTicket
<1>10. /\ row' \in Seq(Rows) /\ Len(row') = Len(row) /\ Meetings' = Meetings
       /\ row'[m] = IF latest[m].linked THEN w ELSE row[m]
       /\ \A k \in Meetings : k # m => row'[k] = row[k]
  <2>1. CASE latest[m].linked
    BY <1>4, <1>8, <2>1, ReplacedRow
  <2>2. CASE ~latest[m].linked
    BY <1>8, <2>2 DEF RowsTyped, Meetings
  <2> QED BY <2>1, <2>2
<1>11. \A k \in Meetings : /\ row'[k].topic = row[k].topic /\ row'[k].key = row[k].key
                           /\ row'[k].status = row[k].status /\ row'[k].rounds = row[k].rounds
  BY <1>4, <1>10
<1>12. RowsTyped'
  <2>1. \A a \in 1 .. n : approval'[a].meeting \in Meetings
    BY <1>1, <1>3, <1>6 DEF RowsTyped
  <2> QED BY <1>6, <1>7, <1>9, <1>10, <2>1 DEF RowsTyped
<1>13. WorldTyped'
  BY <1>7 DEF WorldTyped
<1>14. OneOpenPerTopic'
  BY <1>10, <1>11 DEF OneOpenPerTopic
<1>15. OneMeetingPerSource'
  BY <1>10, <1>11 DEF OneMeetingPerSource
<1>16. ClosedHadAllRounds'
  BY <1>10, <1>11 DEF BoardInv, ClosedHadAllRounds, Consensus
<1>17. FirstWorkLinked'
  BY <1>2, <1>9, <1>10 DEF BoardInv, FirstWorkLinked
<1>18. LaterWorkIsClosed'
  BY <1>1, <1>2, <1>9, <1>10, <1>11 DEF BoardInv, LaterWorkIsClosed
<1>19. RunsAgree'
  <2>1. \A k \in Meetings : latest'[k].no = latest[k].no /\ latest'[k].linked = latest[k].linked
    BY <1>2, <1>9
  <2> QED BY <1>7, <1>11, <2>1 DEF RowsTyped, BoardInv, RunsAgree
<1>20. ApprovalIsLast'
  <2> SUFFICES ASSUME NEW a \in 1 .. n
               PROVE  LET k == approval'[a].meeting
                      IN /\ latest'[k].work = "check" /\ latest'[k].status = "COMPLETED"
                         /\ approval'[a].linked =>
                              /\ row'[k].pack = a
                              /\ row'[k].review = "BOARD_REVIEW_PENDING" \/ row'[k].late
    BY <1>6 DEF ApprovalIsLast
  <2>1. CASE a \in 1 .. Len(approval)
    <3>1. /\ approval[a].meeting \in Meetings
          /\ latest[approval[a].meeting].status = "COMPLETED"
      BY <2>1 DEF RowsTyped, BoardInv, ApprovalIsLast
    <3>2. approval[a].meeting # m
      BY <1>1, <3>1
    <3> QED BY <1>6, <1>9, <1>10, <2>1, <3>1, <3>2 DEF BoardInv, ApprovalIsLast
  <2>2. CASE a = n
    BY <1>2, <1>3, <1>4, <1>6, <1>9, <1>10, <2>2
  <2> QED BY <1>1, <2>1, <2>2
<1> QED BY <1>12, <1>13, <1>14, <1>15, <1>16, <1>17, <1>18, <1>19, <1>20 DEF BoardInv

LEMMA DecideKeeps == ASSUME IInv, NEW a \in 1 .. Len(approval), Decide(a) PROVE IInv'
<1> USE DEF IInv
<1> DEFINE ap == [approval[a] EXCEPT !.status = "RESOLVED"]
<1>1. approval[a] \in Approvals /\ approval \in Seq(Approvals)
  BY Shape DEF RowsTyped
<1>2. ap \in Approvals /\ ap.meeting = approval[a].meeting /\ ap.linked = approval[a].linked
  BY <1>1 DEF Approvals
<1>3. /\ approval' = [approval EXCEPT ![a] = ap]
      /\ UNCHANGED <<source, active, row, latest, plan, run>>
  BY DEF Decide
<1> HIDE DEF ap
<1>4. /\ approval' \in Seq(Approvals) /\ Len(approval') = Len(approval)
      /\ \A b \in 1 .. Len(approval) : approval'[b] = IF b = a THEN ap ELSE approval[b]
  BY <1>1, <1>2, <1>3, ExceptSeq
<1>5. \A b \in 1 .. Len(approval) : /\ approval'[b].meeting = approval[b].meeting
                                    /\ approval'[b].linked = approval[b].linked
  BY <1>2, <1>4
<1>6. RowsTyped' /\ WorldTyped'
  BY <1>3, <1>4, <1>5 DEF RowsTyped, WorldTyped, Meetings
<1>7. OneOpenPerTopic'
  BY <1>3 DEF OneOpenPerTopic, Meetings
<1>8. OneMeetingPerSource'
  BY <1>3 DEF OneMeetingPerSource, Meetings
<1>9. ClosedHadAllRounds' /\ FirstWorkLinked' /\ LaterWorkIsClosed' /\ RunsAgree'
  BY <1>3 DEF BoardInv, ClosedHadAllRounds, FirstWorkLinked, LaterWorkIsClosed, RunsAgree,
              Consensus, Meetings
<1>10. ApprovalIsLast'
  BY <1>3, <1>4, <1>5 DEF BoardInv, ApprovalIsLast
<1> QED BY <1>6, <1>7, <1>8, <1>9, <1>10 DEF BoardInv

LEMMA SourceMovesKeeps == ASSUME IInv, NEW n \in Nodes, SourceMoves(n) PROVE IInv'
<1>1. WorldTyped'
  BY DEF IInv, WorldTyped, SourceMoves
<1> QED BY <1>1, WorldMoves DEF SourceMoves, tickets

LEMMA FreezeOrRestoreKeeps == ASSUME IInv, NEW e \in Leavers, FreezeOrRestore(e) PROVE IInv'
<1>1. WorldTyped'
  BY MeetingAssumption DEF IInv, WorldTyped, FreezeOrRestore
<1> QED BY <1>1, WorldMoves DEF FreezeOrRestore, tickets

-----------------------------------------------------------------------------
LEMMA Initially == Init => IInv
<1> SUFFICES ASSUME Init PROVE IInv
  OBVIOUS
<1>1. RowsTyped /\ WorldTyped
  BY DEF Init, RowsTyped, WorldTyped
<1>2. Meetings = {}
  BY DEF Init, Meetings
<1>3. OneOpenPerTopic /\ OneMeetingPerSource
  BY <1>2 DEF OneOpenPerTopic, OneMeetingPerSource
<1>4. BoardInv
  BY <1>2 DEF Init, BoardInv, ClosedHadAllRounds, FirstWorkLinked, LaterWorkIsClosed, RunsAgree,
              ApprovalIsLast
<1> QED BY <1>1, <1>3, <1>4 DEF IInv

LEMMA Inductive == IInv /\ [Next]_vars => IInv'
<1> SUFFICES ASSUME IInv, [Next]_vars PROVE IInv'
  OBVIOUS
<1>1. CASE Ask
  BY <1>1, ThinkKeeps, CeoAsksKeeps, OperatorAsksKeeps, WorldMoves
     DEF Ask, CeoDone, tickets, IInv, WorldTyped
<1>2. CASE Work
  <2>1. CASE \E m \in Meetings : Start(m) \/ TimeOut(m) \/ Cancel(m) \/ Recover(m)
    BY <2>1, StartKeeps, TimeOutKeeps, CancelKeeps, RecoverKeeps
  <2>2. CASE \E r \in run : Hold(r) \/ Rewrite(r) \/ Break(r) \/ Report(r)
    BY <2>2, HoldKeeps, RewriteKeeps, BreakKeeps, ReportKeeps
  <2> QED BY <1>2, <2>1, <2>2, CrashKeeps DEF Work
<1>3. CASE Review
  BY <1>3, CheckerAcceptsKeeps, CheckerRefusesKeeps, DecideKeeps DEF Review
<1>4. CASE World
  BY <1>4, SourceMovesKeeps, FreezeOrRestoreKeeps DEF World
<1>5. CASE UNCHANGED vars
  BY <1>5, WorldMoves DEF vars, IInv, WorldTyped
<1> QED BY <1>1, <1>2, <1>3, <1>4, <1>5 DEF Next

LEMMA Invariant == Spec => []IInv
BY Initially, Inductive, PTL DEF Spec

(* The CEO and operators never have two meetings open on one topic         *)
(* (find_open_meeting_by_normalized_topic is asked under the write lock).  *)
THEOREM TopicsApart == Spec => []OneOpenPerTopic
BY Invariant, PTL DEF IInv

(* A failed or refused ticket gives rise to one meeting of the CEO's       *)
(* (ceo-meeting-request: its idempotency key).                             *)
THEOREM SourcesApart == Spec => []OneMeetingPerSource
BY Invariant, PTL DEF IInv

(* What the board is asked to lock in is a consensus, and its row names    *)
(* the review pack unless the consensus came from a fix.                   *)
THEOREM BoardDecidesOnConsensus == Spec => []BoardReadsTheMeeting
<1>1. IInv => BoardReadsTheMeeting
  <2> SUFFICES ASSUME IInv, NEW a \in 1 .. Len(approval)
               PROVE  LET r == row[approval[a].meeting]
                      IN /\ r.status = "CLOSED"
                         /\ approval[a].linked =>
                              r.pack = a /\ (r.review = "BOARD_REVIEW_PENDING" \/ r.late)
    BY DEF BoardReadsTheMeeting
  <2>1. approval[a].meeting \in Meetings
    BY DEF IInv, RowsTyped
  <2> QED BY <2>1 DEF IInv, BoardInv, LaterWorkIsClosed, ApprovalIsLast
<1> QED BY <1>1, Invariant, PTL
=============================================================================
