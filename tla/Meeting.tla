------------------------------- MODULE Meeting -------------------------------
(***************************************************************************)
(* Technical decision meetings: who asks for one, the row that records it  *)
(* and the latest of tickets on its node that holds it, from the request to *)
(* the decision of the board.                                              *)
(*                                                                         *)
(* The CEO asks from a snapshot it took before it thought; an execution    *)
(* writes the outcome of the meeting in one transaction and reports its    *)
(* ticket in a later one, and looks at neither the ticket nor the row in   *)
(* between.  Topics that normalise alike are one value, and a ticket's     *)
(* lease and start, and a checker's whole ticket, are one step: they are   *)
(* the business of TicketLifecycle and ReviewRouting.                      *)
(***************************************************************************)
EXTENDS Naturals, Sequences, FiniteSets

CONSTANTS
  Nodes,           \* nodes of the workflow whose ticket may come to need a meeting
  Employees,       \* board approved employees
  RoleOf,          \* the role of each employee
  OwnerRole,       \* the role that owns each node
  Checker, Builder,   \* the roles a meeting is filled up with
  Leavers,         \* employees that are frozen and restored
  OperatorAsksFor, \* what operators request: topic, team, recorder and max_rounds
  FullRounds,      \* position, challenge, proposal and convergence
  RetryBudget,     \* of the ticket of a meeting
  NoPlan,          \* the CEO has nothing in hand
  NoKey,           \* an operator's meeting, whose key is never used again
  MaxMeetings, MaxTickets, MaxTurns   \* bounds: meetings, their tickets, tickets of a source node

ASSUME MeetingAssumption ==
  /\ OwnerRole \in [Nodes -> {RoleOf[e] : e \in Employees} \cup {Checker, Builder}]
  /\ \A q \in OperatorAsksFor : q.recorder \in q.team /\ q.team \subseteq Employees
                               /\ q.rounds \in 1 .. FullRounds
  /\ Leavers \subseteq Employees
  /\ {FullRounds, RetryBudget, MaxMeetings, MaxTickets, MaxTurns} \subseteq Nat

VARIABLES
  source,     \* node -> its latest ticket and how that one stands
  active,     \* employees in state ACTIVE
  row,        \* rows of meeting_projection, by meeting
  latest,     \* meeting -> the latest ticket of its node
  approval,   \* rows of approval_projection a meeting's checker opened, and the meeting of each
  plan,       \* the candidate the CEO accepted and executes
  run         \* executions of meeting tickets under way

tickets == <<latest, approval, run>>
vars == <<source, active, row, latest, approval, plan, run>>

Kinds == {"blocker", "feedback"}
Meetings == DOMAIN row
Sources == Nodes \cup Meetings       \* a meeting's node is a node like any other

(* "key" is the source a CEO's key names; "late" is history: an execution  *)
(* whose ticket was over wrote the row, and the checker has not since.     *)
Row(topic, key, recorder, rounds) ==
  [topic |-> topic, key |-> key, recorder |-> recorder, rounds |-> rounds,
   status |-> "OPEN", review |-> "NONE", pack |-> 0, late |-> FALSE]

(* Ticket i of a meeting's node; only the latest is kept, the ones before  *)
(* it are over.  "linked": its spec, or for a check the maker's spec in it, *)
(* has the context of the meeting.  TIMED_OUT is one with FAILED.          *)
Ticket(i, work, linked, retries) ==
  [no |-> i, work |-> work, linked |-> linked, status |-> "PENDING", retries |-> retries]

Over == {"COMPLETED", "FAILED", "CANCELLED"}

TypeOK ==
  /\ \A n \in Nodes : /\ source[n].ticket \in 1 .. MaxTurns
                      /\ source[n].status \in {"RUNNING", "FAILED", "WAITING", "REFUSED"}
  /\ active \subseteq Employees
  /\ Len(row) <= MaxMeetings /\ Len(latest) = Len(row)
  /\ \A m \in Meetings :
       /\ row[m].status \in {"OPEN", "CLOSED", "NO_CONSENSUS"}
       /\ row[m].review \in {"NONE", "CHECKER_PENDING", "BOARD_REVIEW_PENDING"}
       /\ row[m].pack \in 0 .. Len(approval)
       /\ row[m].recorder \in Employees /\ row[m].rounds \in 1 .. FullRounds
       /\ latest[m].no \in 1 .. MaxTickets /\ latest[m].retries \in 0 .. RetryBudget
       /\ latest[m].work \in {"meeting", "fix", "check"} /\ latest[m].linked \in BOOLEAN
       /\ latest[m].status \in Over \cup {"PENDING", "EXECUTING", "CANCEL_REQUESTED"}
  /\ \A a \in 1 .. Len(approval) :
       approval[a].meeting \in Meetings /\ approval[a].status \in {"OPEN", "RESOLVED"}
  /\ \A r \in run : r.meeting \in Meetings /\ r.result \in {"none", "completed", "failed"}

Init ==
  /\ source = [n \in Nodes |-> [ticket |-> 1, status |-> "RUNNING"]]
  /\ active = Employees
  /\ row = <<>> /\ latest = <<>> /\ approval = <<>> /\ plan = NoPlan /\ run = {}

Room == Cardinality({t \in Meetings \X (1 .. MaxTickets) : t[2] <= latest[t[1]].no}) < MaxTickets

OpenOn(topic) == \E m \in Meetings : row[m].topic = topic /\ row[m].status = "OPEN"

BoardWaits == \/ \E n \in Nodes : source[n].status = "WAITING"
              \/ \E a \in 1 .. Len(approval) : approval[a].status = "OPEN"

-----------------------------------------------------------------------------
(* The candidates of a snapshot. *)

TicketOf(s) == IF s \in Nodes THEN source[s].ticket ELSE latest[s].no

RoleFor(s) == IF s \in Nodes THEN OwnerRole[s] ELSE RoleOf[row[s].recorder]

(* A failure with no retry left; consensus_document is a decision schema, *)
(* so the failed ticket of a meeting is a source as well.                  *)
FailedForGood(s) ==
  IF s \in Nodes THEN source[s].status = "FAILED"
  ELSE /\ latest[s].work # "check" /\ latest[s].status = "FAILED"
       /\ latest[s].retries >= RetryBudget

SentBackByBoard(s) == s \in Nodes /\ source[s].status = "REFUSED"

Owners(s) == {e \in active : RoleOf[e] = RoleFor(s)}

PartnerRole(owner) == IF RoleOf[owner] = Checker THEN Builder ELSE Checker

(* The partner's role first, the role of the source when nobody has it.    *)
Partners(s, owner) ==
  LET of(role) == {e \in active \ {owner} : RoleOf[e] = role}
  IN IF of(PartnerRole(owner)) # {} THEN of(PartnerRole(owner)) ELSE of(RoleFor(s))

Candidate(s, kind, owner, partner) ==
  [source |-> s, ticket |-> TicketOf(s), topic |-> <<kind, s>>,
   team |-> {owner, partner}, recorder |-> owner]

Eligible(s, kind) ==
  /\ ~OpenOn(<<kind, s>>)
  /\ \/ kind = "blocker" /\ FailedForGood(s) /\ ~BoardWaits
     \/ kind = "feedback" /\ SentBackByBoard(s)

(* A failure or a decision wakes the CEO; it thinks, and keeps the one     *)
(* action it found valid.                                                  *)
Think(s, kind) ==
  /\ plan = NoPlan /\ Eligible(s, kind)
  /\ \E owner \in Owners(s) : \E partner \in Partners(s, owner) :
       plan' = Candidate(s, kind, owner, partner)
  /\ UNCHANGED <<source, active, row, tickets>>

-----------------------------------------------------------------------------
(* meeting-request. *)

\* Mutant: the snapshot's word that no meeting is open is taken.
MayMeet_Trusted(topic, team, recorder) == team \subseteq active /\ recorder \in team

MayMeet(topic, team, recorder) ==
  /\ ~OpenOn(topic)
  /\ team \subseteq active /\ recorder \in team

Opened(topic, key, recorder, rounds) ==
  /\ Len(row) < MaxMeetings /\ Room
  /\ row' = Append(row, Row(topic, key, recorder, rounds))
  /\ latest' = Append(latest, Ticket(1, "meeting", TRUE, 0))

Refused == UNCHANGED <<row, latest>>

\* Mutant: only a meeting that is still open counts as asked for.
AskedFor_Open(key) == \E m \in Meetings : row[m].key = key /\ row[m].status = "OPEN"

AskedFor(key) == \E m \in Meetings : row[m].key = key

(* One of the actions of the CEO's batch, which may hold the same request  *)
(* twice: the batch stays in hand until it is dropped.                     *)
CeoAsks ==
  LET key == <<plan.source, plan.ticket>>
  IN /\ plan # NoPlan
     /\ IF ~AskedFor(key) /\ MayMeet(plan.topic, plan.team, plan.recorder)
        THEN Opened(plan.topic, key, plan.recorder, FullRounds)
        ELSE Refused
     /\ UNCHANGED <<source, active, approval, plan, run>>

CeoDone == plan # NoPlan /\ plan' = NoPlan /\ UNCHANGED <<source, active, row, tickets>>

OperatorAsks(q) ==
  /\ MayMeet(q.topic, q.team, q.recorder)
  /\ Opened(q.topic, NoKey, q.recorder, q.rounds)
  /\ UNCHANGED <<source, active, approval, plan, run>>

-----------------------------------------------------------------------------
(* The ticket of a meeting. *)

Stands(m, status) == [latest EXCEPT ![m].status = status]

Follow(m, work, linked, retries) ==
  /\ Room
  /\ latest' = [latest EXCEPT ![m] = Ticket(@.no + 1, work, linked, retries)]

(* Somebody with the recorder's role leases the ticket and starts it; the  *)
(* participants are not looked at again.                                   *)
Start(m) ==
  /\ latest[m].work # "check" /\ latest[m].status = "PENDING"
  /\ \E e \in active : RoleOf[e] = RoleOf[row[m].recorder]
  /\ latest' = Stands(m, "EXECUTING")
  /\ run' = run \cup {[meeting |-> m, ticket |-> latest[m].no, linked |-> latest[m].linked,
                      result |-> "none"]}
  /\ UNCHANGED <<source, active, row, approval, plan>>

Consensus(m) == row[m].rounds >= FullRounds

(* All rounds and the outcome, in one transaction.                         *)
Outcome(m, late) ==
  IF Consensus(m)
  THEN [row[m] EXCEPT !.status = "CLOSED", !.review = "CHECKER_PENDING", !.late = @ \/ late]
  ELSE [row[m] EXCEPT !.status = "NO_CONSENSUS", !.review = "NONE", !.late = @ \/ late]

StatusOf(r) ==
  IF r.ticket = latest[r.meeting].no THEN latest[r.meeting].status ELSE "over"

Hold(r) ==
  /\ r.linked /\ r.result = "none"
  /\ row' = [row EXCEPT ![r.meeting] =
               Outcome(r.meeting, StatusOf(r) \notin {"EXECUTING", "CANCEL_REQUESTED"})]
  /\ run' = (run \ {r}) \cup
       {[r EXCEPT !.result = IF Consensus(r.meeting) THEN "completed" ELSE "failed"]}
  /\ UNCHANGED <<source, active, latest, approval, plan>>

(* A fix has no context of the meeting: a provider writes its consensus.   *)
Rewrite(r) ==
  /\ ~r.linked /\ r.result = "none"
  /\ run' = (run \ {r}) \cup {[r EXCEPT !.result = "completed"]}
  /\ UNCHANGED <<source, active, row, latest, approval, plan>>

(* The execution raises before it reaches the meeting.                     *)
Break(r) ==
  /\ r.result = "none"
  /\ run' = (run \ {r}) \cup {[r EXCEPT !.result = "failed"]}
  /\ UNCHANGED <<source, active, row, latest, approval, plan>>

(* A ticket that ended without a result is tried again, in the same transaction. *)
Fail(m) ==
  IF latest[m].retries < RetryBudget
  THEN Follow(m, latest[m].work, latest[m].linked, latest[m].retries + 1)
  ELSE latest' = Stands(m, "FAILED")

Report(r) ==
  /\ r.result # "none"
  /\ run' = run \ {r}
  /\ CASE StatusOf(r) = "EXECUTING" ->
            IF r.result = "completed"
            THEN Follow(r.meeting, "check", latest[r.meeting].linked, 0)
            ELSE Fail(r.meeting)
       [] StatusOf(r) = "CANCEL_REQUESTED" -> latest' = Stands(r.meeting, "CANCELLED")
       [] OTHER -> UNCHANGED latest
  /\ UNCHANGED <<source, active, row, approval, plan>>

(* A tick finds the ticket past its time; its execution may still be going. *)
TimeOut(m) ==
  /\ latest[m].status = "EXECUTING" /\ Fail(m)
  /\ UNCHANGED <<source, active, row, approval, plan, run>>

Crash == run # {} /\ run' = {} /\ UNCHANGED <<source, active, row, latest, approval, plan>>

Cancel(m) ==
  /\ \/ latest[m].status = "PENDING" /\ latest' = Stands(m, "CANCELLED")
     \/ latest[m].status = "EXECUTING" /\ latest' = Stands(m, "CANCEL_REQUESTED")
  /\ UNCHANGED <<source, active, row, approval, plan, run>>

(* An incident's recovery tries the last failure once more.                *)
Recover(m) ==
  /\ latest[m].status = "FAILED" /\ Follow(m, latest[m].work, latest[m].linked, latest[m].retries)
  /\ UNCHANGED <<source, active, row, approval, plan, run>>

-----------------------------------------------------------------------------
(* The checker and the board. *)

Checks(m) == latest[m].work = "check" /\ latest[m].status = "PENDING"

\* Mutant: the meeting is looked for in the checker's own spec only.
AskBoard_OwnSpec(m) ==
  /\ approval' = Append(approval, [meeting |-> m, linked |-> latest[m].linked, status |-> "OPEN"])
  /\ row' = row

(* The approval is created, and the meeting the maker's spec names gets its pack. *)
AskBoard(m) ==
  /\ approval' = Append(approval, [meeting |-> m, linked |-> latest[m].linked, status |-> "OPEN"])
  /\ row' = IF latest[m].linked
            THEN [row EXCEPT ![m] = [@ EXCEPT !.review = "BOARD_REVIEW_PENDING",
                                                  !.pack = Len(approval'), !.late = FALSE]]
            ELSE row

CheckerAccepts(m) ==
  /\ Checks(m) /\ AskBoard(m)
  /\ latest' = Stands(m, "COMPLETED")
  /\ UNCHANGED <<source, active, plan, run>>

(* _build_fix_ticket_payload leaves the context of the meeting behind.     *)
CheckerRefuses(m) ==
  /\ Checks(m) /\ Follow(m, "fix", FALSE, 0)
  /\ UNCHANGED <<source, active, row, approval, plan, run>>

(* The row is not told of the decision.                                    *)
Decide(a) ==
  /\ approval[a].status = "OPEN"
  /\ approval' = [approval EXCEPT ![a].status = "RESOLVED"]
  /\ UNCHANGED <<source, active, row, latest, plan, run>>

-----------------------------------------------------------------------------
(* The rest of the workflow: source nodes and the roster. *)

\* The last ticket within the bound stays under way.
SourceMoves(n) ==
  /\ source[n].ticket < MaxTurns
  /\ \/ source[n].status = "RUNNING"
        /\ \E s \in {"FAILED", "WAITING"} : source' = [source EXCEPT ![n].status = s]
     \/ source[n].status = "WAITING" /\ source' = [source EXCEPT ![n].status = "REFUSED"]
     \/ source[n].status \in {"FAILED", "REFUSED"}
        /\ source' = [source EXCEPT ![n] = [ticket |-> @.ticket + 1, status |-> "RUNNING"]]
  /\ UNCHANGED <<active, row, tickets, plan>>

FreezeOrRestore(e) ==
  /\ active' = IF e \in active THEN active \ {e} ELSE active \cup {e}
  /\ UNCHANGED <<source, row, tickets, plan>>

Ask ==
  \/ \E s \in Sources, kind \in Kinds : Think(s, kind)
  \/ CeoAsks
  \/ CeoDone
  \/ \E q \in OperatorAsksFor : OperatorAsks(q)

Work ==
  \/ \E m \in Meetings : Start(m) \/ TimeOut(m) \/ Cancel(m) \/ Recover(m)
  \/ \E r \in run : Hold(r) \/ Rewrite(r) \/ Break(r) \/ Report(r)
  \/ Crash

Review ==
  \/ \E m \in Meetings : CheckerAccepts(m) \/ CheckerRefuses(m)
  \/ \E a \in 1 .. Len(approval) : Decide(a)

World ==
  \/ \E n \in Nodes : SourceMoves(n)
  \/ \E e \in Leavers : FreezeOrRestore(e)

Next == Ask \/ Work \/ Review \/ World

Spec == Init /\ [][Next]_vars

-----------------------------------------------------------------------------
(* However requests of the CEO and of operators interleave with the runs,  *)
(* the retries and the fixes of earlier meetings, a topic never has two    *)
(* open meetings: the candidate the CEO asks from is stale by then.        *)
OneOpenPerTopic ==
  \A m1, m2 \in Meetings :
    row[m1].topic = row[m2].topic /\ row[m1].status = "OPEN" /\ row[m2].status = "OPEN" => m1 = m2

(* The CEO has one meeting for a failed or refused ticket, even when its   *)
(* first one is over before the next action of the same batch runs.        *)
OneMeetingPerSource ==
  \A m1, m2 \in Meetings :
    m1 # m2 => row[m1].key = NoKey \/ row[m1].key # row[m2].key

(* The board decides on meetings that reached consensus.  It finds the row *)
(* at the pack it decides on, unless the checker sent the consensus back:  *)
(* a fix, and the check of it, no longer name the meeting.  The row's      *)
(* review is behind only when an execution whose ticket was over wrote it  *)
(* after the checker.                                                      *)
BoardReadsTheMeeting ==
  \A a \in 1 .. Len(approval) :
    LET r == row[approval[a].meeting]
    IN approval[a].status = "OPEN" =>
         /\ r.status = "CLOSED"
         /\ approval[a].linked => r.pack = a /\ (r.review = "BOARD_REVIEW_PENDING" \/ r.late)
=============================================================================
