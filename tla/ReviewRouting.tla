---------------------------- MODULE ReviewRouting ----------------------------
(***************************************************************************)
(* What becomes of a completed ticket: the maker-checker routing of        *)
(* core/ticket_handlers.py, the board's decisions of                       *)
(* core/approval_handlers.py and the merge gate of                         *)
(* core/project_workspaces.py, over the rows of TicketProjection.          *)
(*                                                                         *)
(* A ticket is made, checked by a ticket of kind "check" on the same node, *)
(* and sent back by a ticket of kind "fix", until the checker accepts; the *)
(* deliverables of some nodes then wait for the board.  The approval of    *)
(* one merges the branch of the source code it was built on.  How tickets  *)
(* are leased, timed out and recovered is TicketLifecycle's; here a        *)
(* dispatch starts the ticket at once.                                     *)
(***************************************************************************)
EXTENDS TicketProjection, FiniteSets

CONSTANTS
  Makers, Checkers,  \* employees, by the role profile of what they work on
  ReviewOf,          \* the review a node's deliverable asks for
  Code,              \* nodes whose deliverable is managed source code
  Upstream,          \* nodes whose tickets a node's ticket may follow
  CloseoutOf,        \* nodes the approval of a node's deliverable opens
  Findings,          \* fingerprints of blocking findings
  NoFinding,
  RetryBudget,       \* retry_budget of every ticket
  ReworkThreshold,   \* _resolve_repeat_failure_threshold
  EscalatesRepeats,  \* escalation_policy.on_repeat_failure = escalate_ceo
  Autopilot,         \* workflow_uses_ceo_board_delegate
  Commands,          \* what clients, the board and failures do here
  MaxCreates         \* exploration bound: tickets created by clients

ReviewKinds == {"NONE", "INTERNAL", "DIRECT", "BOARD"}

ASSUME RoutingAssumption ==
  /\ Makers \subseteq Employees /\ Checkers \subseteq Employees
  /\ ReviewOf \in [Nodes -> ReviewKinds]
  /\ Code \subseteq Nodes
  /\ Upstream \in [Nodes -> SUBSET Nodes]
  /\ CloseoutOf \in [Nodes -> SUBSET Nodes]
  /\ NoFinding \notin Findings
  /\ RetryBudget \in Nat /\ ReworkThreshold \in Nat \ {0}
  /\ EscalatesRepeats \in BOOLEAN /\ Autopilot \in BOOLEAN
  /\ MaxCreates \in Nat

VARIABLES
  store,     \* ticket and node rows, created payloads, workers, verdicts
  incident,  \* the open incident of a node
  approval,  \* approval_projection.status, by the ticket it is about
  git,       \* branches with a delivery, closeout receipts, the branches that
             \* were merged into main with what was on them
  txn        \* the approval whose branch is merged and not yet committed

vars == <<store, incident, approval, git, txn>>

RoutingSpecs ==
  [node : Nodes, parent : Tickets \cup {NoTicket}, retries : Nat,
   excluded : SUBSET Employees, kind : {"make", "check", "fix"},
   maker : Tickets \cup {NoTicket},
   finding : Findings \cup {NoFinding}, streak : Nat]

TypeOK ==
  /\ store \in
       [status : [Tickets -> Statuses \cup {"BLOCKED_FOR_BOARD_REVIEW", "REWORK_REQUIRED"}],
        spec : [Tickets -> RoutingSpecs],
        worker : [Tickets -> Employees \cup {NoOne}],
        verdict : [Tickets -> {"NONE", "APPROVED", "CHANGES_REQUIRED", "ESCALATED"}],
        latest : [Nodes -> Tickets \cup {NoTicket}],
        nodeStatus : [Nodes -> NodeStatuses \cup {"BLOCKED_FOR_BOARD_REVIEW"}]]
  /\ incident \in [Nodes -> {"NONE", "REWORK", "MERGE"}]
  /\ approval \in [Tickets -> {"NONE", "OPEN", "APPROVED", "REJECTED",
                               "MODIFIED_CONSTRAINTS"}]
  /\ git \in [branches : SUBSET Tickets, main : SUBSET Tickets,
              receipt : [Tickets -> {"NONE", "PENDING_REVIEW_GATE",
                                     "NOT_REQUESTED", "MERGED"}]]
  /\ txn \in Tickets \cup {NoTicket}

NewSpec(n, p) ==
  [node |-> n, parent |-> p, retries |-> 0, excluded |-> {}, kind |-> "make",
   maker |-> NoTicket, finding |-> NoFinding, streak |-> 0]

Init ==
  /\ store = [status |-> [t \in Tickets |-> "NONE"],
              spec |-> [t \in Tickets |-> NewSpec(CHOOSE n \in Nodes : TRUE, NoTicket)],
              worker |-> [t \in Tickets |-> NoOne],
              verdict |-> [t \in Tickets |-> "NONE"],
              latest |-> [n \in Nodes |-> NoTicket],
              nodeStatus |-> [n \in Nodes |-> "NONE"]]
  /\ incident = [n \in Nodes |-> "NONE"]
  /\ approval = [t \in Tickets |-> "NONE"]
  /\ git = [branches |-> {}, main |-> {}, receipt |-> [t \in Tickets |-> "NONE"]]
  /\ txn = NoTicket

Unlocked == txn = NoTicket

Accepts(command) == Unlocked /\ command \in Commands

-----------------------------------------------------------------------------
(* Events, as far as routing reads them.                                   *)

KindOf(t)   == store.spec[t].kind
ReviewOn(t) == ReviewOf[NodeOf(store, t)]

TicketMade(db, t, sp) == Moved([db EXCEPT !.spec[t] = sp], t, "PENDING")

(* TICKET_COMPLETED carries completed_by and a checker's review_status.    *)
TicketDone(db, t, verdict) ==
  Moved([db EXCEPT !.verdict[t] = verdict], t, "COMPLETED")

(* BOARD_REVIEW_REQUIRED, right after the completion.                      *)
BoardReviewRequired(db, t, verdict) ==
  Moved([db EXCEPT !.verdict[t] = verdict], t, "BLOCKED_FOR_BOARD_REVIEW")

-----------------------------------------------------------------------------
(* What the routing looks back at.                                         *)

(* resolve_source_code_ticket_from_chain: the nearest source code delivery *)
(* among a ticket and its ancestors, across nodes.                         *)
SourceOf(t) ==
  LET up[u \in Tickets] ==
        IF NodeOf(store, u) \in Code /\ KindOf(u) # "check" THEN u
        ELSE LET p == store.spec[u].parent
             IN IF p = NoTicket THEN NoTicket ELSE up[p]
  IN up[t]

(* Mutant: only the ticket under review counts, so no cap is reached.      *)
ReworkCycle_Forgets(t) ==
  IF KindOf(store.spec[t].parent) = "fix" THEN 2 ELSE 1

(* _calculate_maker_checker_rework_cycle_count: one more than the fix      *)
(* tickets among all ancestors, on whatever node.                          *)
ReworkCycle(t) ==
  LET fixes[u \in Tickets] ==
        LET p == store.spec[u].parent
        IN IF p = NoTicket THEN 0
           ELSE fixes[p] + (IF KindOf(p) = "fix" THEN 1 ELSE 0)
  IN 1 + fixes[t]

(* _calculate_maker_checker_rework_streak: how often the same finding came *)
(* back, as the fix ticket under review counted it.                        *)
ReworkStreak(t, f) ==
  LET p == store.spec[t].parent
  IN IF p # NoTicket /\ KindOf(p) = "fix" /\ store.spec[p].finding = f
     THEN store.spec[p].streak + 1 ELSE 1

(* A rejected checker verdict that autopilot turns into an acceptance.     *)
Converges(t) ==
  Autopilot /\ ReviewOn(t) = "INTERNAL" /\ ReworkCycle(t) >= ReworkThreshold

(* Mutant: one repetition too many.                                        *)
Escalates_Late(t, f) == EscalatesRepeats /\ ReworkStreak(t, f) > ReworkThreshold

Escalates(t, f) == EscalatesRepeats /\ ReworkStreak(t, f) >= ReworkThreshold

(* _build_maker_checker_ticket_payload.                                    *)
CheckerSpec(t) ==
  [NewSpec(NodeOf(store, t), t) EXCEPT !.kind = "check", !.maker = t]

(* Mutant: only the last maker is kept away.                               *)
FixSpec_ForgetsOlder(t, f) ==
  LET m == store.spec[t].maker
  IN [NewSpec(NodeOf(store, t), t) EXCEPT
        !.kind = "fix", !.maker = m, !.finding = f,
        !.streak = ReworkStreak(t, f), !.excluded = {store.worker[m]}]

(* _build_fix_ticket_payload: closed to the maker of what was refused and  *)
(* to whoever that maker's own ticket was closed to.                       *)
FixSpec(t, f) ==
  LET m == store.spec[t].maker
  IN [NewSpec(NodeOf(store, t), t) EXCEPT
        !.kind = "fix", !.maker = m, !.finding = f,
        !.streak = ReworkStreak(t, f),
        !.excluded = store.spec[m].excluded \cup {store.worker[m]}]

-----------------------------------------------------------------------------
(* Creation and dispatch.                                                  *)

Creations == {t \in Tickets : /\ Exists(store, t)
                              /\ KindOf(t) = "make" /\ store.spec[t].retries = 0}

(* Mutant: what waits for the board can be replaced.                       *)
NodeTakesTicket_Blocked(n) ==
  store.nodeStatus[n] \in {"NONE", "REWORK_REQUIRED", "BLOCKED_FOR_BOARD_REVIEW"}

NodeTakesTicket(n) == store.nodeStatus[n] \in {"NONE", "REWORK_REQUIRED"}

(* handle_ticket_create; a node without an upstream starts a chain.        *)
CreateTicket(n, p) ==
  /\ Accepts("create")
  /\ Cardinality(Creations) < MaxCreates
  /\ NodeTakesTicket(n)
  /\ IF Upstream[n] = {} THEN p = NoTicket
     ELSE /\ p # NoTicket /\ Exists(store, p)
          /\ NodeOf(store, p) \in Upstream[n] /\ KindOf(p) # "check"
  /\ \E t \in FreshIds(store) : store' = TicketMade(store, t, NewSpec(n, p))
  /\ UNCHANGED <<incident, approval, git, txn>>

Running == {t \in Tickets : store.status[t] = "EXECUTING"}

Free(t) ==
  (IF KindOf(t) = "check" THEN Checkers ELSE Makers)
    \ {store.worker[u] : u \in Running}

(* _should_relax_singleton_rework_exclusions: a fix goes to an excluded    *)
(* maker when no other is free.                                            *)
OpenTo(t) ==
  IF KindOf(t) = "fix" /\ Free(t) \subseteq store.spec[t].excluded
  THEN Free(t) ELSE Free(t) \ store.spec[t].excluded

(* Mutant: the ticket that was followed is enough, reviewed or not.        *)
UpstreamDone_TicketOnly(t) ==
  LET p == store.spec[t].parent
  IN p # NoTicket => store.status[p] = "COMPLETED"

(* _evaluate_delivery_stage_parent_dependency.                             *)
UpstreamDone(t) ==
  LET p == store.spec[t].parent
  IN p # NoTicket /\ NodeOf(store, p) # NodeOf(store, t)
       => store.nodeStatus[NodeOf(store, p)] = "COMPLETED"

UpstreamLost(t) ==
  LET p == store.spec[t].parent
  IN /\ p # NoTicket /\ NodeOf(store, p) # NodeOf(store, t)
     /\ store.nodeStatus[NodeOf(store, p)] = "CANCELLED"

(* A merge incident has no circuit breaker and stops nothing.              *)
Queued(t) ==
  /\ Unlocked
  /\ store.status[t] = "PENDING" /\ IsLatest(store, t)
  /\ store.nodeStatus[NodeOf(store, t)] = "PENDING"
  /\ incident[NodeOf(store, t)] # "REWORK"

Dispatch(t, e) ==
  /\ Queued(t) /\ UpstreamDone(t) /\ e \in OpenTo(t)
  /\ store' = Moved([store EXCEPT !.worker[t] = e], t, "EXECUTING")
  /\ UNCHANGED <<incident, approval, git, txn>>

(* TICKET_FAILED by the scheduler, without a retry.                        *)
DispatchFail(t) ==
  /\ Queued(t) /\ UpstreamLost(t)
  /\ store' = Moved(store, t, "FAILED")
  /\ UNCHANGED <<incident, approval, git, txn>>

-----------------------------------------------------------------------------
(* The ends of an execution that are not a result.                         *)

(* The attempt is retried within its budget, or its node waits for rework. *)
Ends(t, s) ==
  LET db == Moved(store, t, s)
  IN IF store.spec[t].retries < RetryBudget
     THEN \E n \in FreshIds(db) : store' = TicketMade(db, n, RetrySpec(db, t))
     ELSE store' = db

IsSource(t) == NodeOf(store, t) \in Code /\ KindOf(t) # "check"

(* The receipt of a source that ended says that nothing is to be merged.   *)
Unmerged(t) ==
  IF IsSource(t) THEN [git EXCEPT !.receipt[t] = "NOT_REQUESTED"] ELSE git

(* handle_ticket_fail.                                                     *)
Fail(t) ==
  /\ Unlocked /\ Executing(store, t)
  /\ Ends(t, "FAILED")
  /\ git' = Unmerged(t)
  /\ UNCHANGED <<incident, approval, txn>>

(* Mutant: a silent checker is waited for.                                 *)
TimeOut_MakersOnly(t) ==
  /\ Unlocked /\ Executing(store, t) /\ KindOf(t) # "check"
  /\ Ends(t, "TIMED_OUT")
  /\ UNCHANGED <<incident, approval, git, txn>>

TimeOut(t) ==
  /\ Unlocked /\ Executing(store, t)
  /\ Ends(t, "TIMED_OUT")
  /\ UNCHANGED <<incident, approval, git, txn>>

(* handle_ticket_cancel: also what waits for the board or for rework.      *)
Cancel(t) ==
  /\ Accepts("cancel")
  /\ Exists(store, t) /\ IsLatest(store, t)
  /\ store.status[t] \notin DeadStatus
  /\ \/ /\ store.status[t] = "EXECUTING"
        /\ store' = Moved(store, t, "CANCEL_REQUESTED")
        /\ UNCHANGED git
     \/ /\ store.status[t] # "EXECUTING"
        /\ store' = Moved(store, t, "CANCELLED")
        /\ git' = Unmerged(t)
  /\ UNCHANGED <<incident, approval, txn>>

(* The worker of a ticket that was asked to stop hands in a result.        *)
Stop(t) ==
  /\ Unlocked /\ store.status[t] = "CANCEL_REQUESTED"
  /\ store' = Moved(store, t, "CANCELLED")
  /\ UNCHANGED <<incident, approval, git, txn>>

-----------------------------------------------------------------------------
(* Results, routed by _complete_ticket_locked.                             *)

(* handle_ticket_result_submit commits the delivery on the ticket's branch *)
(* before its transaction: a ticket that ran when its result came in may    *)
(* have ended by then.                                                     *)
CommitDelivery(t) ==
  /\ IsSource(t) /\ store.worker[t] # NoOne /\ t \notin git.branches
  /\ store.status[t] = "EXECUTING" \/ "late commit" \in Commands
  /\ git' = [git EXCEPT !.branches = @ \cup {t},
                        !.receipt[t] = "PENDING_REVIEW_GATE"]
  /\ UNCHANGED <<store, incident, approval, txn>>

(* handle_ticket_completed, the older route, takes no delivery and makes   *)
(* no commit.                                                              *)
Finishes(t) ==
  /\ Unlocked /\ Executing(store, t)
  /\ IsSource(t) => t \in git.branches \/ "complete" \in Commands

(* The board is asked about a ticket.                                      *)
AskBoard(t, verdict) ==
  /\ store' = BoardReviewRequired(store, t, verdict)
  /\ approval' = [approval EXCEPT ![t] = "OPEN"]

SubmitUnreviewed(t) ==
  /\ Finishes(t) /\ KindOf(t) # "check" /\ ReviewOn(t) = "NONE"
  /\ store' = TicketDone(store, t, "NONE")
  /\ UNCHANGED <<incident, approval, git, txn>>

SubmitToBoard(t) ==
  /\ Finishes(t) /\ KindOf(t) # "check" /\ ReviewOn(t) = "DIRECT"
  /\ AskBoard(t, "NONE")
  /\ UNCHANGED <<incident, git, txn>>

(* _should_route_to_maker_checker.                                         *)
SubmitToChecker(t) ==
  /\ Finishes(t) /\ KindOf(t) # "check" /\ ReviewOn(t) \in {"INTERNAL", "BOARD"}
  /\ LET db == TicketDone(store, t, "NONE")
     IN \E c \in FreshIds(db) : store' = TicketMade(db, c, CheckerSpec(t))
  /\ UNCHANGED <<incident, approval, git, txn>>

(* Accepted by the checker, or in its name when autopilot has had enough:  *)
(* done, or on to the board.                                               *)
Accept(t, verdict) ==
  /\ Finishes(t) /\ KindOf(t) = "check"
  /\ verdict = "APPROVED" \/ Converges(t)
  /\ \/ /\ ReviewOn(t) = "INTERNAL"
        /\ store' = TicketDone(store, t, "APPROVED")
        /\ UNCHANGED approval
     \/ ReviewOn(t) = "BOARD" /\ AskBoard(t, "APPROVED")
  /\ UNCHANGED <<incident, git, txn>>

(* A checker's ticket that handle_ticket_completed finishes has no result  *)
(* and so no verdict, and what is not refused is let pass: an internal     *)
(* review ends there.  A board review needs the verdict for its summary;   *)
(* the error is caught inside the transaction and the rejection returned   *)
(* from there commits TICKET_COMPLETED, which says that the board was      *)
(* asked and therefore leaves the node row as it is.                       *)
CompleteUnjudged(t) ==
  /\ Accepts("complete") /\ Executing(store, t) /\ KindOf(t) = "check"
  /\ \/ ReviewOn(t) = "INTERNAL" /\ store' = TicketDone(store, t, "NONE")
     \/ /\ ReviewOn(t) = "BOARD"
        /\ store' = [store EXCEPT !.status[t] = "COMPLETED", !.verdict[t] = "NONE"]
  /\ UNCHANGED <<incident, approval, git, txn>>

ReworkIncident(n) == [incident EXCEPT ![n] = IF @ = "NONE" THEN "REWORK" ELSE @]

(* Refused: back to a maker, or an incident when the checker escalates or  *)
(* the same finding came back too often.  Either way the branch of the     *)
(* source behind the ticket is marked as not to be merged.                 *)
Refuse(t, verdict, f) ==
  /\ Finishes(t) /\ KindOf(t) = "check"
  /\ verdict # "APPROVED" /\ ~ Converges(t)
  /\ LET db == TicketDone(store, t, verdict)
     IN IF verdict = "ESCALATED" \/ Escalates(t, f)
        THEN /\ store' = db
             /\ incident' = ReworkIncident(NodeOf(store, t))
        ELSE /\ \E n \in FreshIds(db) : store' = TicketMade(db, n, FixSpec(t, f))
             /\ UNCHANGED incident
  /\ git' = IF SourceOf(t) = NoTicket THEN git
            ELSE [git EXCEPT !.receipt[SourceOf(t)] = "NOT_REQUESTED"]
  /\ UNCHANGED <<approval, txn>>

(* handle_incident_resolve: no other follow-up fits this incident.         *)
RestoreOnly(n) ==
  /\ Accepts("resolve") /\ incident[n] = "REWORK"
  /\ incident' = [incident EXCEPT ![n] = "NONE"]
  /\ UNCHANGED <<store, approval, git, txn>>

-----------------------------------------------------------------------------
(* The board.                                                              *)

(* Mutant: an open approval is all it takes.                               *)
Decidable_OpenOnly(t) == Unlocked /\ approval[t] = "OPEN"

(* _validate_open_approval and _validate_blocked_projection.               *)
Decidable(t) ==
  /\ Unlocked
  /\ approval[t] = "OPEN"
  /\ store.status[t] = "BLOCKED_FOR_BOARD_REVIEW"
  /\ IsLatest(store, t)
  /\ store.nodeStatus[NodeOf(store, t)] = "BLOCKED_FOR_BOARD_REVIEW"

(* The deliverable an approval is about: what the checker checked.         *)
Subject(t) == IF KindOf(t) = "check" THEN store.spec[t].maker ELSE t

(* _resolve_review_gate_source_code_ticket.                                *)
GateSource(t) == IF ReviewOn(t) = "BOARD" THEN SourceOf(Subject(t)) ELSE NoTicket

(* handle_ticket_lease makes the branch of a source.                       *)
HasBranch(s) == s \in Tickets /\ store.worker[s] # NoOne

(* The approval of a milestone first merges the branch of its source into  *)
(* main, outside the reach of the transaction that records the approval.   *)
(* A branch nothing was delivered on merges as well.                       *)
ApproveMerge(t) ==
  /\ Decidable(t) /\ HasBranch(GateSource(t))
  /\ git' = [git EXCEPT !.main = @ \cup {GateSource(t)},
                        !.receipt[GateSource(t)] = "MERGED"]
  /\ txn' = t
  /\ UNCHANGED <<store, incident, approval>>

(* git refuses the merge, or there is nothing to merge: an incident        *)
(* without a breaker.                                                      *)
MergeConflict(t) ==
  /\ Decidable(t) /\ GateSource(t) # NoTicket
  /\ HasBranch(GateSource(t)) =>
       "conflict" \in Commands /\ GateSource(t) \in git.branches \ git.main
  /\ incident' = [incident EXCEPT ![NodeOf(store, t)] =
                    IF @ = "NONE" THEN "MERGE" ELSE @]
  /\ UNCHANGED <<store, approval, git, txn>>

(* Mutant: an approval does not wait for the merge.                        *)
MayRecordApproval_Unmerged(t) == Decidable(t)

MayRecordApproval(t) ==
  \/ txn = t
  \/ Decidable(t) /\ GateSource(t) = NoTicket

(* BOARD_REVIEW_APPROVED, and the closeout ticket of a final review, once. *)
ApproveCommit(t) ==
  LET db    == Moved(store, t, "COMPLETED")
      opens == {n \in CloseoutOf[NodeOf(store, t)] : store.latest[n] = NoTicket}
  IN /\ t # NoTicket /\ MayRecordApproval(t)
     /\ approval' = [approval EXCEPT ![t] = "APPROVED"]
     /\ IF opens = {} THEN store' = db
        ELSE \E n \in opens, c \in FreshIds(db) :
               store' = TicketMade(db, c, NewSpec(n, Subject(t)))
     /\ txn' = NoTicket
     /\ UNCHANGED <<incident, git>>

(* The process dies, or the transaction fails, after the merge.            *)
Crash ==
  /\ ~ Unlocked /\ "crash" \in Commands
  /\ txn' = NoTicket
  /\ UNCHANGED <<store, incident, approval, git>>

(* handle_board_reject and handle_modify_constraints.                      *)
SendBack(t, decision) ==
  /\ Decidable(t) /\ "reject" \in Commands
  /\ approval' = [approval EXCEPT ![t] = decision]
  /\ store' = Moved(store, t, "REWORK_REQUIRED")
  /\ git' = IF GateSource(t) = NoTicket THEN git
            ELSE [git EXCEPT !.receipt[GateSource(t)] = "NOT_REQUESTED"]
  /\ UNCHANGED <<incident, txn>>

-----------------------------------------------------------------------------
Create == \E n \in Nodes, p \in Tickets \cup {NoTicket} : CreateTicket(n, p)

Work ==
  \E t \in Tickets :
    \/ \E e \in Employees : Dispatch(t, e)
    \/ DispatchFail(t) \/ Fail(t) \/ TimeOut(t) \/ Cancel(t) \/ Stop(t)
    \/ CommitDelivery(t)
    \/ SubmitUnreviewed(t) \/ SubmitToBoard(t) \/ SubmitToChecker(t)

Check ==
  \/ \E t \in Tickets, v \in {"APPROVED", "CHANGES_REQUIRED", "ESCALATED"} :
       Accept(t, v) \/ \E f \in Findings : Refuse(t, v, f)
  \/ \E t \in Tickets : CompleteUnjudged(t)
  \/ \E n \in Nodes : RestoreOnly(n)

Board ==
  \/ \E t \in Tickets :
       \/ ApproveMerge(t) \/ MergeConflict(t) \/ ApproveCommit(t)
       \/ SendBack(t, "REJECTED") \/ SendBack(t, "MODIFIED_CONSTRAINTS")
  \/ Crash

Next == Create \/ Work \/ Check \/ Board

Spec == Init /\ [][Next]_vars

(* The runner ticks for ever: when something may be leased, something is,  *)
(* and what runs beyond its SLA is timed out.  Nothing is assumed of       *)
(* workers, checkers and the board.                                        *)
FairSpec ==
  /\ Spec
  /\ SF_vars(\E t \in Tickets, e \in Employees : Dispatch(t, e))
  /\ WF_vars(\E t \in Tickets : TimeOut(t))

-----------------------------------------------------------------------------
(* Properties.                                                             *)

Refused(t) ==
  store.status[t] = "COMPLETED" /\ store.verdict[t] \in {"CHANGES_REQUIRED", "ESCALATED"}

(* Completed by a checker's ticket that gave no verdict.                   *)
Unjudged(t) ==
  KindOf(t) = "check" /\ store.status[t] = "COMPLETED" /\ store.verdict[t] = "NONE"

(* The latest deliverable of a node passed the review its node asks for.   *)
Accepted(n) ==
  LET t == store.latest[n]
  IN /\ t # NoTicket /\ store.status[t] = "COMPLETED"
     /\ CASE ReviewOf[n] = "NONE"     -> TRUE
          [] ReviewOf[n] = "INTERNAL" -> KindOf(t) = "check" /\ store.verdict[t] = "APPROVED"
          [] OTHER                    -> approval[t] = "APPROVED"

(* The node a running ticket's parent belongs to, if it is another one.    *)
UpstreamNodes(t) ==
  {NodeOf(store, p) : p \in {store.spec[t].parent} \ {NoTicket}} \ {NodeOf(store, t)}

(* A ticket runs only when the node it follows is past its review: while   *)
(* that node is made, checked, reworked or before the board, and when it   *)
(* was dropped, nothing downstream starts or still runs.  Past its review  *)
(* is what was accepted, what the checker escalated, and what a checker's  *)
(* ticket completed without a verdict; nothing is past a board review but  *)
(* what the board approved.                                                *)
DownstreamWaitsForReview ==
  \A t \in Running : \A n \in UpstreamNodes(t) :
    \/ Accepted(n)
    \/ Refused(store.latest[n])
    \/ ReviewOf[n] = "INTERNAL" /\ Unjudged(store.latest[n])

(* The board's queue and the blocked rows agree: whatever waits for the    *)
(* board has an open approval the board can act on, and an open approval   *)
(* is about a ticket that waits or was cancelled while it did.             *)
BoardQueueAgrees ==
  \A t \in Tickets :
    /\ store.status[t] = "BLOCKED_FOR_BOARD_REVIEW" =>
         /\ approval[t] = "OPEN" /\ IsLatest(store, t)
         /\ store.nodeStatus[NodeOf(store, t)] = "BLOCKED_FOR_BOARD_REVIEW"
    /\ approval[t] = "OPEN" =>
         store.status[t] \in {"BLOCKED_FOR_BOARD_REVIEW", "CANCELLED"}

(* A fix goes to none of the makers whose work was refused on the way to   *)
(* it, unless they are the only ones who are free.                         *)
RefusedMakers(t) ==
  {store.worker[store.spec[c].maker] :
     c \in {c \in Lineage(store, t) : KindOf(c) = "check" /\ Refused(c)}}

FreshEyes ==
  [][\A t \in Tickets :
       /\ KindOf(t) = "fix"
       /\ store.status[t] = "PENDING" /\ store'.status[t] = "EXECUTING"
       => \/ store'.worker[t] \notin RefusedMakers(t)
          \/ Free(t) \subseteq RefusedMakers(t)]_vars

(* Under autopilot the loop of fixes on a node with an internal review     *)
(* ends, whatever the findings are and however often attempts are retried. *)
ReworkBounded ==
  \A t \in Tickets :
    Autopilot /\ Exists(store, t) /\ ReviewOn(t) = "INTERNAL" =>
      Cardinality({u \in Lineage(store, t) :
                     KindOf(u) = "fix" /\ store.spec[u].retries = 0}) < ReworkThreshold

(* The same finding does not come back for ever: fixes for one finding in  *)
(* a row, each refused for it again by the first checker that looks, are   *)
(* fewer than the threshold, although the count is only handed on from one *)
(* payload to the next.  (A checker that is retried starts a new row.)     *)
FixRow(t) ==
  LET row[u \in Tickets] ==
        LET c == store.spec[u].parent
            m == store.spec[c].parent
        IN IF KindOf(u) # "fix" THEN 0
           ELSE IF KindOf(c) = "fix" THEN row[c]
           ELSE IF /\ store.spec[c].retries = 0 /\ KindOf(m) = "fix"
                   /\ store.spec[m].finding = store.spec[u].finding
                THEN 1 + row[m] ELSE 1
  IN row[t]

RepeatsEscalate ==
  \A t \in Tickets :
    EscalatesRepeats /\ Exists(store, t) /\ KindOf(t) = "fix"
      => FixRow(t) < ReworkThreshold

(* Database and git agree, also when the process dies between the two: a   *)
(* milestone is approved, and a receipt says MERGED, only when main holds  *)
(* the branch.                                                             *)
GateAgrees ==
  \A t \in Tickets :
    /\ approval[t] = "APPROVED" /\ GateSource(t) # NoTicket => GateSource(t) \in git.main
    /\ git.receipt[t] = "MERGED" => t \in git.main

(* The routing keeps the contract of ReviewContract for every node.        *)
StageOf(n) ==
  LET t == store.latest[n]
      s == store.nodeStatus[n]
  IN CASE s = "NONE" -> "none"
       [] s \in {"PENDING", "EXECUTING", "CANCEL_REQUESTED"} ->
            IF KindOf(t) = "check" THEN "checking" ELSE "making"
       [] s = "BLOCKED_FOR_BOARD_REVIEW" -> "deciding"
       [] s = "COMPLETED" ->
            IF Refused(t) THEN "escalated" ELSE IF Unjudged(t) THEN "unjudged" ELSE "done"
       [] s = "CANCELLED" -> "dropped"
       [] OTHER -> "rework"

Contract == INSTANCE ReviewContract WITH stage <- [n \in Nodes |-> StageOf(n)]

ContractKept == Contract!ContractSpec

(* Under autopilot no node is made and checked for ever: what is started   *)
(* is done, refused for good or given back, whatever workers and checkers  *)
(* answer and even if they never do.                                       *)
EveryReviewEnds ==
  \A n \in Nodes :
    StageOf(n) \in {"making", "checking"} ~> StageOf(n) \notin {"making", "checking"}
=============================================================================
