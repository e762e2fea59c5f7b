------------------------- MODULE WorkflowController -------------------------
(***************************************************************************)
(* How a workflow moves from its first document to its closeout:           *)
(* build_workflow_controller_view (core/workflow_controller.py) reads the  *)
(* projections and says what has to come next; a run of the CEO            *)
(* (core/ceo_scheduler.py) takes that view into its snapshot, proposes a   *)
(* batch of actions - a language model's, or the deterministic one of      *)
(* core/ceo_proposer.py - has it validated (core/ceo_validator.py) and     *)
(* executes it (core/ceo_executor.py).                                     *)
(*                                                                         *)
(* Runs are started after the commit of what they are about, in whatever   *)
(* thread that was, and by the scheduler when a workflow is idle.  Nothing *)
(* serializes them: the snapshot of one is old when its model answers, and *)
(* a crash between the commit and the run loses the run.                   *)
(*                                                                         *)
(* Tickets are seen node by node here: TicketLifecycle and ReviewRouting   *)
(* have their commands.  A node is queued, working, in review (again       *)
(* queued, then checking), at the board, done, or stuck on a failed ticket *)
(* that nobody retried.                                                    *)
(***************************************************************************)
EXTENDS Naturals, Sequences

CONSTANTS
  Chain,           \* GOVERNANCE_DOCUMENT_CHAIN_ORDER: the documents, in order
  Items,           \* the tickets the backlog recommends
  DependsOn,       \* item -> the items it depends on
  Closeout,        \* the delivery closeout package
  Gate,            \* the architect's governance document
  Meeting,         \* the technical decision meeting
  NoNode,
  RoleOf,          \* node -> the role its ticket needs
  Architect, NoRole,
  InitialStaff,    \* the roles somebody active has
  RequiresArchitect, RequiresMeeting,   \* the hard constraints
  LiveActions,     \* what a live model may propose; {} without one
  Runs, Maintainer,   \* the threads that run the CEO; one is the scheduler's
  Outcomes,        \* what may follow a failure: "retry", "incident", "abandon"
  MaxMishaps,      \* bound: failures and refusals together
  MaxCrashes       \* bound: restarts of the process

Docs  == {Chain[i] : i \in DOMAIN Chain}
Nodes == Docs \cup Items \cup {Closeout, Gate, Meeting}
Roles == {RoleOf[n] : n \in Nodes} \cup {Architect}
Kickoff == Head(Chain)
Backlog == Chain[Len(Chain)]

ASSUME WorkflowAssumption ==
  /\ Chain \in Seq(Docs) /\ Len(Chain) > 1
  /\ \A i, j \in DOMAIN Chain : Chain[i] = Chain[j] => i = j
  /\ Docs \cap Items = {}
  /\ Closeout # Gate /\ Closeout # Meeting /\ Gate # Meeting
  /\ {Closeout, Gate, Meeting} \cap (Docs \cup Items) = {} /\ NoNode \notin Nodes
  /\ DependsOn \in [Items -> SUBSET Items]
  /\ NoRole \notin Roles /\ InitialStaff \subseteq Roles
  /\ Maintainer \in Runs
  /\ Outcomes \subseteq {"retry", "incident", "abandon"}

VARIABLES
  node,      \* what the node's latest ticket is doing
  made,      \* nodes with a completed maker ticket
  passed,    \* nodes whose check ended in an approval
  created,   \* how many tickets the CEO has created on the node
  staff,     \* roles with an active employee
  hires,     \* role -> "none", "open" or "decided": its hire request
  incidents, \* nodes with an open incident
  scarred,   \* some ticket of the workflow failed and was retried
  minutes,   \* review_status of the meeting's row
  due,       \* the runs of the CEO that committed events have called for
  run,       \* what each run is doing
  mishaps, crashes

vars == <<node, made, passed, created, staff, hires, incidents, scarred, minutes, due,
          run, mishaps, crashes>>

Bounds == <<mishaps, crashes>>

(* Of a trigger only these matter: the board's directive, the failure of a *)
(* ticket, or any other change.                                            *)
Trigger(kind, n) == [kind |-> kind, node |-> n]

NoView ==
  [state |-> "none", plan |-> NoNode, items |-> {}, hire |-> NoRole,
   meeting |-> FALSE, staff |-> {}, closable |-> FALSE, kickoff |-> FALSE]

Resting == [pc |-> "idle", view |-> NoView, batch |-> {}]

Init ==   \* handle_project_init: the directive is in, its run is due
  /\ node = [n \in Nodes |-> "absent"]
  /\ made = {} /\ passed = {} /\ incidents = {} /\ scarred = FALSE /\ minutes = "none"
  /\ created = [n \in Nodes |-> 0]
  /\ staff = InitialStaff
  /\ hires = [r \in Roles |-> "none"]
  /\ due = {Trigger("directive", NoNode)}
  /\ run = [r \in Runs |-> Resting]
  /\ mishaps = 0 /\ crashes = 0

-----------------------------------------------------------------------------
(* What the projections say.                                               *)

Existing == {n \in Nodes : node[n] # "absent"}
Pending  == {n \in Nodes : node[n] \in {"queued", "check queued"}}
Working  == {n \in Nodes : node[n] \in {"working", "checking"}}
AtBoard  == {n \in Nodes : node[n] = "at board"}
Stuck    == {n \in Nodes : node[n] = "stuck"}
AllDone  == Existing # {} /\ \A n \in Existing : node[n] = "done"
Approvals == AtBoard \cup {r \in Roles : hires[r] = "open"}
Quiet     == Approvals = {} /\ incidents = {}

(* Delivery evidence: a completed ticket of the implementation.            *)
Evidence == made \cap Items # {}

(* resolve_workflow_closeout_completion.                                   *)
Complete == AllDone /\ Quiet /\ Evidence /\ Closeout \in made

(* A document counts as soon as its maker's ticket is completed.           *)
NextDocument ==
  LET open == {i \in DOMAIN Chain : Chain[i] \notin made} IN
  IF open = {} THEN NoNode
  ELSE Chain[CHOOSE i \in open : \A j \in open : i <= j]

(* _build_governance_progression_ticket_plan: without anyone to write the  *)
(* next document there is no plan at all.                                  *)
GovernancePlan ==
  LET next == NextDocument IN
  IF Complete \/ next = NoNode THEN NoNode
  ELSE IF RoleOf[next] \in staff THEN next ELSE NoNode

(* The backlog's content is read from its completed ticket; the failure of *)
(* a backlog ticket makes that ticket the source, and it has no content.   *)
Followups(trigger) ==
  IF GovernancePlan = NoNode /\ Backlog \in made
       /\ trigger # Trigger("failed", Backlog)
  THEN Items ELSE {}

StaffingGaps(items) == {RoleOf[i] : i \in items \ Existing} \ staff

(* _has_approved_meeting_evidence asks for a status that the routing of    *)
(* minutes has to have written.                                            *)
MeetingApproved == minutes \in {"APPROVED", "APPROVED_WITH_NOTES"}

MeetingCandidate ==
  /\ Architect \in staff
  /\ Quiet /\ (node[Meeting] = "absent" \/ minutes # "none")

ControllerState(trigger) ==
  LET items == Followups(trigger) IN
  CASE Approvals # {}               -> "WAIT_FOR_BOARD"
    [] Approvals = {} /\ incidents # {} -> "WAIT_FOR_INCIDENT"
    [] Quiet /\ Working # {}        -> "WAIT_FOR_RUNTIME"
    [] Quiet /\ Working = {} /\ Pending # {} -> "READY_TICKET"
    [] Quiet /\ Working \cup Pending = {} ->
         IF GovernancePlan # NoNode THEN "GOVERNANCE_REQUIRED"
         ELSE IF items = {} THEN "NO_IMMEDIATE_FOLLOWUP"
         ELSE IF RequiresArchitect /\ (Architect \notin staff \/ Gate \notin passed)
              THEN "ARCHITECT_REQUIRED"
         ELSE IF RequiresMeeting /\ ~MeetingApproved THEN "MEETING_REQUIRED"
         ELSE IF StaffingGaps(items) # {} THEN "STAFFING_REQUIRED"
         ELSE "READY_FOR_FANOUT"

(* build_ceo_shadow_snapshot, as far as a proposal and its validation look *)
(* at it.                                                                  *)
View(trigger) ==
  LET state == ControllerState(trigger)
      items == Followups(trigger)
      hire  == CASE state = "ARCHITECT_REQUIRED" /\ Architect \notin staff -> Architect
                 [] state = "STAFFING_REQUIRED" ->
                      CHOOSE r \in StaffingGaps(items) : TRUE
                 [] OTHER -> NoRole
  IN [state    |-> state,
      plan     |-> IF state = "ARCHITECT_REQUIRED" /\ Architect \in staff
                   THEN Gate ELSE GovernancePlan,
      items    |-> items,
      hire     |-> hire,
      meeting  |-> state = "MEETING_REQUIRED" /\ MeetingCandidate,
      staff    |-> staff,
      closable |-> Quiet /\ Working \cup Pending = {} /\ AllDone,
      kickoff  |-> trigger.kind = "directive" /\ Existing = {} /\ Quiet]

-----------------------------------------------------------------------------
(* Proposals.                                                              *)

Act(kind, on) == [kind |-> kind, on |-> on]
CreateOf(S)   == {Act("create", n) : n \in S}

(* Mutant: the recommendation of the backlog counts as a delivery.         *)
MayClose_Backlog(view) ==
  /\ view.closable /\ RoleOf[Closeout] \in view.staff
  /\ Closeout \notin Existing /\ (Evidence \/ Backlog \in made)

(* _build_autopilot_closeout_batch: the nodes are the snapshot's, the      *)
(* closeout and the evidence are looked up now.                            *)
MayClose(view) ==
  /\ view.closable /\ RoleOf[Closeout] \in view.staff
  /\ Closeout \notin Existing /\ Evidence

(* _build_backlog_followup_batch: whatever the state is, each recommended  *)
(* ticket that has an assignee, no node yet and all it depends on there.   *)
Fanout(view) ==
  {i \in view.items : /\ RoleOf[i] \in view.staff /\ i \notin Existing
                      /\ DependsOn[i] \subseteq Existing}

PlanToCreate(view) ==
  {n \in {view.plan} \ {NoNode} :
     /\ view.state \in {"GOVERNANCE_REQUIRED", "ARCHITECT_REQUIRED"}
     /\ RoleOf[n] \in view.staff /\ n \notin Existing}

Deterministic(view) ==
  IF MayClose(view) THEN CreateOf({Closeout})
  ELSE IF view.hire # NoRole THEN {Act("hire", view.hire)}
  ELSE IF view.meeting THEN {Act("meeting", Meeting)}
  ELSE IF PlanToCreate(view) # {} THEN CreateOf(PlanToCreate(view))
  ELSE IF Fanout(view) # {} THEN CreateOf(Fanout(view))
  ELSE IF view.kickoff /\ RoleOf[Kickoff] \in view.staff THEN CreateOf({Kickoff})
  ELSE {}

(* A live model proposes what it likes, here one action at a time.         *)
LiveBatches == IF LiveActions = {} THEN {} ELSE {{}} \cup {{a} : a \in LiveActions}

(* validate_ceo_action_batch: rows are read now, the plan is the           *)
(* snapshot's.  A hire that resembles somebody active is refused.          *)
Blocking == {"GOVERNANCE_REQUIRED", "ARCHITECT_REQUIRED", "MEETING_REQUIRED"}

(* Mutants: source code needs no plan; any document will do for the plan.  *)
MayCreate_AnyCode(view, n) ==
  /\ RoleOf[n] \in staff /\ n \notin Existing
  /\ n \in Items \/ view.plan \in {NoNode, n}

MayCreate_AnyDocument(view, n) ==
  /\ RoleOf[n] \in staff /\ n \notin Existing
  /\ view.plan = NoNode \/ n \in Docs \cup {Gate}
  /\ n \in Items => view.state \notin Blocking /\ (view.items = {} \/ n \in view.items)

MayCreate(view, n) ==
  /\ RoleOf[n] \in staff /\ n \notin Existing
  /\ view.plan \in {NoNode, n}
  /\ n \in Items => view.state \notin Blocking /\ (view.items = {} \/ n \in view.items)

Accepted(view, a) ==
  CASE a.kind = "create"  -> MayCreate(view, a.on)
    [] a.kind = "hire"    -> a.on \notin staff
    [] a.kind = "meeting" -> view.meeting
    [] a.kind = "retry"   -> a.on \in Stuck

-----------------------------------------------------------------------------
(* A run of the CEO.                                                       *)

World == <<node, made, passed, created, staff, hires, incidents, scarred, minutes>>

At(r, pc) == run[r].pc = pc

BeginRun(r, trigger) ==
  /\ At(r, "idle")
  /\ run' = [run EXCEPT ![r] = [Resting EXCEPT !.pc = "proposing", !.view = View(trigger)]]
  /\ UNCHANGED <<World, Bounds>>

Triggered(r) ==
  /\ r # Maintainer
  /\ \E t \in due : BeginRun(r, t) /\ due' = due \ {t}

(* Mutants: what list_due_ceo_maintenance_workflows takes for a sign that  *)
(* the workflow waits for the CEO: only tickets that wait to be dispatched.*)
IdleSignal_ReadyOnly == Pending # {}

(* _build_idle_maintenance_signals: every ticket completed or cancelled, a *)
(* ticket pending, or a failed one that is its node's latest.              *)
IdleSignal ==
  \/ Existing \subseteq {n \in Nodes : node[n] = "done"} /\ ~scarred
  \/ Pending # {}
  \/ Stuck # {}

(* run_due_ceo_maintenance, once the workflow has not changed for a while. *)
Maintain ==
  /\ ~Complete /\ Quiet /\ Working = {} /\ IdleSignal
  /\ BeginRun(Maintainer, Trigger("maintenance", NoNode))
  /\ UNCHANGED due

(* The model answers, or fails to: then the deterministic batch stands in. *)
(* The validation reads the rows right after and is one step with it; what *)
(* it lets through is executed later, action by action.                    *)
Propose(r) ==
  LET view == run[r].view IN
  /\ At(r, "proposing")
  /\ \E batch \in {Deterministic(view)} \cup LiveBatches :
       run' = [run EXCEPT ![r] =
         [pc |-> "executing", view |-> NoView,
          batch |-> {a \in batch : Accepted(view, a)}]]
  /\ UNCHANGED <<World, due, Bounds>>

Executed(r, a) == run' = [run EXCEPT ![r].batch = @ \ {a}]

(* The node's latest ticket is over, as handle_ticket_create wants it.     *)
NodeTakesTicket(n) == node[n] \in {"absent", "done", "stuck"}

(* Mutant: ticket-create without the idempotency key of the node.          *)
ExecuteCreate_NoKey(r, a) ==
  /\ a.kind = "create"
  /\ IF NodeTakesTicket(a.on)
     THEN /\ node' = [node EXCEPT ![a.on] = "queued"]
          /\ created' = [created EXCEPT ![a.on] = @ + 1]
     ELSE UNCHANGED <<node, created>>
  /\ UNCHANGED <<hires, scarred>>

(* The key names the node, so a second create of it is a DUPLICATE.        *)
ExecuteCreate(r, a) ==
  /\ a.kind = "create"
  /\ IF created[a.on] = 0 /\ NodeTakesTicket(a.on)
     THEN /\ node' = [node EXCEPT ![a.on] = "queued"]
          /\ created' = [created EXCEPT ![a.on] = @ + 1]
     ELSE UNCHANGED <<node, created>>
  /\ UNCHANGED <<hires, scarred>>

(* One request per employee to be hired, for ever.                         *)
ExecuteHire(r, a) ==
  /\ a.kind = "hire"
  /\ hires' = IF hires[a.on] = "none" THEN [hires EXCEPT ![a.on] = "open"] ELSE hires
  /\ UNCHANGED <<node, created, scarred>>

(* One meeting per source ticket, and not while its topic is open.         *)
ExecuteMeeting(r, a) ==
  /\ a.kind = "meeting"
  /\ IF created[Meeting] = 0
     THEN /\ node' = [node EXCEPT ![Meeting] = "queued"]
          /\ created' = [created EXCEPT ![Meeting] = 1]
     ELSE UNCHANGED <<node, created>>
  /\ UNCHANGED <<hires, scarred>>

ExecuteRetry(r, a) ==
  /\ a.kind = "retry"
  /\ IF a.on \in Stuck
     THEN node' = [node EXCEPT ![a.on] = "queued"] /\ scarred' = TRUE
     ELSE UNCHANGED <<node, scarred>>
  /\ UNCHANGED <<created, hires>>

Execute(r) ==
  /\ At(r, "executing")
  /\ \E a \in run[r].batch :
       /\ Executed(r, a)
       /\ \/ ExecuteCreate(r, a)
          \/ ExecuteHire(r, a)
          \/ ExecuteMeeting(r, a)
          \/ ExecuteRetry(r, a)
  /\ UNCHANGED <<made, passed, staff, incidents, minutes, due, Bounds>>

EndRun(r) ==
  /\ At(r, "executing") /\ run[r].batch = {}
  /\ run' = [run EXCEPT ![r] = Resting]
  /\ UNCHANGED <<World, due, Bounds>>

-----------------------------------------------------------------------------
(* The tickets, and the board's delegate.                                  *)

CallFor(kind, n) == due' = due \cup {Trigger(kind, n)}

(* The gates a ticket was created behind: the documents before it, the     *)
(* items it depends on.  A gate opens when its ticket is completed.        *)
GatesOf(n) ==
  CASE n \in Docs  -> {Chain[j] : j \in {k \in DOMAIN Chain :
                         \E i \in DOMAIN Chain : Chain[i] = n /\ k < i}}
    [] n \in Items -> DependsOn[n]
    [] OTHER       -> {}

Dispatch(n) ==
  /\ \/ /\ node[n] = "queued" /\ GatesOf(n) \subseteq made
        /\ node' = [node EXCEPT ![n] = "working"]
     \/ /\ node[n] = "check queued"
        /\ node' = [node EXCEPT ![n] = "checking"]
  /\ UNCHANGED <<made, passed, created, staff, hires, incidents, scarred, minutes, due, run, Bounds>>

(* _execute_meeting_runtime closes the meeting before its result is in.    *)
Deliver(n) ==
  /\ node[n] = "working"
  /\ node' = [node EXCEPT ![n] = "check queued"]
  /\ made' = made \cup {n}
  /\ minutes' = IF n = Meeting THEN "CHECKER_PENDING" ELSE minutes
  /\ CallFor("changed", n)
  /\ UNCHANGED <<passed, created, staff, hires, incidents, scarred, run, Bounds>>

(* The minutes of a meeting go to the board, the rest stays internal.  The *)
(* board's decision does not touch the meeting's row.                      *)
Approve(n) ==
  /\ node[n] = "checking"
  /\ IF n = Meeting
     THEN /\ node' = [node EXCEPT ![n] = "at board"] /\ UNCHANGED passed
          /\ minutes' = "BOARD_REVIEW_PENDING"
     ELSE /\ node' = [node EXCEPT ![n] = "done"] /\ passed' = passed \cup {n}
          /\ UNCHANGED minutes
  /\ CallFor("changed", n)
  /\ UNCHANGED <<made, created, staff, hires, incidents, scarred, run, Bounds>>

Refuse(n) ==
  /\ node[n] = "checking" /\ mishaps < MaxMishaps
  /\ node' = [node EXCEPT ![n] = "queued"]
  /\ mishaps' = mishaps + 1
  /\ CallFor("changed", n)
  /\ UNCHANGED <<made, passed, created, staff, hires, incidents, scarred, minutes, run, crashes>>

(* A ticket fails or times out: retried on the spot, or the node stays     *)
(* where it is, with an incident or without.                               *)
Fail(n) ==
  /\ n \in Working /\ mishaps < MaxMishaps
  /\ mishaps' = mishaps + 1
  /\ CallFor("failed", n)
  /\ \/ /\ "retry" \in Outcomes
        /\ node' = [node EXCEPT ![n] =
                      IF @ = "checking" THEN "check queued" ELSE "queued"]
        /\ scarred' = TRUE
        /\ UNCHANGED incidents
     \/ /\ "incident" \in Outcomes
        /\ node' = [node EXCEPT ![n] = "stuck"]
        /\ incidents' = incidents \cup {n}
        /\ UNCHANGED scarred
     \/ /\ "abandon" \in Outcomes
        /\ node' = [node EXCEPT ![n] = "stuck"]
        /\ UNCHANGED <<incidents, scarred>>
  /\ UNCHANGED <<made, passed, created, staff, hires, minutes, run, crashes>>

(* _maybe_auto_resolve_open_incident: restored, and the failed ticket is   *)
(* tried again.                                                            *)
ResolveIncident(n) ==
  /\ n \in incidents
  /\ incidents' = incidents \ {n}
  /\ IF n \in Stuck
     THEN node' = [node EXCEPT ![n] = "queued"] /\ scarred' = TRUE
     ELSE UNCHANGED <<node, scarred>>
  /\ CallFor("changed", n)
  /\ UNCHANGED <<made, passed, created, staff, hires, minutes, run, Bounds>>

(* _maybe_auto_resolve_open_approval: the delegate approves.               *)
ApproveHire(r) ==
  /\ hires[r] = "open"
  /\ hires' = [hires EXCEPT ![r] = "decided"]
  /\ staff' = staff \cup {r}
  /\ CallFor("changed", NoNode)
  /\ UNCHANGED <<node, made, passed, created, incidents, scarred, minutes, run, Bounds>>

ApproveAtBoard(n) ==
  /\ n \in AtBoard
  /\ node' = [node EXCEPT ![n] = "done"]
  /\ passed' = passed \cup {n}
  /\ CallFor("changed", n)
  /\ UNCHANGED <<made, created, staff, hires, incidents, scarred, minutes, run, Bounds>>

(* The process stops: what was due or running is forgotten.                *)
Crash ==
  /\ crashes < MaxCrashes
  /\ crashes' = crashes + 1
  /\ due' = {}
  /\ run' = [r \in Runs |-> Resting]
  /\ UNCHANGED <<World, mishaps>>

-----------------------------------------------------------------------------
Think(r) == Propose(r) \/ Execute(r) \/ EndRun(r)

Progress(n) == Dispatch(n) \/ Deliver(n) \/ Approve(n)

Decide ==
  \/ \E n \in Nodes : ResolveIncident(n) \/ ApproveAtBoard(n)
  \/ \E r \in Roles : ApproveHire(r)

Next ==
  \/ \E r \in Runs : Triggered(r) \/ Think(r)
  \/ Maintain
  \/ \E n \in Nodes : Progress(n) \/ Refuse(n) \/ Fail(n)
  \/ Decide
  \/ Crash

Spec == Init /\ [][Next]_vars

(* Threads run, the scheduler ticks and looks for idle workflows, workers  *)
(* answer, and the delegate decides what is open.                          *)
FairSpec ==
  /\ Spec
  /\ \A r \in Runs : WF_vars(Triggered(r)) /\ WF_vars(Think(r))
  /\ \A n \in Nodes : WF_vars(Progress(n))
  /\ WF_vars(Decide) /\ WF_vars(Maintain)

-----------------------------------------------------------------------------
States == {"absent", "queued", "working", "check queued", "checking", "at board",
           "done", "stuck"}

TypeOK ==
  /\ node \in [Nodes -> States]
  /\ made \subseteq Nodes /\ passed \subseteq made /\ incidents \subseteq Nodes
  /\ created \in [Nodes -> Nat]
  /\ staff \subseteq Roles /\ hires \in [Roles -> {"none", "open", "decided"}]
  /\ scarred \in BOOLEAN /\ minutes \in {"none", "CHECKER_PENDING", "BOARD_REVIEW_PENDING"}
  /\ mishaps \in 0 .. MaxMishaps /\ crashes \in 0 .. MaxCrashes
  /\ \A t \in due : t.node \in Nodes \cup {NoNode}
  /\ \A r \in Runs : run[r].pc \in {"idle", "proposing", "executing"}

(* However old the snapshots of two runs are, the CEO puts one ticket on a *)
(* node: what follows there are reviews, fixes and retries.                *)
CreatedOnce == \A n \in Nodes : created[n] <= 1

(* Whatever the model proposes, a document is only asked for once those    *)
(* before it have been written - as long as somebody active can write the  *)
(* next one: without a writer there is no plan, and nothing is refused.    *)
GovernanceInOrder ==
  \A i, j \in DOMAIN Chain :
    i < j /\ node[Chain[j]] # "absent" => Chain[i] \in made

(* Whatever the model proposes, implementation starts after the whole      *)
(* chain of documents has been written, as long as they have writers.      *)
CodeAfterDocuments == \A i \in Items : i \in Existing => Docs \subseteq made

(* The deterministic proposal never closes a workflow out of which nothing *)
(* was delivered, and never creates what nothing it needs is there for.    *)
CloseoutHasEvidence == Closeout \in Existing => Evidence

(* done.md, P0-CEO-009: the scheduler wakes the CEO of a workflow that     *)
(* waits for it, so that it does not stall because an event was missed:    *)
(* it reaches its closeout.                                                *)
Closes == <>Complete
=============================================================================
