---------------------- MODULE WorkflowController_proofs ----------------------
(***************************************************************************)
(* Proofs about the CEO's runs: however many threads run it, however old   *)
(* the snapshot of each of them is, and whatever a live model proposes,    *)
(* the documents come in order, the code after them, and a closeout after  *)
(* a delivery.                                                             *)
(*                                                                         *)
(* The argument: what a node needs to be created (Needs) is a lower bound  *)
(* on the tickets completed, which only grow.  It is established when the  *)
(* snapshot is taken, survives in the snapshot until the proposal is       *)
(* validated, and in the batch until each action of it is executed.        *)
(***************************************************************************)
EXTENDS WorkflowController, WellFoundedInduction, TLAPS

(* Somebody can write every document from the start: the first role of     *)
(* every entry of _GOVERNANCE_ROLE_PRIORITY_BY_SCHEMA is the one of the    *)
(* engineer of DEFAULT_EMPLOYEE_ROSTER.                                    *)
DocsStaffed == \A n \in Docs : RoleOf[n] \in InitialStaff

(* What has to be among the completed before a ticket is created on `n`.   *)
Needs(n, done) ==
  /\ DocsStaffed =>
       /\ \A i, j \in DOMAIN Chain : i < j /\ Chain[j] = n => Chain[i] \in done
       /\ n \in Items => Docs \subseteq done
  /\ LiveActions = {} /\ n = Closeout => done \cap Items # {}

(* What a snapshot says, however much later it is used.                    *)
ViewFine(view, done) ==
  /\ view.plan \in Docs \cup {Gate, NoNode}
  /\ view.items \subseteq Items
  /\ DocsStaffed =>
       /\ \A i, j \in DOMAIN Chain : i < j /\ Chain[j] = view.plan => Chain[i] \in done
       /\ view.plan = NoNode => Docs \subseteq done

(* What has been validated.                                                *)
BatchFine(batch, done) == \A a \in batch : a.kind = "create" => Needs(a.on, done)

(* A run is a record of three fields.                                      *)
Fields == {"pc", "view", "batch"}
RunShape(r) == r = [f \in Fields |-> r[f]]

RunsShape ==
  /\ DOMAIN run = Runs
  /\ \A r \in Runs :
       /\ RunShape(run[r])
       /\ run[r].pc \in {"idle", "proposing", "executing"}

(* The inductive invariant.                                                *)
CInv ==
  /\ node \in [Nodes -> States]
  /\ created \in [Nodes -> Nat]
  /\ made \subseteq Existing
  /\ InitialStaff \subseteq staff
  /\ RunsShape
  /\ \A n \in Existing : Needs(n, made)
  /\ \A r \in Runs :
       /\ run[r].pc = "proposing" => ViewFine(run[r].view, made)
       /\ run[r].pc = "executing" => BatchFine(run[r].batch, made)
  /\ CreatedOnce

-----------------------------------------------------------------------------
(* The least element of a set of numbers.                                  *)
LEMMA LeastNumber ==
  ASSUME NEW T, T \subseteq Nat, T # {}
  PROVE  \E m \in T : \A n \in T : m <= n
  <1>1. PICK m \in T : \A n \in T : <<n, m>> \notin OpToRel(<, Nat)
    BY WFMin, NatLessThanWellFounded
  <1>2. \A n \in T : ~(n < m)
    BY <1>1 DEF OpToRel
  <1> QED
    BY <1>2

(* The next document is the first unwritten one of the chain.              *)
LEMMA NextIsFirst ==
  \/ NextDocument = NoNode /\ Docs \subseteq made
  \/ \E k \in DOMAIN Chain :
       /\ NextDocument = Chain[k] /\ Chain[k] \notin made
       /\ \A j \in DOMAIN Chain : Chain[j] \notin made => k <= j
  <1> DEFINE open == {i \in DOMAIN Chain : Chain[i] \notin made}
             first == CHOOSE i \in open : \A j \in open : i <= j
  <1>1. CASE open = {}
    BY <1>1 DEF NextDocument, Docs
  <1>2. CASE open # {}
    <2>1. open \subseteq Nat
      BY WorkflowAssumption
    <2>2. first \in open /\ \A j \in open : first <= j
      <3> HIDE DEF open
      <3> QED
        BY <1>2, <2>1, LeastNumber
    <2>3. NextDocument = Chain[first]
      BY <1>2 DEF NextDocument
    <2> QED
      BY <2>2, <2>3
  <1> QED
    BY <1>1, <1>2

(* The documents before a position of the chain are those with a smaller   *)
(* index: no document is in the chain twice.                               *)
LEMMA ChainDistinct ==
  ASSUME NEW j \in DOMAIN Chain, NEW k \in DOMAIN Chain, Chain[j] = Chain[k]
  PROVE  j = k
  BY WorkflowAssumption

(* The fixed nodes are no documents and no items.                          *)
LEMMA FixedNodes ==
  /\ Gate \notin Docs \cup Items /\ Meeting \notin Docs \cup Items
  /\ Closeout \notin Docs \cup Items
  /\ Closeout # Gate /\ Closeout # Meeting
  /\ NoNode \notin Docs \cup Items \cup {Gate, Meeting, Closeout}
  /\ Docs \cap Items = {} /\ Items \subseteq Nodes
  /\ \A i \in DOMAIN Chain : Chain[i] \in Docs
  BY WorkflowAssumption DEF Nodes, Docs

-----------------------------------------------------------------------------
(* A snapshot asks for the first unwritten document, or for nothing when   *)
(* all of them are written.                                                *)
LEMMA PlanFine ==
  ASSUME CInv
  PROVE  /\ GovernancePlan \in Docs \cup {NoNode}
         /\ DocsStaffed =>
              /\ \A i, j \in DOMAIN Chain :
                   i < j /\ Chain[j] = GovernancePlan => Chain[i] \in made
              /\ GovernancePlan = NoNode => Docs \subseteq made
  <1>1. CASE Complete
    <2>1. GovernancePlan = NoNode
      BY <1>1 DEF GovernancePlan
    <2>2. PICK i \in Items : i \in made
      BY <1>1 DEF Complete, Evidence
    <2>3. DocsStaffed => Docs \subseteq made
      BY <2>2 DEF CInv, Needs
    <2> QED
      BY <2>1, <2>3, FixedNodes
  <1>2. CASE ~Complete /\ NextDocument = NoNode
    <2>1. GovernancePlan = NoNode
      BY <1>2 DEF GovernancePlan
    <2>2. Docs \subseteq made
      BY <1>2, NextIsFirst, FixedNodes
    <2> QED
      BY <2>1, <2>2, FixedNodes
  <1>3. CASE ~Complete /\ NextDocument # NoNode
    <2>1. PICK k \in DOMAIN Chain :
            /\ NextDocument = Chain[k] /\ Chain[k] \notin made
            /\ \A j \in DOMAIN Chain : Chain[j] \notin made => k <= j
      BY <1>3, NextIsFirst
    <2>2. GovernancePlan \in {Chain[k], NoNode}
      BY <1>3, <2>1 DEF GovernancePlan
    <2>3. DocsStaffed => GovernancePlan = Chain[k]
      BY <1>3, <2>1, FixedNodes DEF GovernancePlan, DocsStaffed, CInv
    <2>4. \A i, j \in DOMAIN Chain : i < j /\ Chain[j] = Chain[k] => Chain[i] \in made
      <3> SUFFICES ASSUME NEW i \in DOMAIN Chain, NEW j \in DOMAIN Chain,
                          i < j, Chain[j] = Chain[k]
                   PROVE  Chain[i] \in made
        OBVIOUS
      <3>1. j = k
        BY ChainDistinct
      <3>2. DOMAIN Chain \subseteq Nat
        BY WorkflowAssumption
      <3> QED
        BY <2>1, <3>1, <3>2
    <2> QED
      BY <2>2, <2>3, <2>4, FixedNodes
  <1> QED
    BY <1>1, <1>2, <1>3

(* So does the snapshot, where the architect's gate may stand in.          *)
LEMMA SnapshotFine ==
  ASSUME CInv, NEW trigger PROVE ViewFine(View(trigger), made)
  <1> DEFINE view == View(trigger)
  <1>1. view.plan \in {Gate, GovernancePlan} /\ view.items \subseteq Items
    BY DEF View, Followups
  <1> HIDE DEF view
  <1>2. ViewFine(view, made)
    BY <1>1, PlanFine, FixedNodes DEF ViewFine
  <1> QED
    BY <1>2 DEF view

-----------------------------------------------------------------------------
(* What was enough stays enough when more is completed.                    *)
LEMMA StaysFine ==
  ASSUME NEW done, NEW more, done \subseteq more
  PROVE  /\ \A n : Needs(n, done) => Needs(n, more)
         /\ \A view : ViewFine(view, done) => ViewFine(view, more)
         /\ \A batch : BatchFine(batch, done) => BatchFine(batch, more)
  <1>1. \A n : Needs(n, done) => Needs(n, more)
    BY DEF Needs
  <1>2. \A view : ViewFine(view, done) => ViewFine(view, more)
    BY DEF ViewFine
  <1> QED
    BY <1>1, <1>2 DEF BatchFine

(* A step keeps the invariant when nothing completed is forgotten, what is *)
(* new was needed for, and runs keep what they had or get something fine.  *)
LEMMA StepFine ==
  ASSUME CInv, made \subseteq made',
         node' \in [Nodes -> States], made' \subseteq Existing',
         created' \in [Nodes -> Nat], CreatedOnce', InitialStaff \subseteq staff',
         RunsShape',
         \A n \in Existing' : n \in Existing \/ Needs(n, made),
         \A r \in Runs :
           /\ run'[r].pc = "proposing" => ViewFine(run'[r].view, made)
           /\ run'[r].pc = "executing" => BatchFine(run'[r].batch, made)
  PROVE  CInv'
  <1>1. \A n \in Existing' : Needs(n, made')
    BY StaysFine DEF CInv
  <1>2. \A r \in Runs :
          /\ run'[r].pc = "proposing" => ViewFine(run'[r].view, made')
          /\ run'[r].pc = "executing" => BatchFine(run'[r].batch, made')
    BY StaysFine
  <1> QED
    BY <1>1, <1>2 DEF CInv

(* A step of the tickets or of the board: the runs are left alone, and no  *)
(* node appears or disappears.                                             *)
LEMMA TicketStep ==
  ASSUME CInv, UNCHANGED <<run, created>>, made \subseteq made',
         made' \subseteq Existing, staff \subseteq staff',
         node' \in [Nodes -> States],
         \A n \in Nodes : node'[n] = "absent" <=> node[n] = "absent"
  PROVE  CInv'
  <1>1. Existing' = Existing
    BY DEF Existing
  <1>2. RunsShape' /\ CreatedOnce'
    BY DEF CInv, RunsShape, CreatedOnce
  <1>3. \A r \in Runs :
          /\ run'[r].pc = "proposing" => ViewFine(run'[r].view, made)
          /\ run'[r].pc = "executing" => BatchFine(run'[r].batch, made)
    BY DEF CInv
  <1> QED
    BY <1>1, <1>2, <1>3, StepFine DEF CInv

(* A step of one run: what the others hold is left alone.                  *)
LEMMA RunsKept ==
  ASSUME CInv, NEW r \in Runs, NEW new, RunShape(new),
         run' = [run EXCEPT ![r] = new],
         new.pc \in {"idle", "proposing", "executing"},
         new.pc = "proposing" => ViewFine(new.view, made),
         new.pc = "executing" => BatchFine(new.batch, made)
  PROVE  /\ RunsShape'
         /\ \A q \in Runs :
              /\ run'[q].pc = "proposing" => ViewFine(run'[q].view, made)
              /\ run'[q].pc = "executing" => BatchFine(run'[q].batch, made)
  <1>1. \A q \in Runs : run'[q] = IF q = r THEN new ELSE run[q]
    BY DEF CInv, RunsShape
  <1>2. RunsShape'
    BY <1>1 DEF CInv, RunsShape, RunShape
  <1>3. \A q \in Runs :
          /\ run'[q].pc = "proposing" => ViewFine(run'[q].view, made)
          /\ run'[q].pc = "executing" => BatchFine(run'[q].batch, made)
    BY <1>1 DEF CInv
  <1> QED
    BY <1>2, <1>3

(* A step of one run that changes nothing else.                            *)
LEMMA ThinkStep ==
  ASSUME CInv, NEW r \in Runs, NEW new, RunShape(new),
         run' = [run EXCEPT ![r] = new],
         UNCHANGED <<node, made, created, staff>>,
         new.pc \in {"idle", "proposing", "executing"},
         new.pc = "proposing" => ViewFine(new.view, made),
         new.pc = "executing" => BatchFine(new.batch, made)
  PROVE  CInv'
  <1>1. Existing' = Existing /\ CreatedOnce'
    BY DEF Existing, CInv, CreatedOnce
  <1> QED
    BY <1>1, RunsKept, StepFine DEF CInv

-----------------------------------------------------------------------------
(* The snapshot is taken.                                                  *)
LEMMA BeginKeeps ==
  ASSUME CInv, NEW r \in Runs, NEW trigger, BeginRun(r, trigger) PROVE CInv'
  <1> DEFINE view == View(trigger)
             new  == [Resting EXCEPT !.pc = "proposing", !.view = view]
  <1>1. ViewFine(view, made)
    BY SnapshotFine
  <1>2. run' = [run EXCEPT ![r] = new]
    BY DEF BeginRun
  <1>3. UNCHANGED <<node, made, created, staff>>
    BY DEF BeginRun, World
  <1> HIDE DEF view
  <1>4. RunShape(Resting)
    BY DEF RunShape, Fields, Resting
  <1>5. RunShape(new) /\ new.pc = "proposing" /\ new.view = view
    BY <1>4 DEF RunShape, Fields
  <1> HIDE DEF new
  <1> QED
    BY <1>1, <1>2, <1>3, <1>5, ThinkStep

(* What the deterministic proposal creates is the closeout only with its   *)
(* evidence there.                                                         *)
LEMMA DeterministicCloseout ==
  ASSUME NEW view, ViewFine(view, made), NEW a \in Deterministic(view),
         a.kind = "create", a.on = Closeout
  PROVE  Evidence
  <1>1. CASE MayClose(view)
    BY <1>1 DEF MayClose
  <1>2. CASE ~MayClose(view)
    <2>1. \A S, b : b \in CreateOf(S) => b.on \in S
      BY DEF CreateOf, Act
    <2>2. Closeout \notin PlanToCreate(view)
      BY FixedNodes DEF ViewFine, PlanToCreate
    <2>3. Closeout \notin Fanout(view)
      BY FixedNodes DEF ViewFine, Fanout
    <2>4. Kickoff # Closeout
      <3>1. 1 \in DOMAIN Chain /\ Kickoff = Chain[1]
        BY WorkflowAssumption DEF Kickoff
      <3> QED
        BY <3>1, FixedNodes
    <2>5. \A k, n : Act(k, n).kind = k /\ Act(k, n).on = n
      BY DEF Act
    <2> QED
      BY <1>2, <2>1, <2>2, <2>3, <2>4, <2>5 DEF Deterministic
  <1> QED
    BY <1>1, <1>2

(* The proposal is validated against the snapshot.                         *)
LEMMA AcceptedFine ==
  ASSUME NEW view, ViewFine(view, made),
         NEW batch \in {Deterministic(view)} \cup LiveBatches
  PROVE  BatchFine({a \in batch : Accepted(view, a)}, made)
  <1> SUFFICES ASSUME NEW a \in batch, Accepted(view, a), a.kind = "create"
               PROVE  Needs(a.on, made)
    BY DEF BatchFine
  <1>1. MayCreate(view, a.on)
    BY DEF Accepted
  <1>2. view.plan \in {NoNode, a.on}
    BY <1>1 DEF MayCreate
  <1>3. DocsStaffed =>
          \A i, j \in DOMAIN Chain : i < j /\ Chain[j] = a.on => Chain[i] \in made
    BY <1>2, FixedNodes DEF ViewFine
  <1>4. DocsStaffed /\ a.on \in Items => Docs \subseteq made
    BY <1>2, FixedNodes DEF ViewFine
  <1>5. LiveActions = {} /\ a.on = Closeout => made \cap Items # {}
    BY DeterministicCloseout DEF LiveBatches, Evidence
  <1> QED
    BY <1>3, <1>4, <1>5 DEF Needs

(* The model answers.                                                      *)
LEMMA ProposeKeeps ==
  ASSUME CInv, NEW r \in Runs, Propose(r) PROVE CInv'
  <1> PICK batch \in {Deterministic(run[r].view)} \cup LiveBatches :
        run' = [run EXCEPT ![r] =
          [pc |-> "executing", view |-> NoView,
           batch |-> {a \in batch : Accepted(run[r].view, a)}]]
    BY DEF Propose
  <1> DEFINE accepted == {a \in batch : Accepted(run[r].view, a)}
             new == [pc |-> "executing", view |-> NoView, batch |-> accepted]
  <1>1. ViewFine(run[r].view, made)
    BY DEF Propose, At, CInv
  <1>2. BatchFine(accepted, made)
    BY <1>1, AcceptedFine
  <1>3. UNCHANGED <<node, made, created, staff>>
    BY DEF Propose, World
  <1>4. run' = [run EXCEPT ![r] = new]
    OBVIOUS
  <1> HIDE DEF accepted
  <1>5. RunShape(new) /\ new.pc = "executing" /\ new.batch = accepted
    BY DEF RunShape, Fields
  <1> HIDE DEF new
  <1> QED
    BY <1>2, <1>3, <1>4, <1>5, ThinkStep

(* The batch is done.                                                      *)
LEMMA EndKeeps ==
  ASSUME CInv, NEW r \in Runs, EndRun(r) PROVE CInv'
  <1>1. run' = [run EXCEPT ![r] = Resting]
        /\ UNCHANGED <<node, made, created, staff>>
    BY DEF EndRun, World
  <1>2. RunShape(Resting) /\ Resting.pc = "idle"
    BY DEF Resting, RunShape, Fields
  <1> QED
    BY <1>1, <1>2, ThinkStep

(* What one action of a batch does to the nodes: it puts a first ticket on *)
(* one that needs nothing more, or another one where there is one already. *)
LEMMA ActionEffect ==
  ASSUME CInv, NEW r \in Runs, NEW a, BatchFine(run[r].batch, made),
         a \in run[r].batch,
         \/ ExecuteCreate(r, a) \/ ExecuteHire(r, a)
         \/ ExecuteMeeting(r, a) \/ ExecuteRetry(r, a)
  PROVE  /\ node' \in [Nodes -> States]
         /\ created' \in [Nodes -> Nat] /\ CreatedOnce'
         /\ \A n \in Nodes : node[n] # "absent" => node'[n] # "absent"
         /\ \A n \in Nodes : node'[n] # "absent" =>
              node[n] # "absent" \/ Needs(n, made)
  <1>1. CASE ExecuteCreate(r, a)
    <2>1. Needs(a.on, made)
      BY <1>1 DEF ExecuteCreate, BatchFine
    <2> QED
      <3>1. \/ UNCHANGED <<node, created>>
            \/ /\ created[a.on] = 0
               /\ node' = [node EXCEPT ![a.on] = "queued"]
               /\ created' = [created EXCEPT ![a.on] = created[a.on] + 1]
        BY <1>1 DEF ExecuteCreate
      <3>2. created' \in [Nodes -> Nat] /\ CreatedOnce'
        BY <3>1 DEF CInv, CreatedOnce
      <3> QED
        BY <2>1, <3>1, <3>2 DEF CInv, States
  <1>2. CASE ExecuteHire(r, a)
    BY <1>2 DEF ExecuteHire, CInv, CreatedOnce
  <1>3. CASE ExecuteMeeting(r, a)
    <2>1. Needs(Meeting, made)
      BY FixedNodes DEF Needs
    <2> QED
      <3>1. \/ UNCHANGED <<node, created>>
            \/ /\ node' = [node EXCEPT ![Meeting] = "queued"]
               /\ created' = [created EXCEPT ![Meeting] = 1]
        BY <1>3 DEF ExecuteMeeting
      <3>2. created' \in [Nodes -> Nat] /\ CreatedOnce'
        BY <3>1 DEF CInv, CreatedOnce
      <3> QED
        BY <2>1, <3>1, <3>2 DEF CInv, States
  <1>4. CASE ExecuteRetry(r, a)
    BY <1>4 DEF ExecuteRetry, CInv, CreatedOnce, States, Stuck
  <1> QED
    BY <1>1, <1>2, <1>3, <1>4

(* One action of a batch is executed.                                      *)
LEMMA ExecuteKeeps ==
  ASSUME CInv, NEW r \in Runs, Execute(r) PROVE CInv'
  <1>1. PICK a \in run[r].batch :
          /\ Executed(r, a)
          /\ \/ ExecuteCreate(r, a) \/ ExecuteHire(r, a)
             \/ ExecuteMeeting(r, a) \/ ExecuteRetry(r, a)
    BY DEF Execute
  <1> DEFINE left == run[r].batch \ {a}
             new  == [run[r] EXCEPT !.batch = left]
  <1>2. run[r].pc = "executing" /\ BatchFine(run[r].batch, made) /\ RunShape(run[r])
    BY DEF Execute, At, CInv, RunsShape
  <1>3. run' = [run EXCEPT ![r] = new]
    BY <1>1 DEF Executed
  <1>4. BatchFine(left, made)
    BY <1>2 DEF BatchFine
  <1> HIDE DEF left
  <1>5. RunShape(new) /\ new.pc = "executing" /\ new.batch = left
    BY <1>2 DEF RunShape, Fields
  <1> HIDE DEF new
  <1>6. /\ RunsShape'
        /\ \A q \in Runs :
             /\ run'[q].pc = "proposing" => ViewFine(run'[q].view, made)
             /\ run'[q].pc = "executing" => BatchFine(run'[q].batch, made)
    BY <1>3, <1>4, <1>5, RunsKept
  <1>7. /\ node' \in [Nodes -> States]
        /\ created' \in [Nodes -> Nat] /\ CreatedOnce'
        /\ \A n \in Nodes : node[n] # "absent" => node'[n] # "absent"
        /\ \A n \in Nodes : node'[n] # "absent" =>
             node[n] # "absent" \/ Needs(n, made)
    BY <1>1, <1>2, ActionEffect
  <1>8. UNCHANGED <<made, staff>>
    BY DEF Execute
  <1>9. Existing \subseteq Existing' /\ \A n \in Existing' : n \in Existing \/ Needs(n, made)
    BY <1>7 DEF Existing
  <1> QED
    BY <1>6, <1>7, <1>8, <1>9, StepFine DEF CInv

-----------------------------------------------------------------------------
(* The tickets and the board: none of their steps makes a node appear.     *)
LEMMA TicketsKeep ==
  ASSUME CInv, NEW n \in Nodes,
         \/ Progress(n) \/ Refuse(n) \/ Fail(n)
         \/ ResolveIncident(n) \/ ApproveAtBoard(n)
  PROVE  CInv'
  <1>1. /\ UNCHANGED <<run, created, staff>>
        /\ made' = made \/ (Deliver(n) /\ made' = made \cup {n})
    BY DEF Progress, Dispatch, Deliver, Approve, Refuse, Fail, ResolveIncident,
           ApproveAtBoard
  <1>2. \/ node' = node
        \/ /\ node[n] # "absent"
           /\ \E s \in States \ {"absent"} : node' = [node EXCEPT ![n] = s]
    BY DEF Progress, Dispatch, Deliver, Approve, Refuse, Fail, ResolveIncident,
           ApproveAtBoard, States, Working, AtBoard, Stuck
  <1>3. /\ node' \in [Nodes -> States]
        /\ \A m \in Nodes : node'[m] = "absent" <=> node[m] = "absent"
    BY <1>2 DEF CInv
  <1>4. made \subseteq made' /\ made' \subseteq Existing
    BY <1>1 DEF CInv, Deliver, Existing
  <1> QED
    BY <1>1, <1>3, <1>4, TicketStep DEF CInv

(* A hire is approved: the staff grows.                                    *)
LEMMA HireKeeps ==
  ASSUME CInv, NEW r \in Roles, ApproveHire(r) PROVE CInv'
  BY TicketStep DEF ApproveHire, CInv

(* The process stops: every run is forgotten.                              *)
LEMMA CrashKeeps ==
  ASSUME CInv, Crash PROVE CInv'
  <1>1. run' = [r \in Runs |-> Resting] /\ UNCHANGED <<node, made, created, staff>>
    BY DEF Crash, World
  <1>2. RunShape(Resting) /\ Resting.pc = "idle"
    BY DEF Resting, RunShape, Fields
  <1>3. RunsShape' /\ \A r \in Runs : run'[r].pc = "idle"
    BY <1>1, <1>2 DEF RunsShape
  <1>4. Existing' = Existing /\ CreatedOnce'
    BY <1>1 DEF Existing, CInv, CreatedOnce
  <1> QED
    BY <1>1, <1>3, <1>4, StepFine DEF CInv

-----------------------------------------------------------------------------
(* Nothing is there at the start.                                          *)
LEMMA CInit == Init => CInv
  <1> SUFFICES ASSUME Init PROVE CInv
    OBVIOUS
  <1>1. RunShape(Resting) /\ Resting.pc = "idle"
    BY DEF Resting, RunShape, Fields
  <1>2. RunsShape /\ \A r \in Runs : run[r].pc = "idle"
    BY <1>1 DEF Init, RunsShape
  <1>3. Existing = {} /\ made = {} /\ node \in [Nodes -> States]
    BY DEF Init, Existing, States
  <1>4. CreatedOnce /\ created \in [Nodes -> Nat] /\ InitialStaff \subseteq staff
    BY DEF Init, CreatedOnce
  <1> QED
    BY <1>2, <1>3, <1>4 DEF CInv

(* Every step keeps the invariant.                                         *)
LEMMA CStep == CInv /\ [Next]_vars => CInv'
  <1> SUFFICES ASSUME CInv, [Next]_vars PROVE CInv'
    OBVIOUS
  <1>1. CASE UNCHANGED vars
    BY <1>1, TicketStep DEF vars, CInv
  <1>2. CASE \E r \in Runs : Triggered(r) \/ Think(r)
    BY <1>2, BeginKeeps, ProposeKeeps, ExecuteKeeps, EndKeeps DEF Triggered, Think
  <1>3. CASE Maintain
    BY <1>3, BeginKeeps, WorkflowAssumption DEF Maintain
  <1>4. CASE \E n \in Nodes : Progress(n) \/ Refuse(n) \/ Fail(n)
    BY <1>4, TicketsKeep
  <1>5. CASE Decide
    BY <1>5, TicketsKeep, HireKeeps DEF Decide
  <1>6. CASE Crash
    BY <1>6, CrashKeeps
  <1> QED
    BY <1>1, <1>2, <1>3, <1>4, <1>5, <1>6 DEF Next

(* The invariant holds throughout.                                         *)
LEMMA CAlways == Spec => []CInv
  BY CInit, CStep, PTL DEF Spec

-----------------------------------------------------------------------------
(* However old the snapshots of the runs are, and however often the        *)
(* process stops, the CEO puts one ticket on a node.                       *)
THEOREM OneTicketPerNode == Spec => []CreatedOnce
  BY CAlways, PTL DEF CInv

(* Whatever a live model proposes, a document is only asked for once those *)
(* before it have been written.                                            *)
THEOREM DocumentsInOrder ==
  ASSUME DocsStaffed PROVE Spec => []GovernanceInOrder
  <1>1. CInv => GovernanceInOrder
    BY FixedNodes DEF CInv, GovernanceInOrder, Needs, Existing, Nodes
  <1> QED
    BY <1>1, CAlways, PTL

(* Whatever a live model proposes, no implementation ticket is there       *)
(* before the whole chain of documents has been written.                   *)
THEOREM CodeComesLast ==
  ASSUME DocsStaffed PROVE Spec => []CodeAfterDocuments
  <1>1. CInv => CodeAfterDocuments
    BY DEF CInv, CodeAfterDocuments, Needs
  <1> QED
    BY <1>1, CAlways, PTL

(* The deterministic proposal never closes a workflow out of which nothing *)
(* was delivered, whoever is on the staff.                                 *)
THEOREM CloseoutAfterDelivery ==
  ASSUME LiveActions = {} PROVE Spec => []CloseoutHasEvidence
  <1>1. CInv => CloseoutHasEvidence
    BY DEF CInv, CloseoutHasEvidence, Needs, Evidence
  <1> QED
    BY <1>1, CAlways, PTL
=============================================================================
