----------------------- MODULE RuntimeExecution_proofs -----------------------
(***************************************************************************)
(* Proofs about the runs of core/runtime.py: no two of them ever execute   *)
(* the same ticket, no ticket is left executing without a run, except by   *)
(* the uncaught exceptions of _open_runtime_provider_incident and of a     *)
(* command, and no run asks a provider twice for one ticket.               *)
(*                                                                         *)
(* The first two rest on what is known of a run in each of its phases      *)
(* (RunFine): which ticket it holds from its start to its submission, and  *)
(* which failure it is about to report.  They do not depend on the saved   *)
(* configurations or on which provider is selected: whatever the selection *)
(* code yields, the hand-over of tickets is right.                         *)
(*                                                                         *)
(* The third is about that code.  The candidates are put together from     *)
(* left to right; the second part of this module shows that such a fold    *)
(* is a function over the sets of positions (FoldExists) and keeps what    *)
(* each of its steps keeps, so that the candidates are of different        *)
(* providers (FailoversAreNew), and then what a run has called at each     *)
(* phase (CallsFine).                                                      *)
(***************************************************************************)
EXTENDS RuntimeExecution, WellFoundedInduction, TLAPS

Phases == {"idle", "scan", "prepare", "select", "chain", "call", "report",
           "submit", "raised"}

(* The phases in which a run holds a ticket.                               *)
Holding == Phases \ {"idle", "scan"}

(* The ticket rows: a leased ticket has an owner.                          *)
RowsFine ==
  /\ ticket \in [Tickets -> [status : Statuses, worker : Workers \cup {NoWorker}]]
  /\ \A t \in Tickets : ticket[t].status = "LEASED" => ticket[t].worker \in Workers

Fields == {"pc", "queue", "ticket", "worker", "chain", "called", "attempt",
           "result", "evidence"}

(* A run is a record of its nine fields, whatever the selection code put   *)
(* into its chain of candidates.                                           *)
RunShape(r) == r = [f \in Fields |-> r[f]]

(* What holds of one run, `log` being the incident-opened keys logged and  *)
(* `cut` the tickets whose run a command's exception ended.                *)
RunFine(r, log, cut) ==
  /\ RunShape(r)
  /\ r.pc \in Phases
  /\ r.queue \subseteq Tickets \X Workers
  /\ r.attempt \in 0 .. MaxAttempts
  /\ r.ticket \in Tickets \cup {NoTicket}
  /\ r.pc \in Holding => r.ticket \in Tickets
  /\ r.pc = "report" => r.result \in PauseKinds
  /\ r.pc = "raised" => \/ r.ticket \in cut
                        \/ r.result \in PauseKinds /\ <<r.ticket, r.result>> \in log

(* The tickets a run holds have been started: nobody can lease them again. *)
HeldIsStarted ==
  \A d \in Drivers : \A t \in Tickets :
    Driving(d, t) => ticket[t].status \notin {"QUEUED", "LEASED"}

RunsFine ==
  /\ RowsFine
  /\ opened \subseteq Tickets \X PauseKinds
  /\ DOMAIN driver = Drivers
  /\ \A d \in Drivers : RunFine(driver[d], opened, aborted)

(* The inductive invariant.                                                *)
RInv == RunsFine /\ HeldIsStarted /\ OneDriverPerTicket /\ ExecutingIsDriven

(* The fields of a resting run that the steps below rely on.               *)
LEMMA RestingFields ==
  /\ Resting.pc = "idle" /\ Resting.ticket = NoTicket /\ Resting.attempt = 0
  /\ Resting.queue = {} /\ Resting.result = "none"
  BY DEF Resting

(* A resting run is fine.                                                  *)
LEMMA RestingFine == \A log, cut : RunFine(Resting, log, cut)
  <1>1. RunShape(Resting)
    BY DEF RunShape, Fields, Resting
  <1> QED
    BY <1>1, RestingFields, RuntimeAssumption DEF RunFine, Phases, Holding

(* Everybody rests and every ticket is queued at the start.                *)
LEMMA RInit == Init => RInv
  <1> SUFFICES ASSUME Init PROVE RInv
    OBVIOUS
  <1>1. \A d \in Drivers : driver[d] = Resting
    BY DEF Init
  <1>2. RunsFine
    BY <1>1, RestingFine DEF Init, RunsFine, RowsFine, Statuses
  <1>3. HeldIsStarted /\ OneDriverPerTicket
    BY <1>1 DEF HeldIsStarted, OneDriverPerTicket, Driving, Resting
  <1>4. ExecutingIsDriven
    BY DEF Init, ExecutingIsDriven
  <1> QED
    BY <1>2, <1>3, <1>4 DEF RInv

(* What the invariant says of one run.                                     *)
LEMMA OneRun ==
  ASSUME RInv, NEW d \in Drivers
  PROVE  /\ RunFine(driver[d], opened, aborted) /\ RunShape(driver[d])
         /\ driver[d].pc \in Phases /\ driver[d].queue \subseteq Tickets \X Workers
         /\ driver[d].attempt \in 0 .. MaxAttempts
         /\ driver[d].ticket \in Tickets \cup {NoTicket}
         /\ driver[d].pc \in Holding => driver[d].ticket \in Tickets
  <1>1. RunFine(driver[d], opened, aborted)
    BY DEF RInv, RunsFine
  <1> QED
    BY <1>1 DEF RunFine

(* What a step of one run does to the others: nothing.  `new` is the run   *)
(* after the step.                                                         *)
RunStep(d, new) == driver' = [driver EXCEPT ![d] = new]

(* A step of a run that leaves the tickets alone, keeps hold of its ticket *)
(* and opens at most incidents keeps the invariant, provided the run it    *)
(* makes is fine.                                                          *)
LEMMA KeepsHold ==
  ASSUME RInv, NEW d \in Drivers, NEW new,
         RunStep(d, new), UNCHANGED ticket,
         opened \subseteq opened', opened' \subseteq Tickets \X PauseKinds,
         aborted \subseteq aborted',
         RunFine(new, opened', aborted'),
         driver[d].pc \in Holding, new.pc \in Holding,
         new.ticket = driver[d].ticket
  PROVE RInv'
  <1>1. \A c \in Drivers : driver'[c] = IF c = d THEN new ELSE driver[c]
    BY DEF RunStep, RInv, RunsFine
  <1>2. \A c \in Drivers : \A t \in Tickets : Driving(c, t)' <=> Driving(c, t)
    BY <1>1 DEF Driving, Holding, Phases
  <1>3. \A c \in Drivers : RunFine(driver'[c], opened', aborted')
    BY <1>1 DEF RInv, RunsFine, RunFine, RunShape
  <1>4. RunsFine'
    BY <1>3 DEF RInv, RunsFine, RowsFine, RunStep
  <1>5. HeldIsStarted' /\ OneDriverPerTicket'
    BY <1>2 DEF RInv, HeldIsStarted, OneDriverPerTicket
  <1>6. ExecutingIsDriven'
    BY <1>2 DEF RInv, ExecutingIsDriven
  <1> QED
    BY <1>4, <1>5, <1>6 DEF RInv

(* A step that changes no run, where no ticket becomes executing and none  *)
(* goes back to where it can be leased.                                    *)
LEMMA ElsewhereKeeps ==
  ASSUME RInv, UNCHANGED <<driver, opened, aborted>>, RowsFine',
         \A t \in Tickets :
           /\ ticket'[t].status = "EXECUTING" => ticket[t].status = "EXECUTING"
           /\ ticket'[t].status \in {"QUEUED", "LEASED"} =>
                ticket[t].status \in {"QUEUED", "LEASED"}
  PROVE RInv'
  <1>1. RunsFine'
    BY DEF RInv, RunsFine, RunFine, RunShape
  <1>2. HeldIsStarted' /\ OneDriverPerTicket'
    BY DEF RInv, HeldIsStarted, OneDriverPerTicket, Driving
  <1>3. ExecutingIsDriven'
    BY DEF RInv, ExecutingIsDriven, Driving
  <1> QED
    BY <1>1, <1>2, <1>3 DEF RInv

(* A step after which the run holds no ticket.  If it held one, that       *)
(* ticket is not executing any more, or a repeated outage was logged for   *)
(* it; no other ticket changes.                                            *)
LEMMA LetsGo ==
  ASSUME RInv, NEW d \in Drivers, NEW new,
         RunStep(d, new), UNCHANGED <<opened, aborted>>, RowsFine', RunFine(new, opened, aborted),
         new.pc \in {"idle", "scan"},
         \A t \in Tickets :
           \/ ticket'[t] = ticket[t]
           \/ ticket'[t].status \notin {"QUEUED", "LEASED", "EXECUTING"},
         \A t \in Tickets :
           Driving(d, t) /\ ticket'[t].status = "EXECUTING" =>
             t \in aborted \/ \E kind \in PauseKinds : <<t, kind>> \in opened
  PROVE RInv'
  <1>1. \A c \in Drivers : driver'[c] = IF c = d THEN new ELSE driver[c]
    BY DEF RunStep, RInv, RunsFine
  <1>2. \A c \in Drivers : \A t \in Tickets :
          Driving(c, t)' <=> c # d /\ Driving(c, t)
    BY <1>1 DEF Driving
  <1>3. \A c \in Drivers : RunFine(driver'[c], opened', aborted')
    BY <1>1 DEF RInv, RunsFine, RunFine, RunShape
  <1>4. RunsFine'
    BY <1>3 DEF RInv, RunsFine, RunStep
  <1>5. HeldIsStarted' /\ OneDriverPerTicket'
    BY <1>2 DEF RInv, HeldIsStarted, OneDriverPerTicket
  <1>6. ExecutingIsDriven'
    <2> SUFFICES ASSUME NEW t \in Tickets, ticket'[t].status = "EXECUTING"
                 PROVE  \/ \E c \in Drivers : Driving(c, t)'
                        \/ \E kind \in PauseKinds : <<t, kind>> \in opened'
                        \/ t \in aborted'
      BY DEF ExecutingIsDriven
    <2>1. ticket[t].status = "EXECUTING"
      OBVIOUS
    <2> QED
      BY <2>1, <1>2 DEF RInv, ExecutingIsDriven
  <1> QED
    BY <1>4, <1>5, <1>6 DEF RInv

-----------------------------------------------------------------------------
(* The steps of a run.                                                     *)

(* A run lists the leased tickets and their owners.                        *)
LEMMA SnapshotKeeps ==
  ASSUME RInv, NEW d \in Drivers, Snapshot(d) PROVE RInv'
  <1> DEFINE listed == {<<t, ticket[t].worker>> :
                          t \in {u \in Tickets : ticket[u].status = "LEASED"}}
             new == [Resting EXCEPT !.pc = "scan", !.queue = listed]
  <1>1. listed \subseteq Tickets \X Workers
    BY DEF RInv, RunsFine, RowsFine
  <1>2. RunFine(new, opened, aborted) /\ new.pc = "scan"
    <2> HIDE DEF listed
    <2> QED
      BY <1>1, RestingFine, RestingFields
      DEF RunFine, RunShape, Fields, Phases, Holding
  <1>4. RunStep(d, new)
    BY DEF Snapshot, RunStep
  <1>5. \A t \in Tickets : ~Driving(d, t)
    BY DEF Snapshot, At, Driving
  <1>6. UNCHANGED <<ticket, opened, aborted>> /\ RowsFine'
    BY DEF Snapshot, RInv, RunsFine, RowsFine
  <1> HIDE DEF new
  <1> QED
    BY <1>2, <1>4, <1>5, <1>6, LetsGo

(* A run comes to the end of its list, or of an exception.                 *)
LEMMA EndKeeps ==
  ASSUME RInv, NEW d \in Drivers, EndRun(d) \/ EndRaised(d) PROVE RInv'
  <1>1. RunStep(d, Resting) /\ UNCHANGED <<ticket, opened, aborted>> /\ RowsFine'
    BY DEF EndRun, EndRaised, RunStep, RInv, RunsFine, RowsFine
  <1>2. Resting.pc \in {"idle", "scan"}
    BY DEF Resting
  <1>3. \A t \in Tickets :
          Driving(d, t) => t \in aborted \/ \E kind \in PauseKinds : <<t, kind>> \in opened
    BY DEF EndRun, EndRaised, At, Driving, RInv, RunsFine, RunFine
  <1> QED
    BY <1>1, <1>2, <1>3, RestingFine, LetsGo

(* A run starts a ticket of its list, or passes it over.                   *)
LEMMA BeginKeeps ==
  ASSUME RInv, NEW d \in Drivers, Begin(d) PROVE RInv'
  <1> PICK lease \in driver[d].queue :
        LET t == lease[1]  w == lease[2]
            rest == driver[d].queue \ {lease} IN
        IF StartAccepted(t, w)
        THEN /\ ticket' = [ticket EXCEPT ![t].status = "EXECUTING"]
             /\ driver' = [driver EXCEPT ![d] =
                  [Resting EXCEPT !.pc = "prepare", !.queue = rest,
                     !.ticket = t, !.worker = w]]
        ELSE /\ driver' = [driver EXCEPT ![d].queue = rest]
             /\ UNCHANGED ticket
    BY DEF Begin
  <1> DEFINE t == lease[1]  w == lease[2]  rest == driver[d].queue \ {lease}
  <1>1. t \in Tickets /\ w \in Workers /\ rest \subseteq Tickets \X Workers
    BY DEF RInv, RunsFine, RunFine
  <1>2. UNCHANGED <<opened, aborted>> /\ At(d, "scan") /\ \A u \in Tickets : ~Driving(d, u)
    BY DEF Begin, At, Driving
  <1>3. CASE StartAccepted(t, w)
    <2> DEFINE new == [Resting EXCEPT !.pc = "prepare", !.queue = rest,
                         !.ticket = t, !.worker = w]
    <2>1. /\ ticket' = [ticket EXCEPT ![t].status = "EXECUTING"]
          /\ RunStep(d, new) /\ ticket[t].status = "LEASED"
      BY <1>3 DEF StartAccepted, RunStep
    <2>3. RunFine(new, opened', aborted') /\ new.pc = "prepare" /\ new.ticket = t
      <3> HIDE DEF rest, t, w
      <3> QED
        BY <1>1, RestingFine, RestingFields, RuntimeAssumption
        DEF RunFine, RunShape, Fields, Phases, Holding
    <2> HIDE DEF new, t, w, rest
    <2>4. \A c \in Drivers : driver'[c] = IF c = d THEN new ELSE driver[c]
      BY <2>1 DEF RunStep, RInv, RunsFine
    <2>5. \A c \in Drivers : \A u \in Tickets :
            Driving(c, u)' <=> IF c = d THEN u = t ELSE Driving(c, u)
      BY <2>3, <2>4 DEF Driving
    <2>6. RunsFine'
      <3>1. \A c \in Drivers : RunFine(driver'[c], opened', aborted')
        BY <1>2, <2>3, <2>4, OneRun
      <3>2. RowsFine'
        BY <1>1, <2>1 DEF RInv, RunsFine, RowsFine, Statuses
      <3> QED
        BY <1>2, <2>1, <3>1, <3>2 DEF RInv, RunsFine, RunStep
    <2>7. \A u \in Tickets :
            ticket'[u].status = IF u = t THEN "EXECUTING" ELSE ticket[u].status
      BY <2>1, <1>1 DEF RInv, RunsFine, RowsFine
    <2>8. \A c \in Drivers : ~Driving(c, t)
      BY <1>1, <2>1 DEF RInv, HeldIsStarted
    <2>9. HeldIsStarted' /\ OneDriverPerTicket'
      BY <2>5, <2>7, <2>8 DEF RInv, HeldIsStarted, OneDriverPerTicket
    <2>10. ExecutingIsDriven'
      BY <1>2, <2>5, <2>7 DEF RInv, ExecutingIsDriven
    <2> QED
      BY <2>6, <2>9, <2>10 DEF RInv
  <1>4. CASE ~StartAccepted(t, w)
    <2> DEFINE new == [driver[d] EXCEPT !.queue = rest]
    <2>1. driver' = [driver EXCEPT ![d].queue = rest] /\ UNCHANGED ticket
      BY <1>4
    <2>2. RunStep(d, new)
      BY <2>1 DEF RunStep
    <2>3. RunFine(new, opened, aborted) /\ new.pc = "scan"
      <3> HIDE DEF rest
      <3> QED
        BY <1>1, <1>2 DEF RInv, RunsFine, RunFine, RunShape, Fields, At, Holding
    <2>4. RowsFine'
      BY <2>1 DEF RInv, RunsFine, RowsFine
    <2> HIDE DEF new
    <2> QED
      BY <1>2, <2>1, <2>2, <2>3, <2>4, LetsGo
  <1> QED
    BY <1>3, <1>4

(* What a run becomes when it is about to submit.                          *)
LEMMA ToSubmitFine ==
  ASSUME RInv, NEW d \in Drivers, driver[d].pc \in Holding,
         NEW result, NEW evidence
  PROVE  /\ RunShape(ToSubmit(d, result, evidence))
         /\ \A log, cut : RunFine(ToSubmit(d, result, evidence), log, cut)
         /\ ToSubmit(d, result, evidence).pc = "submit"
         /\ ToSubmit(d, result, evidence).ticket = driver[d].ticket
         /\ ToSubmit(d, result, evidence).queue = driver[d].queue
         /\ ToSubmit(d, result, evidence).attempt = driver[d].attempt
  <1> DEFINE sent == ToSubmit(d, result, evidence)
  <1>1. /\ RunShape(sent) /\ sent.pc = "submit" /\ sent.ticket = driver[d].ticket
        /\ sent.queue = driver[d].queue /\ sent.attempt = driver[d].attempt
    BY OneRun DEF RunShape, Fields, ToSubmit
  <1> HIDE DEF sent
  <1>2. \A log, cut : RunFine(sent, log, cut)
    BY <1>1, OneRun DEF RunFine, Phases, Holding
  <1> QED
    BY <1>1, <1>2 DEF sent

(* Compiling the execution package.                                        *)
LEMMA PrepareKeeps ==
  ASSUME RInv, NEW d \in Drivers, Prepare(d) PROVE RInv'
  <1>1. /\ UNCHANGED <<ticket, opened, aborted>> /\ driver[d].pc = "prepare"
        /\ opened \subseteq Tickets \X PauseKinds
    BY DEF Prepare, At, RInv, RunsFine
  <1>2. driver[d].pc \in Holding
    BY <1>1 DEF Holding, Phases
  <1>3. CASE driver' = [driver EXCEPT ![d].pc = "select"]
    <2> DEFINE new == [driver[d] EXCEPT !.pc = "select"]
    <2>1. RunStep(d, new)
      BY <1>3 DEF RunStep
    <2>2. RunFine(new, opened', aborted') /\ new.pc \in Holding /\ new.ticket = driver[d].ticket
      <3>1. /\ RunShape(new) /\ new.pc = "select" /\ new.ticket = driver[d].ticket
            /\ new.queue = driver[d].queue /\ new.attempt = driver[d].attempt
        BY OneRun DEF RunShape, Fields
      <3> HIDE DEF new
      <3> QED
        BY <1>2, <3>1, OneRun DEF RunFine, Phases, Holding
    <2> HIDE DEF new
    <2> QED
      BY <1>1, <1>2, <2>1, <2>2, KeepsHold
  <1>4. CASE driver' = [driver EXCEPT ![d] = ToSubmit(d, "RUNTIME_INPUT_ERROR", FALSE)]
    <2> DEFINE new == ToSubmit(d, "RUNTIME_INPUT_ERROR", FALSE)
    <2>1. RunStep(d, new)
      BY <1>4 DEF RunStep
    <2>2. RunFine(new, opened', aborted') /\ new.pc \in Holding /\ new.ticket = driver[d].ticket
      BY <1>2, ToSubmitFine DEF Phases, Holding
    <2> HIDE DEF new
    <2> QED
      BY <1>1, <1>2, <2>1, <2>2, KeepsHold
  <1> QED
    BY <1>3, <1>4 DEF Prepare

(* A step in which a run either goes on to another phase of its ticket, in *)
(* which it has nothing to report, or is about to submit.                  *)
LEMMA GoesOn ==
  ASSUME RInv, NEW d \in Drivers, NEW new, RunStep(d, new),
         UNCHANGED <<ticket, opened, aborted>>,
         driver[d].pc \in Holding,
         RunShape(new),
         new.pc \in Holding \ {"report", "raised"},
         new.queue = driver[d].queue, new.ticket = driver[d].ticket,
         new.attempt \in 0 .. MaxAttempts
  PROVE RInv'
  <1>1. RunFine(new, opened', aborted')
    BY DEF RInv, RunsFine, RunFine, Holding
  <1>2. opened' \subseteq Tickets \X PauseKinds /\ opened \subseteq opened'
    BY DEF RInv, RunsFine
  <1> QED
    BY <1>1, <1>2, KeepsHold

(* The same when it is about to submit.                                    *)
LEMMA GoesToSubmit ==
  ASSUME RInv, NEW d \in Drivers, NEW result, NEW evidence,
         RunStep(d, ToSubmit(d, result, evidence)),
         UNCHANGED <<ticket, opened, aborted>>, driver[d].pc \in Holding
  PROVE RInv'
  <1> DEFINE new == ToSubmit(d, result, evidence)
  <1>1. RunShape(new)
    BY ToSubmitFine
  <1>2. /\ new.pc = "submit" /\ new.queue = driver[d].queue
        /\ new.ticket = driver[d].ticket /\ new.attempt \in 0 .. MaxAttempts
    BY ToSubmitFine, OneRun
  <1> HIDE DEF new
  <1> QED
    BY <1>1, <1>2, GoesOn DEF Holding, Phases, new

(* Selecting the provider.                                                 *)
LEMMA SelectKeeps ==
  ASSUME RInv, NEW d \in Drivers, SelectProvider(d) PROVE RInv'
  <1> DEFINE primary == Select(config, TargetOf[driver[d].ticket],
                               EmployeeProvider[driver[d].worker],
                               PreferenceOf[driver[d].ticket])
             next == [driver[d] EXCEPT !.pc = "chain", !.chain = <<primary>>]
  <1>1. /\ UNCHANGED <<ticket, opened, aborted>> /\ driver[d].pc \in Holding
        /\ \/ RunStep(d, ToSubmit(d, "RUNTIME_INPUT_ERROR", FALSE))
           \/ RunStep(d, ToSubmit(d, "PROVIDER_REQUIRED_UNAVAILABLE", FALSE))
           \/ RunStep(d, next)
    <2> HIDE DEF primary
    <2> QED
      BY DEF SelectProvider, At, Holding, Phases, RunStep, primary
  <1>2. CASE RunStep(d, next)
    <2>1. /\ RunShape(next) /\ next.pc = "chain" /\ next.queue = driver[d].queue
          /\ next.ticket = driver[d].ticket /\ next.attempt \in 0 .. MaxAttempts
      <3> HIDE DEF primary
      <3> QED
        BY OneRun DEF RunShape, Fields
    <2> HIDE DEF next
    <2> QED
      BY <1>1, <1>2, <2>1, GoesOn DEF Holding, Phases
  <1> QED
    BY <1>1, <1>2, GoesToSubmit

(* Settling the candidates.                                                *)
LEMMA ChainKeeps ==
  ASSUME RInv, NEW d \in Drivers, ResolveChain(d) PROVE RInv'
  <1> DEFINE primary == Head(driver[d].chain)
             later == Failovers(config, breaker, TargetOf[driver[d].ticket], primary)
             chain == <<primary>> \o later
             next == [driver[d] EXCEPT !.pc = "call", !.chain = chain, !.attempt = 1]
  <1>1. /\ UNCHANGED <<ticket, opened, aborted>> /\ driver[d].pc \in Holding
        /\ \/ RunStep(d, ToSubmit(d, "RUNTIME_INPUT_ERROR", FALSE))
           \/ RunStep(d, ToSubmit(d, "PROVIDER_REQUIRED_UNAVAILABLE", FALSE))
           \/ RunStep(d, next)
    <2> HIDE DEF primary, later
    <2> QED
      BY DEF ResolveChain, At, Holding, Phases, RunStep, primary, later
  <1>2. CASE RunStep(d, next)
    <2>1. /\ RunShape(next) /\ next.pc = "call" /\ next.queue = driver[d].queue
          /\ next.ticket = driver[d].ticket /\ next.attempt \in 0 .. MaxAttempts
      <3> HIDE DEF chain
      <3>1. RunShape(next) /\ next.attempt = 1
        BY DEF RInv, RunsFine, RunFine, RunShape, Fields
      <3>2. /\ next.pc = "call" /\ next.queue = driver[d].queue
            /\ next.ticket = driver[d].ticket
        BY DEF RInv, RunsFine, RunFine, RunShape, Fields
      <3> QED
        BY <3>1, <3>2, RuntimeAssumption
    <2> HIDE DEF next
    <2> QED
      BY <1>1, <1>2, <2>1, GoesOn DEF Holding, Phases
  <1> QED
    BY <1>1, <1>2, GoesToSubmit

(* One attempt at one candidate.                                           *)
LEMMA CallKeeps ==
  ASSUME RInv, NEW d \in Drivers, Call(d) PROVE RInv'
  <1> DEFINE again == [driver[d] EXCEPT !.attempt = driver[d].attempt + 1]
             fails(kind) == [driver[d] EXCEPT
                               !.pc = IF kind \in PauseKinds THEN "report" ELSE "raised",
                               !.result = kind, !.called = Called(d)]
             answers(kind) == [ToSubmit(d, kind, driver[d].called = <<>>)
                                 EXCEPT !.called = Called(d)]
             cut(kind) == IF kind \in UncaughtKinds THEN aborted \cup {driver[d].ticket}
                          ELSE aborted
  <1>1. /\ UNCHANGED <<ticket, opened>> /\ driver[d].pc = "call"
        /\ driver[d].pc \in Holding
    BY DEF Call, At, Holding, Phases
  <1>2. PICK kind :
          /\ driver' = [driver EXCEPT ![d] =
               IF Again(d, kind) THEN again
               ELSE IF kind \in PauseKinds \cup UncaughtKinds THEN fails(kind) ELSE answers(kind)]
          /\ aborted' = cut(kind)
    BY Zenon DEF Call
  <1>6. /\ aborted \subseteq aborted'
        /\ kind \in UncaughtKinds => driver[d].ticket \in aborted'
        /\ kind \notin UncaughtKinds => aborted' = aborted
    BY <1>2
  <1>7. PauseKinds \cap UncaughtKinds = {}
    BY DEF PauseKinds, UncaughtKinds
  <1>3. CASE Again(d, kind)
    <2>0. UNCHANGED <<ticket, opened, aborted>>
      BY <1>1, <1>3, <1>6, <1>7 DEF Again
    <2>1. RunStep(d, again)
      BY <1>2, <1>3 DEF RunStep
    <2>2. driver[d].attempt + 1 \in 0 .. MaxAttempts
      <3>1. driver[d].attempt < MaxAttempts
        BY <1>3 DEF Again
      <3>2. driver[d].attempt \in 0 .. MaxAttempts
        BY DEF RInv, RunsFine, RunFine
      <3>3. MaxAttempts \in Nat
        BY RuntimeAssumption
      <3> QED
        BY <3>1, <3>2, <3>3
    <2>3. /\ RunShape(again) /\ again.pc = "call"
          /\ again.queue = driver[d].queue
          /\ again.ticket = driver[d].ticket
          /\ again.attempt \in 0 .. MaxAttempts
      BY <1>1, <2>2, OneRun DEF RunShape, Fields
    <2> HIDE DEF again
    <2> QED
      BY <1>1, <2>0, <2>1, <2>3, GoesOn DEF Holding, Phases
  <1>4. CASE ~Again(d, kind) /\ kind \in PauseKinds \cup UncaughtKinds
    <2> DEFINE new == fails(kind)
    <2>1. RunStep(d, new)
      BY <1>2, <1>4 DEF RunStep
    <2>2. /\ RunFine(new, opened', aborted') /\ new.pc \in Holding
          /\ new.ticket = driver[d].ticket
      <3> DEFINE called == Called(d)
                 at == IF kind \in PauseKinds THEN "report" ELSE "raised"
      <3>0. /\ at \in {"report", "raised"} /\ (at = "report" => kind \in PauseKinds)
            /\ (at = "raised" => driver[d].ticket \in aborted')
        BY <1>4, <1>6
      <3> HIDE DEF called, at
      <3>1. /\ RunShape([driver[d] EXCEPT !.pc = at, !.result = kind, !.called = called])
        BY DEF RInv, RunsFine, RunFine, RunShape, Fields
      <3>2. /\ new.pc = at /\ new.result = kind
            /\ new.queue = driver[d].queue /\ new.ticket = driver[d].ticket
            /\ new.attempt = driver[d].attempt
        BY DEF at, RInv, RunsFine, RunFine, RunShape, Fields
      <3>3. RunShape(new)
        BY <3>1 DEF called, at
      <3> HIDE DEF new
      <3> QED
        BY <1>1, <3>0, <3>2, <3>3 DEF RInv, RunsFine, RunFine, Holding, Phases
    <2>3. opened' \subseteq Tickets \X PauseKinds /\ opened \subseteq opened'
      BY <1>1 DEF RInv, RunsFine
    <2> HIDE DEF new
    <2> QED
      BY <1>1, <1>6, <2>1, <2>2, <2>3, KeepsHold
  <1>5. CASE ~Again(d, kind) /\ kind \notin PauseKinds \cup UncaughtKinds
    <2>0. UNCHANGED <<ticket, opened, aborted>>
      BY <1>1, <1>5, <1>6
    <2> DEFINE first == driver[d].called = <<>>
               called == Called(d)
               sent == ToSubmit(d, kind, first)
               new == [sent EXCEPT !.called = called]
    <2>1. RunStep(d, new)
      BY <1>2, <1>5 DEF RunStep
    <2>2. /\ RunShape(sent) /\ sent.pc = "submit" /\ sent.queue = driver[d].queue
          /\ sent.ticket = driver[d].ticket /\ sent.attempt = driver[d].attempt
      <3> HIDE DEF first
      <3> QED
        BY <1>1, ToSubmitFine DEF Holding, Phases
    <2>3. /\ RunShape(new) /\ new.pc = "submit" /\ new.queue = driver[d].queue
          /\ new.ticket = driver[d].ticket /\ new.attempt = driver[d].attempt
      <3> HIDE DEF sent, called
      <3> QED
        BY <2>2 DEF RunShape, Fields
    <2>4. driver[d].attempt \in 0 .. MaxAttempts
      BY DEF RInv, RunsFine, RunFine
    <2> HIDE DEF new
    <2> QED
      BY <1>1, <2>0, <2>1, <2>3, <2>4, GoesOn DEF Holding, Phases
  <1> QED
    BY <1>3, <1>4, <1>5

(* The incident of a failed candidate, or the exception of a second one.   *)
LEMMA ReportKeeps ==
  ASSUME RInv, NEW d \in Drivers, Report(d) PROVE RInv'
  <1> DEFINE failed == Head(driver[d].chain).provider
             rest   == Tail(driver[d].chain)
             isNew  == failed \notin breaker
             onward == [driver[d] EXCEPT !.pc = "call", !.chain = rest, !.attempt = 1]
             raised == [driver[d] EXCEPT !.pc = "raised"]
             failure == ToSubmit(d, "PROVIDER_REQUIRED_UNAVAILABLE", FALSE)
  <1>1. /\ UNCHANGED <<ticket, aborted>> /\ driver[d].pc = "report" /\ driver[d].pc \in Holding
        /\ IncidentKey(d) \in Tickets \X PauseKinds
        /\ RunShape(driver[d])
    BY DEF Report, At, Holding, Phases, IncidentKey, RInv, RunsFine, RunFine
  <1>2. CASE isNew /\ IncidentKey(d) \in opened
    <2>1. RunStep(d, raised) /\ UNCHANGED <<opened, aborted>>
      BY <1>2 DEF Report, RunStep
    <2>2. /\ RunFine(raised, opened', aborted') /\ raised.pc \in Holding
          /\ raised.ticket = driver[d].ticket
      BY <1>1, <1>2, <2>1
      DEF RInv, RunsFine, RunFine, RunShape, Fields, Holding, Phases, IncidentKey
    <2>3. opened' \subseteq Tickets \X PauseKinds /\ opened \subseteq opened'
      BY <2>1 DEF RInv, RunsFine
    <2> HIDE DEF raised
    <2> QED
      BY <1>1, <2>1, <2>2, <2>3, KeepsHold
  <1>3. CASE ~(isNew /\ IncidentKey(d) \in opened)
    <2>1. opened' \subseteq Tickets \X PauseKinds /\ opened \subseteq opened'
      BY <1>1, <1>3 DEF Report, RInv, RunsFine
    <2>2. RunStep(d, onward) \/ RunStep(d, failure)
      <3> HIDE DEF rest
      <3> QED
        BY <1>3 DEF Report, RunStep, rest
    <2>3. /\ RunFine(onward, opened', aborted') /\ onward.pc \in Holding
          /\ onward.ticket = driver[d].ticket
      <3> HIDE DEF rest
      <3> QED
        <4>1. RunShape(onward) /\ onward.attempt = 1
          BY <1>1 DEF RunShape, Fields
        <4>2. /\ onward.pc = "call" /\ onward.queue = driver[d].queue
              /\ onward.ticket = driver[d].ticket
          BY <1>1 DEF RunShape, Fields
        <4>3. onward.attempt \in 0 .. MaxAttempts
          BY <4>1, RuntimeAssumption
        <4> HIDE DEF onward
        <4> QED
          BY <1>1, <4>1, <4>2, <4>3
          DEF RInv, RunsFine, RunFine, Holding, Phases
    <2>4. /\ RunFine(failure, opened', aborted') /\ failure.pc \in Holding
          /\ failure.ticket = driver[d].ticket
      <3>1. driver[d].pc \in Holding
        BY <1>1 DEF Holding, Phases
      <3>2. RunFine(failure, opened', aborted') /\ failure.pc = "submit" /\ failure.ticket = driver[d].ticket
        BY <3>1, ToSubmitFine
      <3> QED
        BY <3>2 DEF Holding, Phases
    <2> HIDE DEF onward, failure
    <2> QED
      BY <1>1, <2>1, <2>2, <2>3, <2>4, KeepsHold
  <1> QED
    BY <1>2, <1>3

(* The submission ends the execution of the ticket.                        *)
LEMMA SubmitKeeps ==
  ASSUME RInv, NEW d \in Drivers, Submit(d) PROVE RInv'
  <1> DEFINE t == driver[d].ticket
             new == [Resting EXCEPT !.pc = "scan", !.queue = driver[d].queue]
  <1>1. /\ UNCHANGED <<opened, aborted>> /\ driver[d].pc = "submit" /\ t \in Tickets
        /\ RunStep(d, new)
        /\ ticket' = IF ticket[t].status = "EXECUTING"
                     THEN [ticket EXCEPT ![t].status = SubmittedStatus(d)] ELSE ticket
    BY DEF Submit, At, RunStep, RInv, RunsFine, RunFine, Holding, Phases
  <1>2. SubmittedStatus(d) \in {"COMPLETED", "FAILED"}
    BY DEF SubmittedStatus
  <1>3. RunFine(new, opened, aborted) /\ new.pc = "scan"
    BY RestingFine, RestingFields
    DEF RInv, RunsFine, RunFine, RunShape, Fields, Phases, Holding
  <1>4. /\ RowsFine'
        /\ \A u \in Tickets :
             \/ ticket'[u] = ticket[u]
             \/ ticket'[u].status \notin {"QUEUED", "LEASED", "EXECUTING"}
        /\ ticket'[t].status # "EXECUTING"
    <2> HIDE DEF t
    <2> QED
      BY <1>1, <1>2 DEF RInv, RunsFine, RowsFine, Statuses
  <1>5. \A u \in Tickets : Driving(d, u) => u = t
    BY DEF Driving
  <1> HIDE DEF new, t
  <1> QED
    BY <1>1, <1>3, <1>4, <1>5, LetsGo

-----------------------------------------------------------------------------
(* The rest of the system, and the whole.                                  *)

(* Nothing outside the runs makes a ticket execute, or gives one that has  *)
(* been started back to the scheduler.                                     *)
LEMMA OthersKeep ==
  ASSUME RInv,
         \/ \E t \in Tickets : Stop(t) \/ \E w \in Workers : Lease(t, w)
         \/ \E p \in Providers : ResolveIncident(p)
         \/ SaveBegin \/ SaveEnd
  PROVE RInv'
  <1>1. CASE \E t \in Tickets : Stop(t)
    <2> PICK t \in Tickets : Stop(t)
      BY <1>1
    <2>1. \A u \in Tickets :
            ticket'[u] = IF u = t THEN [ticket[t] EXCEPT !.status = "STOPPED"]
                         ELSE ticket[u]
      BY DEF Stop, RInv, RunsFine, RowsFine
    <2>2. RowsFine' /\ UNCHANGED <<driver, opened, aborted>>
      BY DEF Stop, RInv, RunsFine, RowsFine, Statuses
    <2> QED
      BY <2>1, <2>2, ElsewhereKeeps DEF RInv, RunsFine, RowsFine
  <1>2. CASE \E t \in Tickets : \E w \in Workers : Lease(t, w)
    <2> PICK t \in Tickets, w \in Workers : Lease(t, w)
      BY <1>2
    <2>1. \A u \in Tickets :
            ticket'[u] = IF u = t THEN [status |-> "LEASED", worker |-> w]
                         ELSE ticket[u]
      BY DEF Lease, RInv, RunsFine, RowsFine
    <2>2. RowsFine' /\ UNCHANGED <<driver, opened, aborted>>
      BY <2>1 DEF Lease, RInv, RunsFine, RowsFine, Statuses
    <2> QED
      BY <2>1, <2>2, ElsewhereKeeps DEF Lease
  <1>3. CASE \/ \E p \in Providers : ResolveIncident(p)
             \/ SaveBegin \/ SaveEnd
    <2>1. UNCHANGED <<ticket, driver, opened, aborted>>
      BY <1>3 DEF ResolveIncident, SaveBegin, SaveEnd
    <2>2. RowsFine'
      BY <2>1 DEF RInv, RunsFine, RowsFine
    <2> QED
      BY <2>1, <2>2, ElsewhereKeeps
  <1> QED
    BY <1>1, <1>2, <1>3

(* Every step keeps the invariant.                                         *)
LEMMA RStep == RInv /\ [Next]_vars => RInv'
  <1> SUFFICES ASSUME RInv, [Next]_vars PROVE RInv'
    OBVIOUS
  <1>1. CASE UNCHANGED vars
    <2>1. UNCHANGED <<ticket, driver, opened, aborted>> /\ RowsFine'
      BY <1>1 DEF vars, RInv, RunsFine, RowsFine
    <2> QED
      BY <2>1, ElsewhereKeeps
  <1>2. CASE \E d \in Drivers : Snapshot(d) \/ Run(d)
    BY <1>2, SnapshotKeeps, BeginKeeps, EndKeeps, PrepareKeeps, SelectKeeps,
       ChainKeeps, CallKeeps, ReportKeeps, SubmitKeeps DEF Run
  <1>3. CASE \/ \E t \in Tickets : Stop(t) \/ \E w \in Workers : Lease(t, w)
             \/ \E p \in Providers : ResolveIncident(p)
             \/ SaveBegin \/ SaveEnd
    BY <1>3, OthersKeep
  <1> QED
    BY <1>1, <1>2, <1>3 DEF Next

(* The invariant holds throughout.                                         *)
LEMMA RAlways == Spec => []RInv
  BY RInit, RStep, PTL DEF Spec

(* Two runs that listed the same leased ticket never both execute it,      *)
(* however many runs there are and wherever each of them is interrupted.   *)
THEOREM OneDriver == Spec => []OneDriverPerTicket
  BY RAlways, PTL DEF RInv

(* A ticket is left executing with nobody working on it only where one of  *)
(* its candidates repeated an outage already logged for the ticket, or     *)
(* where a command failed in one of the two ways that are not caught.      *)
THEOREM ExecutionDriven == Spec => []ExecutingIsDriven
  BY RAlways, PTL DEF RInv

-----------------------------------------------------------------------------
(* Folds.  The candidates of a ticket are put together from left to right, *)
(* and FoldLeft is defined over the subsets of the positions.              *)

(* Every set of numbers that is not empty has a least one.                 *)
LEMMA LeastNumber ==
  ASSUME NEW T, T \subseteq Nat, T # {}
  PROVE  \E m \in T : \A n \in T : m <= n
  <1>1. PICK m \in T : \A n \in T : <<n, m>> \notin OpToRel(<, Nat)
    BY WFMin, NatLessThanWellFounded
  <1>2. \A n \in T : ~(n < m)
    BY <1>1 DEF OpToRel
  <1> QED
    BY <1>2

(* What holds of nothing, and of one position more, holds of all.          *)
LEMMA Climb ==
  ASSUME NEW n \in Nat, NEW G, 0 \in G, \A k \in 1 .. n : k - 1 \in G => k \in G
  PROVE  0 .. n \subseteq G
  <1> DEFINE T == (0 .. n) \ G
  <1> SUFFICES ASSUME T # {} PROVE FALSE
    OBVIOUS
  <1>1. T \subseteq Nat
    OBVIOUS
  <1> HIDE DEF T
  <1>2. PICK m \in T : \A x \in T : m <= x
    BY <1>1, LeastNumber
  <1>3. m \in 1 .. n /\ m - 1 \in 0 .. n
    BY <1>2 DEF T
  <1>4. m - 1 \in G
    BY <1>2, <1>3 DEF T
  <1> QED
    BY <1>2, <1>3, <1>4 DEF T

(* The least and the greatest of some positions.                           *)
LEMMA Extremes ==
  ASSUME NEW n \in Nat, NEW s \in SUBSET (1 .. n), s # {}
  PROVE  /\ Min(s) \in s
         /\ Max(s) \in s /\ \A x \in s : x <= Max(s)
  <1>1. \E m \in s : \A x \in s : m <= x
    <2>1. s \subseteq Nat
      OBVIOUS
    <2> QED
      BY <2>1, LeastNumber
  <1>2. \E m \in s : \A x \in s : m >= x
    <2> DEFINE T == {n - x : x \in s}
    <2>0. \A x \in s : x \in Nat /\ n - x \in Nat
      OBVIOUS
    <2>1. T \subseteq Nat /\ T # {}
      BY <2>0
    <2> HIDE DEF T
    <2>2. PICK l \in T : \A y \in T : l <= y
      BY <2>1, LeastNumber
    <2>3. PICK m \in s : l = n - m
      BY <2>2 DEF T
    <2>4. ASSUME NEW x \in s PROVE m >= x
      <3>1. n - x \in T
        BY DEF T
      <3>2. n - m <= n - x
        BY <2>2, <2>3, <3>1
      <3> QED
        BY <2>0, <3>2
    <2> QED
      BY <2>4
  <1>3. Min(s) \in s
    BY <1>1 DEF Min
  <1>4. Max(s) \in s /\ \A x \in s : Max(s) >= x
    BY <1>2 DEF Max
  <1>5. \A x \in s : x \in Nat
    OBVIOUS
  <1> QED
    BY <1>3, <1>4, <1>5

(* The positions up to `k`.                                                *)
LEMMA LastPosition ==
  ASSUME NEW k \in Nat \ {0}
  PROVE  Max(1 .. k) = k /\ (1 .. k) \ {k} = 1 .. (k - 1) /\ 1 .. k # {}
  <1>1. k \in 1 .. k
    OBVIOUS
  <1>2. Max(1 .. k) \in 1 .. k /\ k <= Max(1 .. k)
    BY <1>1, Extremes
  <1> QED
    BY <1>1, <1>2

(* One step of a fold for each position, from values of `V` to such.       *)
Steps(n, V, base, step) ==
  base \in V /\ \A k \in 1 .. n : \A x \in V : step[k][x] \in V

Folds(it, n, base, step) ==
  \A s \in SUBSET (1 .. n) :
    it[s] = IF s = {} THEN base ELSE step[Max(s)][it[s \ {Max(s)}]]

(* There is such a fold.                                                   *)
LEMMA FoldExists ==
  ASSUME NEW n \in Nat, NEW V, NEW base, NEW step, Steps(n, V, base, step)
  PROVE  \E it \in [SUBSET (1 .. n) -> V] : Folds(it, n, base, step)
  <1> DEFINE G == {k \in 0 .. n : \E it \in [SUBSET (1 .. k) -> V] : Folds(it, k, base, step)}
  <1>1. 0 \in G
    <2> DEFINE it == [s \in SUBSET (1 .. 0) |-> base]
    <2>1. it \in [SUBSET (1 .. 0) -> V]
      BY DEF Steps
    <2>2. \A s \in SUBSET (1 .. 0) : s = {}
      OBVIOUS
    <2>3. Folds(it, 0, base, step)
      BY <2>2 DEF Folds
    <2> QED
      BY <2>1, <2>3
  <1>2. ASSUME NEW k \in 1 .. n, k - 1 \in G PROVE k \in G
    <2>1. PICK it \in [SUBSET (1 .. (k - 1)) -> V] : Folds(it, k - 1, base, step)
      BY <1>2
    <2> DEFINE new == [s \in SUBSET (1 .. k) |-> IF k \in s THEN step[k][it[s \ {k}]] ELSE it[s]]
    <2>2. \A s \in SUBSET (1 .. k) : /\ s \ {k} \in SUBSET (1 .. (k - 1))
                                      /\ s \ {Max(s)} \in SUBSET (1 .. k)
                                      /\ k \notin s => s \in SUBSET (1 .. (k - 1))
      OBVIOUS
    <2>3. ASSUME NEW s \in SUBSET (1 .. k) PROVE new[s] \in V
      <3>1. CASE k \in s
        <4>1. it[s \ {k}] \in V
          BY <2>2
        <4>2. new[s] = step[k][it[s \ {k}]]
          BY <3>1
        <4> HIDE DEF new
        <4> QED
          BY <4>1, <4>2 DEF Steps
      <3>2. CASE k \notin s
        <4>1. s \in SUBSET (1 .. (k - 1)) /\ new[s] = it[s]
          BY <2>2, <3>2
        <4> HIDE DEF new
        <4> QED
          BY <4>1
      <3> QED
        BY <3>1, <3>2
    <2>4. ASSUME NEW s \in SUBSET (1 .. k)
          PROVE  new[s] = IF s = {} THEN base ELSE step[Max(s)][new[s \ {Max(s)}]]
      <3>1. CASE k \in s
        <4>1. Max(s) = k
          <5>1. k \in Nat /\ s # {}
            BY <3>1
          <5>2. Max(s) \in 1 .. k /\ k <= Max(s)
            BY <3>1, <5>1, Extremes
          <5> QED
            BY <5>2
        <4>2. new[s \ {k}] = it[s \ {k}]
          BY <2>2
        <4>3. new[s] = step[k][it[s \ {k}]]
          BY <3>1
        <4> QED
          BY <3>1, <4>1, <4>2, <4>3
      <3>2. CASE k \notin s
        <4>1. s \in SUBSET (1 .. (k - 1)) /\ new[s] = it[s]
          BY <2>2, <3>2
        <4>2. new[s \ {Max(s)}] = it[s \ {Max(s)}]
          BY <2>2, <3>2
        <4> HIDE DEF new
        <4> QED
          BY <2>1, <4>1, <4>2 DEF Folds
      <3> QED
        BY <3>1, <3>2
    <2>5. new \in [SUBSET (1 .. k) -> V]
      BY <2>3
    <2> HIDE DEF new
    <2>6. Folds(new, k, base, step)
      BY <2>4 DEF Folds
    <2> QED
      BY <2>5, <2>6
  <1> HIDE DEF G
  <1>3. 0 .. n \subseteq G
    BY <1>1, <1>2, Climb
  <1>4. n \in G
    BY <1>3
  <1> QED
    BY <1>4 DEF G

(* The selections of a binding form a list, of entries in the              *)
(* configuration.                                                          *)
LEMMA BindingIsList ==
  ASSUME NEW saved, NEW target, NEW reason, IsList(saved.binding[target])
  PROVE  \E R : /\ BindingSelections(saved, target, reason) \in Seq(R)
                /\ \A s \in R : \E p \in DOMAIN saved.entry : s.entry = saved.entry[p]
  <1> DEFINE X == saved.binding[target]
             n == Len(X)
             Named(i) == Selection(saved, X[i], target, reason)
             Known(i) == X[i] \in saved.models /\ Enabled(saved, X[i][1])
             R == {Named(i) : i \in {j \in 1 .. n : Known(j)}}
             V == Seq(R)
             add(l, i) == IF Known(i) THEN Append(l, Named(i)) ELSE l
             step == [i \in 1 .. n |-> [l \in V |-> add(l, i)]]
             Fits(it) == it = [s \in SUBSET DOMAIN X |->
                                IF s = {} THEN <<>> ELSE add(it[s \ {Max(s)}], Max(s))]
             it == CHOOSE it : Fits(it)
  <1>1. n \in Nat /\ DOMAIN X = 1 .. n
    BY DEF IsList
  <1>2. BindingSelections(saved, target, reason) = it[DOMAIN X]
    BY Zenon DEF BindingSelections, FoldLeft, MapThenFoldSet
  <1>3. \A s \in R : \E p \in DOMAIN saved.entry : s.entry = saved.entry[p]
    BY DEF Enabled, Selection
  <1>4. \A i \in 1 .. n : Known(i) => Named(i) \in R
    OBVIOUS
  <1> HIDE DEF X, n, R, Named, Known
  <1>5. \A i \in 1 .. n : \A l \in V : add(l, i) \in V
    BY <1>4
  <1>6. \A i \in 1 .. n : \A l \in V : step[i][l] = add(l, i)
    OBVIOUS
  <1>7. <<>> \in V
    OBVIOUS
  <1> HIDE DEF add, step, V
  <1>8. Steps(n, V, <<>>, step)
    BY <1>5, <1>6, <1>7 DEF Steps
  <1>9. PICK f \in [SUBSET (1 .. n) -> V] : Folds(f, n, <<>>, step)
    BY <1>1, <1>8, FoldExists
  <1>10. Fits(f)
    <2>1. ASSUME NEW s \in SUBSET (1 .. n), s # {}
          PROVE  f[s] = add(f[s \ {Max(s)}], Max(s))
      <3>1. Max(s) \in 1 .. n /\ f[s \ {Max(s)}] \in V
        BY <1>1, <1>9, <2>1, Extremes
      <3> QED
        BY <1>6, <1>9, <2>1, <3>1 DEF Folds
    <2>2. \A s \in SUBSET (1 .. n) : s = {} => f[s] = <<>>
      BY <1>9 DEF Folds
    <2> QED
      BY <1>1, <1>9, <2>1, <2>2
  <1>11. Fits(it)
    <2> HIDE DEF Fits
    <2> QED
      BY <1>10, Zenon
  <1> HIDE DEF it
  <1>12. /\ it[{}] = <<>>
         /\ \A k \in 1 .. n : it[1 .. k] = add(it[1 .. (k - 1)], k)
    <2>1. ASSUME NEW k \in 1 .. n PROVE it[1 .. k] = add(it[1 .. (k - 1)], k)
      <3>0. k \in Nat \ {0}
        BY <1>1
      <3>1. Max(1 .. k) = k /\ (1 .. k) \ {k} = 1 .. (k - 1) /\ 1 .. k # {}
        BY <3>0, LastPosition
      <3>2. 1 .. k \in SUBSET (1 .. n)
        BY <1>1
      <3> QED
        BY <1>1, <1>11, <3>1, <3>2
    <2> QED
      BY <1>11, <2>1
  <1> HIDE DEF Fits
  <1> DEFINE G == {k \in 0 .. n : it[1 .. k] \in V}
  <1>13. 0 \in G
    <2>1. 1 .. 0 = {}
      OBVIOUS
    <2> QED
      BY <1>1, <1>7, <1>12, <2>1
  <1>14. \A k \in 1 .. n : k - 1 \in G => k \in G
    BY <1>1, <1>5, <1>12
  <1> HIDE DEF G
  <1>15. n \in G
    <2>1. 0 .. n \subseteq G
      BY <1>1, <1>13, <1>14, Climb
    <2> QED
      BY <1>1, <2>1
  <1> QED
    BY <1>1, <1>2, <1>3, <1>15 DEF G, V

-----------------------------------------------------------------------------
(* The candidates of a ticket are of different providers.                  *)
NoneTwice(list) ==
  \A i, j \in DOMAIN list : list[i].provider = list[j].provider => i = j

(* The position of an element is one of the list, or 0.                    *)
LEMMA RestIsList ==
  ASSUME NEW R, NEW list \in Seq(R), NEW T, T \subseteq 1 .. Len(list),
         NEW at, at = IF T # {} THEN Min(T) ELSE 0
  PROVE  SubSeq(list, at + 1, Len(list)) \in Seq(R)
  <1>1. at \in 0 .. Len(list)
    <2>1. Len(list) \in Nat
      OBVIOUS
    <2>2. CASE T # {}
      <3>1. Min(T) \in T
        BY <2>1, <2>2, Extremes
      <3>2. at = Min(T)
        BY <2>2
      <3>3. T \subseteq 0 .. Len(list)
        BY <2>1
      <3> QED
        BY <3>1, <3>2, <3>3, Zenon
    <2>3. CASE T = {}
      BY <2>1, <2>3
    <2> QED
      BY <2>2, <2>3
  <1>2. \A i \in (at + 1) .. Len(list) : list[i] \in R
    BY <1>1
  <1> QED
    BY <1>1, <1>2

(* What the failover candidates of a primary are chosen from.              *)
LEMMA SourcesAreList ==
  ASSUME NEW saved, NEW primary,
         IsList(primary.entry.fallbacks),
         primary.target \in DOMAIN saved.binding =>
           IsList(saved.binding[primary.target])
  PROVE  \E R :
    LET bound ==
          IF primary.target \in DOMAIN saved.binding
               /\ primary.reason # "ticket_runtime_preference"
          THEN BindingSelections(saved, primary.target, "provider_failover")
          ELSE <<>>
        at    == SelectInSeq(bound, LAMBDA s : s.ref = primary.ref)
        later == SubSeq(bound, at + 1, Len(bound))
        own   == [i \in DOMAIN primary.entry.fallbacks |->
                    OwnSelection(saved, primary.entry.fallbacks[i], primary.target,
                                 "provider_failover")]
    IN later \o own \in Seq(R)
  <1> DEFINE bound == IF primary.target \in DOMAIN saved.binding
                           /\ primary.reason # "ticket_runtime_preference"
                      THEN BindingSelections(saved, primary.target, "provider_failover")
                      ELSE <<>>
             at    == SelectInSeq(bound, LAMBDA s : s.ref = primary.ref)
             later == SubSeq(bound, at + 1, Len(bound))
             F     == primary.entry.fallbacks
             own   == [i \in DOMAIN F |->
                        OwnSelection(saved, F[i], primary.target, "provider_failover")]
             O     == {own[i] : i \in DOMAIN F}
  <1>1. PICK Q : bound \in Seq(Q)
    <2>1. CASE primary.target \in DOMAIN saved.binding
                 /\ primary.reason # "ticket_runtime_preference"
      <3>1. IsList(saved.binding[primary.target])
        BY <2>1
      <3>2. bound = BindingSelections(saved, primary.target, "provider_failover")
        BY <2>1
      <3> HIDE DEF bound
      <3> QED
        BY <3>1, <3>2, BindingIsList
    <2>2. CASE ~(primary.target \in DOMAIN saved.binding
                 /\ primary.reason # "ticket_runtime_preference")
      <3>1. bound \in Seq({})
        BY <2>2
      <3> QED
        BY <3>1
    <2> QED
      BY <2>1, <2>2
  <1> HIDE DEF bound
  <1>2. later \in Seq(Q)
    <2> DEFINE T == {i \in 1 .. Len(bound) : bound[i].ref = primary.ref}
    <2>1. at = IF T # {} THEN Min(T) ELSE 0
      BY Zenon DEF SelectInSeq
    <2> HIDE DEF at, T
    <2>2. T \subseteq 1 .. Len(bound)
      BY DEF T
    <2> QED
      BY <1>1, <2>1, <2>2, RestIsList
  <1>3. own \in Seq(O)
    <2>1. F \in Seq(Range(F))
      BY DEF IsList
    <2>2. Len(F) \in Nat /\ DOMAIN F = 1 .. Len(F)
      BY <2>1
    <2>3. own \in [1 .. Len(F) -> O]
      BY <2>2
    <2> HIDE DEF own, O
    <2> QED
      BY <2>2, <2>3
  <1> HIDE DEF later, own, O
  <1>4. later \o own \in Seq(Q \cup O)
    <2>1. later \in Seq(Q \cup O) /\ own \in Seq(Q \cup O)
      BY <1>2, <1>3
    <2> QED
      BY <2>1
  <1> QED
    BY <1>4, Zenon DEF later, own, at, bound

(* The candidates after the primary are of other providers than it and     *)
(* each of another than the rest.                                          *)
LEMMA FailoversAreNew ==
  ASSUME NEW saved, NEW paused, NEW target, NEW primary,
         IsList(primary.entry.fallbacks),
         primary.target \in DOMAIN saved.binding =>
           IsList(saved.binding[primary.target])
  PROVE  LET chain == <<primary>> \o Failovers(saved, paused, target, primary)
         IN (\E R : chain \in Seq(R)) /\ chain # <<>> /\ NoneTwice(chain)
  <1> DEFINE bound == IF primary.target \in DOMAIN saved.binding
                           /\ primary.reason # "ticket_runtime_preference"
                      THEN BindingSelections(saved, primary.target, "provider_failover")
                      ELSE <<>>
             at    == SelectInSeq(bound, LAMBDA s : s.ref = primary.ref)
             later == SubSeq(bound, at + 1, Len(bound))
             own   == [i \in DOMAIN primary.entry.fallbacks |->
                        OwnSelection(saved, primary.entry.fallbacks[i],
                                     primary.target, "provider_failover")]
             X     == later \o own
             n     == Len(X)
             Usable(p) == /\ p \in DOMAIN saved.entry
                          /\ MeetsFloor(saved, p, target)
                          /\ Health(saved, paused, p) = "HEALTHY"
             Passed(l, s) == Attempted(primary, l, s.provider) \/ ~Usable(s.provider)
             add(l, i) == IF Passed(l, X[i]) THEN l ELSE Append(l, X[i])
             Fits(it) == it = [s \in SUBSET DOMAIN X |->
                                IF s = {} THEN <<>> ELSE add(it[s \ {Max(s)}], Max(s))]
             it == CHOOSE it : Fits(it)
  <1>1. PICK R : X \in Seq(R)
    BY SourcesAreList, Zenon
  <1>2. Failovers(saved, paused, target, primary) = it[DOMAIN X]
    BY Zenon DEF Failovers, FoldLeft, MapThenFoldSet
  <1> DEFINE New(l) == /\ \A i \in DOMAIN l : l[i].provider # primary.provider
                       /\ NoneTwice(l)
             V == {l \in Seq(R) : New(l)}
             step == [i \in 1 .. n |-> [l \in V |-> add(l, i)]]
  <1> HIDE DEF X
  <1>3. n \in Nat /\ DOMAIN X = 1 .. n /\ \A i \in 1 .. n : X[i] \in R
    BY <1>1
  <1> HIDE DEF n
  <1>4. \A l, s : ~Passed(l, s) => /\ s.provider # primary.provider
                                   /\ \A i \in DOMAIN l : l[i].provider # s.provider
    BY DEF Attempted
  <1> HIDE DEF Passed
  <1>5. ASSUME NEW i \in 1 .. n, NEW l \in V PROVE add(l, i) \in V
    <2>1. CASE Passed(l, X[i])
      BY <2>1
    <2>2. CASE ~Passed(l, X[i])
      <3> DEFINE r == Append(l, X[i])
      <3>1. /\ r \in Seq(R) /\ Len(r) = Len(l) + 1 /\ Len(l) \in Nat
            /\ DOMAIN r = 1 .. Len(r) /\ DOMAIN l = 1 .. Len(l)
            /\ r[Len(r)] = X[i] /\ \A j \in 1 .. Len(l) : r[j] = l[j]
        BY <1>3
      <3>2. /\ X[i].provider # primary.provider
            /\ \A j \in DOMAIN l : l[j].provider # X[i].provider
        BY <1>4, <2>2
      <3> HIDE DEF r
      <3>3. \A j \in DOMAIN r : (j \in DOMAIN l /\ r[j] = l[j]) \/ j = Len(r)
        BY <3>1
      <3>4. New(r)
        <4>1. \A j \in DOMAIN r : r[j].provider # primary.provider
          BY <3>1, <3>2, <3>3
        <4>2. ASSUME NEW j \in DOMAIN r, NEW k \in DOMAIN r, r[j].provider = r[k].provider
              PROVE  j = k
          BY <3>1, <3>2, <3>3, <4>2 DEF NoneTwice
        <4> QED
          BY <4>1, <4>2 DEF NoneTwice
      <3>5. add(l, i) = r
        BY <2>2 DEF r
      <3> QED
        BY <3>1, <3>4, <3>5
    <2> QED
      BY <2>1, <2>2
  <1>6. \A i \in 1 .. n : \A l \in V : step[i][l] = add(l, i)
    OBVIOUS
  <1>7. <<>> \in V
    BY DEF NoneTwice
  <1> HIDE DEF add, step, V
  <1>8. Steps(n, V, <<>>, step)
    BY <1>5, <1>6, <1>7 DEF Steps
  <1>9. PICK f \in [SUBSET (1 .. n) -> V] : Folds(f, n, <<>>, step)
    BY <1>3, <1>8, FoldExists
  <1>10. Fits(f)
    <2>1. ASSUME NEW s \in SUBSET (1 .. n), s # {}
          PROVE  f[s] = add(f[s \ {Max(s)}], Max(s))
      <3>1. Max(s) \in 1 .. n /\ f[s \ {Max(s)}] \in V
        BY <1>3, <1>9, <2>1, Extremes
      <3> QED
        BY <1>6, <1>9, <2>1, <3>1 DEF Folds
    <2>2. \A s \in SUBSET (1 .. n) : s = {} => f[s] = <<>>
      BY <1>9 DEF Folds
    <2> QED
      BY <1>3, <1>9, <2>1, <2>2
  <1>11. Fits(it)
    <2> HIDE DEF Fits
    <2> QED
      BY <1>10, Zenon
  <1> HIDE DEF it
  <1>12. /\ it[{}] = <<>>
         /\ \A k \in 1 .. n : it[1 .. k] = add(it[1 .. (k - 1)], k)
    <2>1. ASSUME NEW k \in 1 .. n PROVE it[1 .. k] = add(it[1 .. (k - 1)], k)
      <3>0. k \in Nat \ {0}
        BY <1>3
      <3>1. Max(1 .. k) = k /\ (1 .. k) \ {k} = 1 .. (k - 1) /\ 1 .. k # {}
        BY <3>0, LastPosition
      <3>2. 1 .. k \in SUBSET (1 .. n)
        BY <1>3
      <3> QED
        BY <1>3, <1>11, <3>1, <3>2
    <2> QED
      BY <1>11, <2>1
  <1> HIDE DEF Fits
  <1> DEFINE G == {k \in 0 .. n : it[1 .. k] \in V}
  <1>13. 0 \in G
    <2>1. 1 .. 0 = {}
      OBVIOUS
    <2> QED
      BY <1>3, <1>7, <1>12, <2>1
  <1>14. \A k \in 1 .. n : k - 1 \in G => k \in G
    BY <1>3, <1>5, <1>12
  <1> HIDE DEF G
  <1>15. n \in G
    <2>1. 0 .. n \subseteq G
      BY <1>3, <1>13, <1>14, Climb
    <2> QED
      BY <1>3, <2>1
  <1>16. it[DOMAIN X] \in V
    BY <1>3, <1>15 DEF G
  <1> DEFINE l == Failovers(saved, paused, target, primary)
             c == <<primary>> \o l
             Q == R \cup {primary}
  <1>17. l \in Seq(R) /\ New(l)
    BY <1>2, <1>16 DEF V
  <1> HIDE DEF l
  <1>18. /\ c \in Seq(Q) /\ DOMAIN c = 1 .. (Len(l) + 1) /\ DOMAIN l = 1 .. Len(l)
         /\ Len(l) \in Nat
         /\ c[1] = primary /\ \A i \in 1 .. Len(l) : c[i + 1] = l[i]
    <2>1. <<primary>> \in Seq(Q) /\ l \in Seq(Q) /\ Len(<<primary>>) = 1
      BY <1>17
    <2> QED
      BY <2>1
  <1> HIDE DEF c
  <1>19. \A i \in DOMAIN c :
           i \in Nat /\ (i # 1 => i - 1 \in DOMAIN l /\ c[i] = l[i - 1])
    <2>1. ASSUME NEW i \in DOMAIN c, i # 1 PROVE i - 1 \in DOMAIN l /\ c[i] = l[i - 1]
      <3>1. i - 1 \in 1 .. Len(l) /\ (i - 1) + 1 = i
        BY <1>18, <2>1
      <3> QED
        BY <1>18, <3>1
    <2> QED
      BY <1>18, <2>1
  <1>20. NoneTwice(c)
    <2>1. ASSUME NEW i \in DOMAIN c, NEW j \in DOMAIN c, c[i].provider = c[j].provider
          PROVE  i = j
      <3>1. CASE i = 1 \/ j = 1
        BY <1>17, <1>18, <1>19, <2>1, <3>1
      <3>2. CASE i # 1 /\ j # 1
        <4>1. i - 1 = j - 1 /\ i \in Int /\ j \in Int
          BY <1>17, <1>19, <2>1, <3>2 DEF NoneTwice
        <4> QED
          BY <4>1
      <3> QED
        BY <3>1, <3>2
    <2> QED
      BY <2>1 DEF NoneTwice
  <1>21. c # <<>>
    BY <1>18
  <1> QED
    BY <1>18, <1>20, <1>21, Zenon DEF c, l

(* Every list of a selection's entry is one.                               *)
HasList(s) == IsList(s.entry.fallbacks)

(* What is selected is the entry of a provider, as it is in the            *)
(* configuration.                                                          *)
LEMMA SelectedHasList ==
  ASSUME NEW c, ConfigLists(c), NEW target \in DOMAIN Legacy,
         NEW employee, NEW preference
  PROVE  HasList(Select(c, target, employee, preference))
  <1>1. HasList(NoSelection)
    <2>1. <<>> \in Seq(Range(<<>>))
      OBVIOUS
    <2> QED
      BY <2>1 DEF HasList, IsList, NoSelection, NoEntry
  <1>2. ASSUME NEW p, NEW t, NEW reason PROVE HasList(OwnSelection(c, p, t, reason))
    <2>1. CASE Enabled(c, p)
      <3>1. IsList(c.entry[p].fallbacks)
        BY <2>1 DEF ConfigLists, Enabled
      <3>2. OwnSelection(c, p, t, reason).entry = c.entry[p]
        BY <2>1 DEF OwnSelection, Selection, PreferredRef
      <3> QED
        BY <3>1, <3>2 DEF HasList
    <2>2. CASE ~Enabled(c, p)
      BY <1>1, <2>2 DEF OwnSelection
    <2> QED
      BY <2>1, <2>2
  <1>3. ASSUME NEW t \in DOMAIN c.binding, NEW reason
        PROVE  HasList(FirstSelection(BindingSelections(c, t, reason)))
    <2>0. PICK b : b = BindingSelections(c, t, reason)
      OBVIOUS
    <2>1. IsList(c.binding[t])
      BY DEF ConfigLists
    <2>2. PICK R : /\ b \in Seq(R)
                   /\ \A s \in R : \E p \in DOMAIN c.entry : s.entry = c.entry[p]
      BY <2>0, <2>1, BindingIsList
    <2>3. CASE b = <<>>
      BY <1>1, <2>0, <2>3 DEF FirstSelection
    <2>4. CASE b # <<>>
      <3>1. Head(b) \in R
        BY <2>2, <2>4
      <3>2. IsList(Head(b).entry.fallbacks)
        BY <2>2, <3>1 DEF ConfigLists
      <3> QED
        BY <2>0, <2>4, <3>2 DEF FirstSelection, HasList
    <2> QED
      BY <2>3, <2>4
  <1>4. HasList(RoleSelection(c, target))
    <2> DEFINE targets == BindingTargets(target)
               T  == {i \in 1 .. Len(targets) : targets[i] \in DOMAIN c.binding}
               at == IF T # {} THEN Min(T) ELSE 0
    <2>1. RoleSelection(c, target) =
            IF at = 0 THEN NoSelection
            ELSE FirstSelection(BindingSelections(c, targets[at], "role_binding"))
      BY Zenon DEF RoleSelection, SelectInSeq
    <2>2. Len(targets) \in Nat
      <3>1. Legacy[target] \in Seq(Range(Legacy[target]))
        BY ProviderAssumption DEF IsList
      <3> DEFINE Q == Range(Legacy[target]) \cup {target}
      <3>2. Legacy[target] \in Seq(Q) /\ <<target>> \in Seq(Q)
        BY <3>1
      <3>3. targets \in Seq(Q)
        BY <3>2 DEF BindingTargets
      <3> QED
        BY <3>3
    <2> HIDE DEF targets
    <2>3. at # 0 => at \in T
      <3>1. ASSUME T # {} PROVE Min(T) \in T
        BY <2>2, <3>1, Extremes
      <3> QED
        BY <3>1, Zenon
    <2>4. at # 0 => targets[at] \in DOMAIN c.binding
      <3> HIDE DEF at
      <3> QED
        BY <2>3
    <2> HIDE DEF at, T
    <2> QED
      BY <1>1, <1>3, <2>1, <2>4
  <1>5. HasList(CeoSelection(c))
    BY <1>1, <1>3 DEF CeoSelection
  <1> DEFINE found == <<RoleSelection(c, target), CeoSelection(c),
                        OwnSelection(c, employee, "", "employee_provider"),
                        OwnSelection(c, c.default, "", "default_provider")>>
             T  == {i \in 1 .. Len(found) : found[i] # NoSelection}
             at == IF T # {} THEN Min(T) ELSE 0
  <1>6. Select(c, target, employee, preference) =
          IF preference # NoProvider
          THEN OwnSelection(c, preference, target, "ticket_runtime_preference")
          ELSE IF at = 0 THEN NoSelection ELSE found[at]
    BY Zenon DEF Select, SelectInSeq
  <1>7. Len(found) = 4 /\ \A i \in 1 .. 4 : HasList(found[i])
    <2>1. Len(found) = 4
      OBVIOUS
    <2>2. HasList(found[1]) /\ HasList(found[2])
      BY <1>4, <1>5
    <2>3. HasList(found[3]) /\ HasList(found[4])
      BY <1>2
    <2> HIDE DEF found
    <2>4. \A i \in 1 .. 4 : i = 1 \/ i = 2 \/ i = 3 \/ i = 4
      OBVIOUS
    <2> QED
      BY <2>1, <2>2, <2>3, <2>4
  <1> HIDE DEF found
  <1>8. at # 0 => at \in 1 .. 4
    <2>1. T \subseteq 1 .. 4 /\ 4 \in Nat
      BY <1>7
    <2> HIDE DEF T
    <2>2. ASSUME T # {} PROVE Min(T) \in 1 .. 4
      <3>1. Min(T) \in T
        BY <2>1, <2>2, Extremes
      <3> QED
        BY <2>1, <3>1, Zenon
    <2> QED
      BY <2>2, Zenon
  <1> HIDE DEF at
  <1> QED
    BY <1>1, <1>2, <1>6, <1>7, <1>8

-----------------------------------------------------------------------------
(* The providers a run has called for its ticket, and those it may still   *)
(* call: a run that waits for a candidate has called none of those left,   *)
(* and one that reports a failure, none but the first.                     *)
CallsFine(r) ==
  /\ IsList(r.called) /\ IsInjective(r.called)
  /\ r.pc \in {"idle", "scan", "prepare", "select", "chain"} => r.called = <<>>
  /\ r.pc = "chain" => HasList(Head(r.chain))
  /\ r.pc \in {"call", "report"} =>
       /\ IsList(r.chain) /\ r.chain # <<>> /\ NoneTwice(r.chain)
       /\ \A i \in DOMAIN r.called : \A j \in DOMAIN r.chain :
            r.called[i] = r.chain[j].provider => r.pc = "report" /\ j = 1

CallsInv == RInv /\ config \in Configs /\ \A d \in Drivers : CallsFine(driver[d])

(* The empty list is one, and without repetition.                          *)
LEMMA EmptyFine == IsList(<<>>) /\ IsInjective(<<>>)
  <1>1. <<>> \in Seq(Range(<<>>)) /\ DOMAIN <<>> = {}
    OBVIOUS
  <1> QED
    BY <1>1 DEF IsList, IsInjective

(* A sequence is a list of its elements.                                   *)
LEMMA SeqIsList ==
  ASSUME NEW R, NEW s \in Seq(R) PROVE IsList(s)
  <1>1. Len(s) \in Nat /\ s \in [1 .. Len(s) -> R]
    OBVIOUS
  <1>2. s \in [1 .. Len(s) -> Range(s)]
    BY <1>1 DEF Range
  <1> QED
    BY <1>1, <1>2 DEF IsList

(* A step of a run, when the run it makes is fine.                         *)
LEMMA CallsKeep ==
  ASSUME CallsInv, NEW d \in Drivers, NEW new, RunStep(d, new),
         CallsFine(new), UNCHANGED config, RInv'
  PROVE  CallsInv'
  <1>1. \A c \in Drivers : driver'[c] = IF c = d THEN new ELSE driver[c]
    BY DEF RunStep, CallsInv, RInv, RunsFine
  <1>2. ASSUME NEW c \in Drivers PROVE CallsFine(driver'[c])
    BY <1>1 DEF CallsInv
  <1>3. \A c \in Drivers : CallsFine(driver[c])'
    BY <1>2 DEF CallsFine
  <1> QED
    BY <1>3 DEF CallsInv

(* What a run that submits has called.                                     *)
LEMMA ToSubmitCalls ==
  ASSUME CallsInv, NEW d \in Drivers, NEW result, NEW evidence
  PROVE  CallsFine(ToSubmit(d, result, evidence))
  <1> DEFINE sent == ToSubmit(d, result, evidence)
  <1>1. sent.pc = "submit" /\ sent.called = driver[d].called
    BY OneRun DEF CallsInv, RunShape, Fields, ToSubmit
  <1>2. CallsFine(driver[d])
    BY DEF CallsInv
  <1> HIDE DEF sent
  <1>3. CallsFine(sent)
    BY <1>1, <1>2 DEF CallsFine
  <1> QED
    BY <1>3 DEF sent

(* A run without a ticket, or one that has just begun, has called nobody.  *)
LEMMA NoCallsFine ==
  ASSUME NEW r, r.called = <<>>, r.pc \in {"idle", "scan", "prepare", "select"}
  PROVE  CallsFine(r)
  BY EmptyFine DEF CallsFine

(* The steps before the first call and after the last.                     *)
LEMMA QuietCalls ==
  ASSUME CallsInv, NEW d \in Drivers, RInv',
         \/ Snapshot(d) \/ Begin(d) \/ EndRun(d) \/ Prepare(d)
         \/ EndRaised(d) \/ Submit(d)
  PROVE  CallsInv'
  <1>1. /\ RunShape(driver[d]) /\ CallsFine(driver[d]) /\ RInv
        /\ UNCHANGED config
    BY OneRun
    DEF CallsInv, Snapshot, Begin, EndRun, Prepare, EndRaised, Submit
  <1>2. CASE Snapshot(d) \/ EndRun(d) \/ EndRaised(d) \/ Submit(d)
    <2>0. \A q : LET r == [Resting EXCEPT !.pc = "scan", !.queue = q]
                IN r.called = <<>> /\ r.pc = "scan"
      BY DEF Resting
    <2>1. PICK new : /\ RunStep(d, new) /\ new.called = <<>>
                     /\ new.pc \in {"idle", "scan"}
      <3>1. CASE Snapshot(d)
        BY <2>0, <3>1, Zenon DEF Snapshot, RunStep
      <3>2. CASE Submit(d)
        BY <2>0, <3>2, Zenon DEF Submit, RunStep
      <3>3. CASE EndRun(d) \/ EndRaised(d)
        <4>1. Resting.called = <<>> /\ Resting.pc = "idle"
          BY DEF Resting
        <4> QED
          BY <3>3, <4>1, Zenon DEF EndRun, EndRaised, RunStep
      <3> QED
        BY <1>2, <3>1, <3>2, <3>3
    <2>2. CallsFine(new)
      BY <2>1, NoCallsFine
    <2> QED
      BY <1>1, <2>1, <2>2, CallsKeep
  <1>3. CASE Begin(d)
    <2>1. driver[d].pc = "scan" /\ driver[d].called = <<>>
      BY <1>1, <1>3 DEF Begin, At, CallsFine
    <2>2. PICK lease \in driver[d].queue :
            \/ driver' = [driver EXCEPT ![d] =
                 [Resting EXCEPT !.pc = "prepare", !.queue = driver[d].queue \ {lease},
                    !.ticket = lease[1], !.worker = lease[2]]]
            \/ driver' = [driver EXCEPT ![d].queue = driver[d].queue \ {lease}]
      BY <1>3 DEF Begin
    <2> DEFINE rest  == driver[d].queue \ {lease}
               taken == [Resting EXCEPT !.pc = "prepare", !.queue = rest,
                           !.ticket = lease[1], !.worker = lease[2]]
               past  == [driver[d] EXCEPT !.queue = rest]
    <2> HIDE DEF rest
    <2>3. taken.called = <<>> /\ taken.pc = "prepare"
      BY DEF Resting
    <2>4. past.called = <<>> /\ past.pc = "scan"
      BY <1>1, <2>1 DEF RunShape, Fields
    <2>5. RunStep(d, taken) \/ RunStep(d, past)
      BY <2>2 DEF RunStep, rest
    <2> HIDE DEF taken, past
    <2>6. CallsFine(taken) /\ CallsFine(past)
      BY <2>3, <2>4, NoCallsFine
    <2> QED
      BY <1>1, <2>5, <2>6, CallsKeep
  <1>4. CASE Prepare(d)
    <2>1. driver[d].pc = "prepare" /\ driver[d].called = <<>>
      BY <1>1, <1>4 DEF Prepare, At, CallsFine
    <2> DEFINE ready == [driver[d] EXCEPT !.pc = "select"]
               sent  == ToSubmit(d, "RUNTIME_INPUT_ERROR", FALSE)
    <2>2. ready.called = <<>> /\ ready.pc = "select"
      BY <1>1, <2>1 DEF RunShape, Fields
    <2>3. RunStep(d, ready) \/ RunStep(d, sent)
      BY <1>4 DEF Prepare, RunStep
    <2>4. CallsFine(sent)
      BY ToSubmitCalls
    <2> HIDE DEF ready, sent
    <2>5. CallsFine(ready)
      BY <2>2, NoCallsFine
    <2> QED
      BY <1>1, <2>3, <2>4, <2>5, CallsKeep
  <1> QED
    BY <1>2, <1>3, <1>4

(* Selecting the provider.                                                 *)
LEMMA SelectCalls ==
  ASSUME CallsInv, NEW d \in Drivers, RInv', SelectProvider(d)
  PROVE  CallsInv'
  <1> DEFINE t == driver[d].ticket
             primary == Select(config, TargetOf[t], EmployeeProvider[driver[d].worker],
                               PreferenceOf[t])
             next == [driver[d] EXCEPT !.pc = "chain", !.chain = <<primary>>]
  <1>1. /\ RunShape(driver[d]) /\ CallsFine(driver[d]) /\ RInv
        /\ UNCHANGED config /\ t \in Tickets /\ driver[d].pc = "select"
    BY OneRun DEF CallsInv, SelectProvider, At, Holding, Phases
  <1>2. HasList(primary)
    <2>1. ConfigLists(config) /\ TargetOf[t] \in DOMAIN Legacy
      BY <1>1, RuntimeAssumption DEF CallsInv
    <2> QED
      BY <2>1, SelectedHasList
  <1>3. \/ RunStep(d, ToSubmit(d, "RUNTIME_INPUT_ERROR", FALSE))
        \/ RunStep(d, ToSubmit(d, "PROVIDER_REQUIRED_UNAVAILABLE", FALSE))
        \/ RunStep(d, next)
    <2> HIDE DEF primary
    <2> QED
      BY DEF SelectProvider, RunStep, primary
  <1> HIDE DEF primary
  <1>4. next.pc = "chain" /\ next.chain = <<primary>> /\ next.called = <<>>
    <2>1. driver[d].called = <<>>
      BY <1>1 DEF CallsFine
    <2> QED
      BY <1>1, <2>1 DEF RunShape, Fields
  <1> HIDE DEF next
  <1>5. CallsFine(next)
    <2>1. Head(next.chain) = primary
      BY <1>4
    <2> QED
      BY <1>2, <1>4, <2>1, EmptyFine DEF CallsFine
  <1> QED
    BY <1>1, <1>3, <1>5, CallsKeep, ToSubmitCalls

(* Settling the candidates.                                                *)
LEMMA ChainCalls ==
  ASSUME CallsInv, NEW d \in Drivers, RInv', ResolveChain(d)
  PROVE  CallsInv'
  <1> DEFINE primary == Head(driver[d].chain)
             later == Failovers(config, breaker, TargetOf[driver[d].ticket], primary)
             chain == <<primary>> \o later
             next == [driver[d] EXCEPT !.pc = "call", !.chain = chain, !.attempt = 1]
  <1>1. /\ RunShape(driver[d]) /\ CallsFine(driver[d]) /\ RInv
        /\ UNCHANGED config /\ driver[d].pc = "chain"
    BY OneRun DEF CallsInv, ResolveChain, At
  <1>2. IsList(chain) /\ NoneTwice(chain) /\ chain # <<>>
    <2>1. ConfigLists(config)
      BY RuntimeAssumption DEF CallsInv
    <2>2. IsList(primary.entry.fallbacks)
      BY <1>1 DEF CallsFine, HasList
    <2>3. primary.target \in DOMAIN config.binding => IsList(config.binding[primary.target])
      BY <2>1 DEF ConfigLists
    <2> HIDE DEF primary
    <2>4. (\E R : chain \in Seq(R)) /\ chain # <<>> /\ NoneTwice(chain)
      BY <2>2, <2>3, FailoversAreNew
    <2> HIDE DEF chain
    <2> QED
      BY <2>4, SeqIsList
  <1>3. \/ RunStep(d, ToSubmit(d, "RUNTIME_INPUT_ERROR", FALSE))
        \/ RunStep(d, ToSubmit(d, "PROVIDER_REQUIRED_UNAVAILABLE", FALSE))
        \/ RunStep(d, next)
    <2> HIDE DEF primary, later
    <2> QED
      BY DEF ResolveChain, RunStep, primary, later
  <1> HIDE DEF chain
  <1>4. next.pc = "call" /\ next.chain = chain /\ next.called = <<>>
    <2>1. driver[d].called = <<>>
      BY <1>1 DEF CallsFine
    <2> QED
      BY <1>1, <2>1 DEF RunShape, Fields
  <1> HIDE DEF next
  <1>5. CallsFine(next)
    BY <1>2, <1>4, EmptyFine DEF CallsFine
  <1> QED
    BY <1>1, <1>3, <1>5, CallsKeep, ToSubmitCalls

(* One more element of a list that has it nowhere yet.                     *)
LEMMA OneMore ==
  ASSUME NEW s, IsList(s), IsInjective(s), NEW p, \A i \in DOMAIN s : s[i] # p
  PROVE  IsList(Append(s, p)) /\ IsInjective(Append(s, p))
         /\ \A i \in DOMAIN Append(s, p) : (i \in DOMAIN s /\ Append(s, p)[i] = s[i])
                                           \/ Append(s, p)[i] = p
  <1> DEFINE r == Append(s, p)
             Q == Range(s) \cup {p}
  <1>1. s \in Seq(Q) /\ p \in Q
    BY DEF IsList
  <1>2. /\ r \in Seq(Q) /\ Len(s) \in Nat /\ Len(r) = Len(s) + 1
        /\ DOMAIN r = 1 .. Len(r) /\ DOMAIN s = 1 .. Len(s)
        /\ r[Len(r)] = p /\ \A i \in 1 .. Len(s) : r[i] = s[i]
    BY <1>1
  <1> HIDE DEF r
  <1>3. \A i \in DOMAIN r : (i \in DOMAIN s /\ r[i] = s[i]) \/ (i = Len(r) /\ r[i] = p)
    BY <1>2
  <1>4. IsInjective(r)
    BY <1>3 DEF IsInjective
  <1> QED
    BY <1>2, <1>3, <1>4, SeqIsList DEF r

(* One attempt at one candidate.                                           *)
LEMMA CallCalls ==
  ASSUME CallsInv, NEW d \in Drivers, RInv', Call(d)
  PROVE  CallsInv'
  <1> DEFINE again == [driver[d] EXCEPT !.attempt = driver[d].attempt + 1]
             fails(kind) == [driver[d] EXCEPT
                               !.pc = IF kind \in PauseKinds THEN "report" ELSE "raised",
                               !.result = kind, !.called = Called(d)]
             answers(kind) == [ToSubmit(d, kind, driver[d].called = <<>>)
                                 EXCEPT !.called = Called(d)]
  <1>1. /\ RunShape(driver[d]) /\ CallsFine(driver[d]) /\ RInv
        /\ UNCHANGED config /\ driver[d].pc = "call" /\ driver[d].pc \in Holding
    BY OneRun DEF CallsInv, Call, At, Holding, Phases
  <1>2. PICK kind : RunStep(d, again) \/ RunStep(d, fails(kind)) \/ RunStep(d, answers(kind))
    BY Zenon DEF Call, RunStep
  <1>3. CallsFine(again)
    <2>1. again.pc = "call" /\ again.chain = driver[d].chain /\ again.called = driver[d].called
      BY <1>1 DEF RunShape, Fields
    <2> HIDE DEF again
    <2> QED
      BY <1>1, <2>1 DEF CallsFine
  <1> DEFINE chain == driver[d].chain
             p == Head(chain).provider
             called == Called(d)
  <1>4. /\ IsList(called) /\ IsInjective(called)
        /\ \A i \in DOMAIN called :
             (i \in DOMAIN driver[d].called /\ called[i] = driver[d].called[i])
             \/ called[i] = p
    <2>1. Head(chain) = chain[1] /\ 1 \in DOMAIN chain
      <3>1. chain \in Seq(Range(chain)) /\ chain # <<>>
        BY <1>1 DEF CallsFine, IsList
      <3> HIDE DEF chain
      <3> QED
        BY <3>1
    <2>2. \A i \in DOMAIN driver[d].called : driver[d].called[i] # p
      <3> HIDE DEF p
      <3> QED
        BY <1>1, <2>1 DEF CallsFine, p
    <2>3. called = Append(driver[d].called, p)
      BY DEF Called
    <2>4. IsList(driver[d].called) /\ IsInjective(driver[d].called)
      BY <1>1 DEF CallsFine
    <2> HIDE DEF called, p
    <2> QED
      BY <2>2, <2>3, <2>4, OneMore
  <1> HIDE DEF called
  <1>5. CallsFine(fails(kind))
    <2> DEFINE new == fails(kind)
    <2>1. /\ new.pc \in {"report", "raised"}
          /\ new.chain = chain /\ new.called = called
      BY <1>1 DEF RunShape, Fields, called
    <2>2. /\ IsList(chain) /\ chain # <<>> /\ NoneTwice(chain)
          /\ \A i \in DOMAIN driver[d].called : \A j \in DOMAIN chain :
               driver[d].called[i] # chain[j].provider
      BY <1>1 DEF CallsFine
    <2> HIDE DEF new, chain
    <2>3. Head(chain) = chain[1] /\ 1 \in DOMAIN chain
      BY <2>2 DEF IsList
    <2>4. ASSUME NEW i \in DOMAIN called, NEW j \in DOMAIN chain,
                 called[i] = chain[j].provider
          PROVE  j = 1
      <3>1. called[i] = chain[1].provider
        BY <1>4, <2>2, <2>3, <2>4
      <3> QED
        BY <2>2, <2>3, <2>4, <3>1 DEF NoneTwice
    <2>5. CallsFine(new)
      BY <1>4, <2>1, <2>2, <2>4 DEF CallsFine
    <2> QED
      BY <2>5 DEF new
  <1>6. CallsFine(answers(kind))
    <2> DEFINE first == driver[d].called = <<>>
               sent  == ToSubmit(d, kind, first)
               new   == [sent EXCEPT !.called = called]
    <2>1. RunShape(sent) /\ sent.pc = "submit"
      <3> HIDE DEF first
      <3> QED
        BY <1>1, ToSubmitFine
    <2>2. new.pc = "submit" /\ new.called = called
      <3> HIDE DEF sent
      <3> QED
        BY <2>1 DEF RunShape, Fields
    <2>3. answers(kind) = new
      BY DEF called
    <2> HIDE DEF new
    <2>4. CallsFine(new)
      BY <1>4, <2>2 DEF CallsFine
    <2> QED
      BY <2>3, <2>4
  <1> HIDE DEF again, fails, answers
  <1> QED
    BY <1>1, <1>2, <1>3, <1>5, <1>6, CallsKeep

(* The incident of a failed candidate, and the next one.                   *)
LEMMA ReportCalls ==
  ASSUME CallsInv, NEW d \in Drivers, RInv', Report(d)
  PROVE  CallsInv'
  <1> DEFINE chain  == driver[d].chain
             rest   == Tail(chain)
             onward == [driver[d] EXCEPT !.pc = "call", !.chain = rest, !.attempt = 1]
             raised == [driver[d] EXCEPT !.pc = "raised"]
             failure == ToSubmit(d, "PROVIDER_REQUIRED_UNAVAILABLE", FALSE)
  <1>1. /\ RunShape(driver[d]) /\ CallsFine(driver[d]) /\ RInv
        /\ UNCHANGED config /\ driver[d].pc = "report"
    BY OneRun DEF CallsInv, Report, At
  <1>2. \/ RunStep(d, raised) \/ RunStep(d, failure)
        \/ (RunStep(d, onward) /\ rest # <<>>)
    <2> HIDE DEF rest
    <2> QED
      BY DEF Report, RunStep, rest, chain
  <1>3. CallsFine(raised)
    <2>1. raised.pc = "raised" /\ raised.called = driver[d].called
      BY <1>1 DEF RunShape, Fields
    <2> HIDE DEF raised
    <2> QED
      BY <1>1, <2>1 DEF CallsFine
  <1>4. CallsFine(failure)
    BY ToSubmitCalls
  <1>5. ASSUME rest # <<>> PROVE CallsFine(onward)
    <2>1. /\ IsList(chain) /\ chain # <<>> /\ NoneTwice(chain)
          /\ IsList(driver[d].called) /\ IsInjective(driver[d].called)
          /\ \A i \in DOMAIN driver[d].called : \A j \in DOMAIN chain :
               driver[d].called[i] = chain[j].provider => j = 1
      BY <1>1 DEF CallsFine
    <2> HIDE DEF rest
    <2>2. /\ onward.pc = "call" /\ onward.chain = rest
          /\ onward.called = driver[d].called
      BY <1>1 DEF RunShape, Fields
    <2> HIDE DEF chain, onward
    <2>3. /\ rest \in Seq(Range(chain)) /\ Len(chain) \in Nat
          /\ \A j \in DOMAIN rest :
               j \in Nat \ {0} /\ j + 1 \in DOMAIN chain /\ rest[j] = chain[j + 1]
      BY <2>1 DEF IsList, rest
    <2>4. IsList(rest)
      BY <2>3, SeqIsList
    <2>5. NoneTwice(rest)
      <3>1. ASSUME NEW i \in DOMAIN rest, NEW j \in DOMAIN rest,
                   rest[i].provider = rest[j].provider
            PROVE  i = j
        <4>1. i + 1 = j + 1 /\ i \in Nat /\ j \in Nat
          BY <2>1, <2>3, <3>1 DEF NoneTwice
        <4> QED
          BY <4>1
      <3> QED
        BY <3>1 DEF NoneTwice
    <2>6. \A i \in DOMAIN driver[d].called : \A j \in DOMAIN rest :
            driver[d].called[i] # rest[j].provider
      <3>1. \A j \in DOMAIN rest : j + 1 # 1
        BY <2>3
      <3> QED
        BY <2>1, <2>3, <3>1
    <2> QED
      BY <1>5, <2>1, <2>2, <2>4, <2>5, <2>6 DEF CallsFine
  <1> HIDE DEF onward, raised, failure
  <1> QED
    BY <1>1, <1>2, <1>3, <1>4, <1>5, CallsKeep

(* Nobody has been called at the start.                                    *)
LEMMA CallsInit == Init => CallsInv
  <1> SUFFICES ASSUME Init PROVE CallsInv
    OBVIOUS
  <1>1. Resting.called = <<>> /\ Resting.pc = "idle"
    BY DEF Resting
  <1>2. CallsFine(Resting)
    BY <1>1, NoCallsFine
  <1>3. \A d \in Drivers : CallsFine(driver[d])
    BY <1>2 DEF Init
  <1> QED
    BY <1>3, RInit DEF Init, CallsInv

(* Every step keeps the record of the calls.                               *)
LEMMA CallsStep == CallsInv /\ [Next]_vars => CallsInv'
  <1> SUFFICES ASSUME CallsInv, [Next]_vars PROVE CallsInv'
    OBVIOUS
  <1>1. RInv /\ RInv'
    BY RStep DEF CallsInv
  <1>2. CASE \E d \in Drivers : Snapshot(d) \/ Run(d)
    BY <1>1, <1>2, QuietCalls, SelectCalls, ChainCalls, CallCalls, ReportCalls DEF Run
  <1>3. CASE \/ UNCHANGED vars
             \/ \E t \in Tickets : Stop(t) \/ \E w \in Workers : Lease(t, w)
             \/ \E p \in Providers : ResolveIncident(p)
             \/ SaveBegin \/ SaveEnd
    <2>1. UNCHANGED driver /\ config' \in Configs
      BY <1>3 DEF vars, Stop, Lease, ResolveIncident, SaveBegin, SaveEnd, CallsInv
    <2> QED
      BY <1>1, <2>1 DEF CallsInv, CallsFine
  <1> QED
    BY <1>2, <1>3 DEF Next

(* However the configuration changes between the reads of a run, a         *)
(* provider that failed a ticket is not asked again for the same ticket.   *)
THEOREM EachProviderOnce == Spec => []NoProviderCalledTwice
  <1>1. CallsInv => NoProviderCalledTwice
    BY DEF CallsInv, CallsFine, NoProviderCalledTwice
  <1>2. Spec => []CallsInv
    BY CallsInit, CallsStep, PTL DEF Spec
  <1> QED
    BY <1>1, <1>2, PTL
=============================================================================
