-------------------------- MODULE RuntimeExecution --------------------------
(***************************************************************************)
(* run_leased_ticket_runtime (core/runtime.py): the loop that starts every *)
(* leased ticket, calls its provider and the failover candidates after it, *)
(* and submits the result.  The scheduler's thread, the runner process and *)
(* every request that advances a workflow run it, so several runs (the     *)
(* drivers) interleave; each database transaction of a run is one action,  *)
(* and so is each read of the provider configuration, a file that is       *)
(* written in place.                                                       *)
(*                                                                         *)
(* The tickets and the circuit breakers belong to TicketLifecycle; only    *)
(* what a run sees and does of them is here.                               *)
(***************************************************************************)
EXTENDS ProviderSelection, FiniteSets

CONSTANTS
  Drivers, Tickets, NoTicket, Workers, NoWorker,
  Delivery,          \* the tickets that deliver source code
  TargetOf,          \* ticket -> its execution target
  PreferenceOf,      \* ticket -> the provider its runtime_preference names
  EmployeeProvider,  \* worker -> the provider of the employee
  Configs,           \* the configurations operators save
  MaxAttempts        \* PROVIDER_MAX_ATTEMPTS

ASSUME RuntimeAssumption ==
  /\ NoTicket \notin Tickets /\ NoWorker \notin Workers
  /\ Delivery \subseteq Tickets
  /\ TargetOf \in [Tickets -> DOMAIN Legacy]
  /\ PreferenceOf \in [Tickets -> Providers \cup {NoProvider}]
  /\ EmployeeProvider \in [Workers -> Providers \cup {NoProvider}]
  /\ \A c \in Configs : ConfigLists(c) /\ DOMAIN c.entry \subseteq Providers
  /\ MaxAttempts \in Nat \ {0}

VARIABLES
  ticket,   \* status and lease owner of every ticket
  breaker,  \* the providers whose circuit breaker is open
  opened,   \* <<ticket, kind>> of the incident-opened keys in the log
  config,   \* the saved provider configuration
  saving,   \* the configuration file is being rewritten
  driver,   \* what each run is doing
  aborted   \* history: the tickets whose run a command's exception ended

vars == <<ticket, breaker, opened, config, saving, driver, aborted>>

Statuses == {"QUEUED", "LEASED", "EXECUTING", "COMPLETED", "FAILED", "STOPPED"}

Resting ==
  [pc |-> "idle", queue |-> {}, ticket |-> NoTicket, worker |-> NoWorker,
   chain |-> <<>>, called |-> <<>>, attempt |-> 0, result |-> "none",
   evidence |-> FALSE]

TypeOK ==
  /\ ticket \in [Tickets -> [status : Statuses, worker : Workers \cup {NoWorker}]]
  /\ breaker \subseteq Providers
  /\ opened \subseteq Tickets \X PauseKinds
  /\ config \in Configs /\ saving \in BOOLEAN
  /\ aborted \subseteq Tickets
  /\ \A d \in Drivers :
       /\ driver[d].pc \in {"idle", "scan", "prepare", "select", "chain", "call",
                            "report", "submit", "raised"}
       /\ driver[d].queue \subseteq Tickets \X Workers
       /\ driver[d].ticket \in Tickets \cup {NoTicket}
       /\ driver[d].attempt \in 0 .. MaxAttempts
       /\ driver[d].called \in Seq(Providers)

Init ==
  /\ ticket = [t \in Tickets |-> [status |-> "QUEUED", worker |-> NoWorker]]
  /\ breaker = {} /\ opened = {}
  /\ config \in Configs /\ saving = FALSE
  /\ aborted = {}
  /\ driver = [d \in Drivers |-> Resting]

-----------------------------------------------------------------------------
(* One run.                                                                *)

At(d, pc) == driver[d].pc = pc

(* _list_runtime_startable_leased_tickets, read outside any transaction.   *)
Snapshot(d) ==
  /\ At(d, "idle")
  /\ \E t \in Tickets : ticket[t].status = "LEASED"
  /\ driver' = [driver EXCEPT ![d] = [Resting EXCEPT !.pc = "scan",
       !.queue = {<<t, ticket[t].worker>> :
                    t \in {u \in Tickets : ticket[u].status = "LEASED"}}]]
  /\ UNCHANGED <<ticket, breaker, opened, config, saving, aborted>>

(* Mutant: the lease owner is checked and the status is not.               *)
StartAccepted_ByOwner(t, w) ==
  /\ ticket[t].worker = w
  /\ EmployeeProvider[w] \in breaker => Enabled(config, EmployeeProvider[w])

(* handle_ticket_start, seen from here.                                    *)
StartAccepted(t, w) ==
  /\ ticket[t] = [status |-> "LEASED", worker |-> w]
  /\ EmployeeProvider[w] \in breaker => Enabled(config, EmployeeProvider[w])

(* A ticket that cannot be started any more is passed over.                *)
Begin(d) ==
  /\ At(d, "scan")
  /\ \E lease \in driver[d].queue :
       LET t == lease[1]  w == lease[2]
           rest == driver[d].queue \ {lease} IN
       IF StartAccepted(t, w)
       THEN /\ ticket' = [ticket EXCEPT ![t].status = "EXECUTING"]
            /\ driver' = [driver EXCEPT ![d] =
                 [Resting EXCEPT !.pc = "prepare", !.queue = rest,
                    !.ticket = t, !.worker = w]]
       ELSE /\ driver' = [driver EXCEPT ![d].queue = rest]
            /\ UNCHANGED ticket
  /\ UNCHANGED <<breaker, opened, config, saving, aborted>>

EndRun(d) ==
  /\ At(d, "scan") /\ driver[d].queue = {}
  /\ driver' = [driver EXCEPT ![d] = Resting]
  /\ UNCHANGED <<ticket, breaker, opened, config, saving, aborted>>

ToSubmit(d, result, evidence) ==
  [driver[d] EXCEPT !.pc = "submit", !.result = result, !.evidence = evidence]

(* Mutant: the exception of the compiler is not caught.                    *)
Prepare_Uncaught(d) ==
  /\ At(d, "prepare")
  /\ \/ driver' = [driver EXCEPT ![d].pc = "select"]
     \/ driver' = [driver EXCEPT ![d].pc = "raised"]
  /\ UNCHANGED <<ticket, breaker, opened, config, saving, aborted>>

(* Compiling the execution package, or failing to: a validation error is   *)
(* submitted as the ticket's failure.                                      *)
Prepare(d) ==
  /\ At(d, "prepare")
  /\ \/ driver' = [driver EXCEPT ![d].pc = "select"]
     \/ driver' = [driver EXCEPT ![d] = ToSubmit(d, "RUNTIME_INPUT_ERROR", FALSE)]
  /\ UNCHANGED <<ticket, breaker, opened, config, saving, aborted>>

(* _resolve_provider_selection_for_ticket.  Half a configuration file does *)
(* not parse, which is a ValueError of the ticket.                         *)
SelectProvider(d) ==
  LET t == driver[d].ticket
      primary == Select(config, TargetOf[t], EmployeeProvider[driver[d].worker],
                        PreferenceOf[t]) IN
  /\ At(d, "select")
  /\ driver' = [driver EXCEPT ![d] =
       IF saving THEN ToSubmit(d, "RUNTIME_INPUT_ERROR", FALSE)
       ELSE IF primary = NoSelection
       THEN ToSubmit(d, "PROVIDER_REQUIRED_UNAVAILABLE", FALSE)
       ELSE [@ EXCEPT !.pc = "chain", !.chain = <<primary>>]]
  /\ UNCHANGED <<ticket, breaker, opened, config, saving, aborted>>

(* The configuration is read a second time for the candidates, which are   *)
(* settled before the first call.                                          *)
ResolveChain(d) ==
  LET primary == Head(driver[d].chain)
      later   == Failovers(config, breaker, TargetOf[driver[d].ticket], primary) IN
  /\ At(d, "chain")
  /\ driver' = [driver EXCEPT ![d] =
       IF saving THEN ToSubmit(d, "RUNTIME_INPUT_ERROR", FALSE)
       ELSE IF primary.provider \in breaker \/ ~primary.entry.configured
       THEN ToSubmit(d, "PROVIDER_REQUIRED_UNAVAILABLE", FALSE)
       ELSE [@ EXCEPT !.pc = "call", !.chain = <<primary>> \o later, !.attempt = 1]]
  /\ UNCHANGED <<ticket, breaker, opened, config, saving, aborted>>

Called(d) == Append(driver[d].called, Head(driver[d].chain).provider)

(* Only the HTTP adapter tries again, only after an outage, and no more    *)
(* than MaxAttempts times.                                                 *)
Again(d, kind) ==
  /\ kind \in PauseKinds /\ ~Head(driver[d].chain).entry.command
  /\ driver[d].attempt < MaxAttempts

(* Mutant: the attempts of a candidate start over instead of running out.  *)
Call_StartsOver(d) ==
  /\ At(d, "call")
  /\ \E kind \in CallKinds(Head(driver[d].chain).entry) :
       driver' = [driver EXCEPT ![d] =
         IF Again(d, kind) THEN [@ EXCEPT !.attempt = driver[d].attempt + 1]
         ELSE IF kind \in PauseKinds THEN [@ EXCEPT !.attempt = 1]
         ELSE ToSubmit(d, kind, FALSE)]
  /\ UNCHANGED <<ticket, breaker, opened, config, saving, aborted>>

(* _execute_openai_compat_provider, _execute_claude_code_provider: one     *)
(* attempt.  The exceptions that are not caught around a command are not   *)
(* caught by the run either: only validation and value errors are.         *)
Call(d) ==
  /\ At(d, "call")
  /\ \E kind \in CallKinds(Head(driver[d].chain).entry) :
       /\ driver' = [driver EXCEPT ![d] =
            IF Again(d, kind) THEN [@ EXCEPT !.attempt = driver[d].attempt + 1]
            ELSE IF kind \in PauseKinds \cup UncaughtKinds
            THEN [@ EXCEPT !.pc = IF kind \in PauseKinds THEN "report" ELSE "raised",
                           !.result = kind, !.called = Called(d)]
            ELSE [ToSubmit(d, kind, driver[d].called = <<>>) EXCEPT !.called = Called(d)]]
       /\ aborted' = IF kind \in UncaughtKinds THEN aborted \cup {driver[d].ticket} ELSE aborted
  /\ UNCHANGED <<ticket, breaker, opened, config, saving>>

(* _open_runtime_provider_incident, then the next candidate.  The key of   *)
(* the incident names the ticket and the kind, not the provider: a second  *)
(* provider failing alike finds it taken, and the RuntimeError that        *)
(* follows is not among the exceptions the run catches.                    *)
IncidentKey(d) == <<driver[d].ticket, driver[d].result>>

Report(d) ==
  LET failed == Head(driver[d].chain).provider
      rest   == Tail(driver[d].chain)
      isNew  == failed \notin breaker
      next   == IF rest = <<>> \/ driver[d].result \notin FailoverKinds
                THEN ToSubmit(d, "PROVIDER_REQUIRED_UNAVAILABLE", FALSE)
                ELSE [driver[d] EXCEPT !.pc = "call", !.chain = rest, !.attempt = 1] IN
  /\ At(d, "report")
  /\ IF isNew /\ IncidentKey(d) \in opened
     THEN /\ driver' = [driver EXCEPT ![d].pc = "raised"]
          /\ UNCHANGED <<breaker, opened>>
     ELSE /\ driver' = [driver EXCEPT ![d] = next]
          /\ breaker' = breaker \cup {failed}
          /\ opened' = IF isNew THEN opened \cup {IncidentKey(d)} ELSE opened
  /\ UNCHANGED <<ticket, config, saving, aborted>>

(* The exception ends the run: the loop logs it, a request answers 500.    *)
EndRaised(d) ==
  /\ At(d, "raised")
  /\ driver' = [driver EXCEPT ![d] = Resting]
  /\ UNCHANGED <<ticket, breaker, opened, config, saving, aborted>>

(* handle_ticket_result_submit, seen from here: a code delivery without    *)
(* its evidence and commit record fails the hook validation.  The result   *)
(* of a failover candidate has neither.                                    *)
SubmittedStatus(d) ==
  IF driver[d].result = "COMPLETED" /\ (driver[d].ticket \in Delivery => driver[d].evidence)
  THEN "COMPLETED" ELSE "FAILED"

Submit(d) ==
  LET t == driver[d].ticket IN
  /\ At(d, "submit")
  /\ ticket' = IF ticket[t].status = "EXECUTING"
               THEN [ticket EXCEPT ![t].status = SubmittedStatus(d)] ELSE ticket
  /\ driver' = [driver EXCEPT ![d] =
                  [Resting EXCEPT !.pc = "scan", !.queue = driver[d].queue]]
  /\ UNCHANGED <<breaker, opened, config, saving, aborted>>

-----------------------------------------------------------------------------
(* The rest of the system, as far as a run can tell.                       *)

Lease(t, w) ==   \* the tick, or a ticket-lease command
  /\ ticket[t].status \in {"QUEUED", "LEASED"}
  /\ EmployeeProvider[w] \notin breaker
  /\ ticket' = [ticket EXCEPT ![t] = [status |-> "LEASED", worker |-> w]]
  /\ UNCHANGED <<breaker, opened, config, saving, driver, aborted>>

Stop(t) ==       \* timed out, or cancelled, while it executes
  /\ ticket[t].status = "EXECUTING"
  /\ ticket' = [ticket EXCEPT ![t].status = "STOPPED"]
  /\ UNCHANGED <<breaker, opened, config, saving, driver, aborted>>

ResolveIncident(p) ==
  /\ p \in breaker
  /\ breaker' = breaker \ {p}
  /\ UNCHANGED <<ticket, opened, config, saving, driver, aborted>>

(* save_runtime_provider_command: write_text truncates, then writes.       *)
SaveBegin ==
  /\ ~saving
  /\ saving' = TRUE
  /\ UNCHANGED <<ticket, breaker, opened, config, driver, aborted>>

SaveEnd ==
  /\ saving
  /\ saving' = FALSE
  /\ config' \in Configs
  /\ UNCHANGED <<ticket, breaker, opened, driver, aborted>>

-----------------------------------------------------------------------------
Run(d) ==
  \/ Begin(d) \/ EndRun(d) \/ Prepare(d) \/ SelectProvider(d) \/ ResolveChain(d)
  \/ Call(d) \/ Report(d) \/ EndRaised(d) \/ Submit(d)

Next ==
  \/ \E d \in Drivers : Snapshot(d) \/ Run(d)
  \/ \E t \in Tickets : Stop(t) \/ \E w \in Workers : Lease(t, w)
  \/ \E p \in Providers : ResolveIncident(p)
  \/ SaveBegin \/ SaveEnd

Spec == Init /\ [][Next]_vars

(* A thread that has work keeps running, and a call returns: every phase   *)
(* of it has a timeout.                                                    *)
FairSpec == Spec /\ \A d \in Drivers : WF_vars(Run(d))

-----------------------------------------------------------------------------
Driving(d, t) == driver[d].ticket = t /\ driver[d].pc \notin {"idle", "scan"}

(* Two runs that listed the same leased ticket never both execute it.      *)
OneDriverPerTicket ==
  \A t \in Tickets : \A c, d \in Drivers : Driving(c, t) /\ Driving(d, t) => c = d

(* A ticket is left executing with nobody working on it only where one of  *)
(* its candidates repeated the outage of another, or a command failed in a *)
(* way that is not caught: every other way through a run, whatever fails   *)
(* in it, ends in a submission (runtime.py:1403-1440,1652-1726,2247).      *)
ExecutingIsDriven ==
  \A t \in Tickets :
    ticket[t].status = "EXECUTING" =>
      \/ \E d \in Drivers : Driving(d, t)
      \/ \E kind \in PauseKinds : <<t, kind>> \in opened
      \/ t \in aborted

(* However the configuration changes between the two reads, a provider     *)
(* that failed a ticket is not asked again for the same ticket.            *)
NoProviderCalledTwice ==
  \A d \in Drivers : IsInjective(driver[d].called)

(* Every run comes to its end: retries and candidates run out.             *)
EveryRunEnds == \A d \in Drivers : ~At(d, "idle") ~> At(d, "idle")
=============================================================================
