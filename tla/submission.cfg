\* Results submitted while the ticket is cancelled, timed out or leased by hand;
\* liveness, with a ticket and an incident left for every tick.
SPECIFICATION FairSpec
CONSTANTS
  e1 = e1
  e2 = e2
  n1 = n1
  n2 = n2
  p1 = p1
  Nodes = {n1}
  Employees = {e1}
  NoOne = NoOne
  MaxTickets = 5
  OrdinaryKinds = {bad}
  ProviderKinds = {outage}
  DispatchInvalid = DispatchInvalid
  Providers = {p1}
  NoProvider = NoProvider
  ProviderOf <- SameProvider
  EnabledProviders = {}
  NamedProviders = {}
  RetryBudget = 1
  TimeoutThreshold = 2
  FailureThreshold = 2
  RetriesTimeouts = TRUE
  EscalatesRepeats = TRUE
  NotRetried = {}
  MaxDispatches = 2
  Commands = {"create", "cancel", "lease", "submit"}
  Assignees = {}
  ParentChoices = {}
  GateChoices = {}
  ExtraWorkers = {}
  Clocks = {"lease", "beat due", "heartbeat", "sla"}
  MaxCreates = 2
  MaxIncidents = 3
CHECK_DEADLOCK FALSE
INVARIANTS
  TypeOK
  NodeMirrorsTicket
  OneBreakerPerCause
PROPERTIES
  ContractKept
  EveryExecutionEnds
