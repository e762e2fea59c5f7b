\* Incidents of every type resolved, with pending descendants to recreate,
\* freezes, restores and retries by the CEO.
SPECIFICATION Spec
CONSTANTS
  e1 = e1
  e2 = e2
  n1 = n1
  n2 = n2
  p1 = p1
  Nodes = {n1, n2}
  Employees = {e1}
  NoOne = NoOne
  MaxTickets = 4
  OrdinaryKinds = {bad}
  ProviderKinds = {outage}
  DispatchInvalid = DispatchInvalid
  Providers = {p1}
  NoProvider = NoProvider
  ProviderOf <- SameProvider
  EnabledProviders = {}
  NamedProviders = {}
  RetryBudget = 1
  TimeoutThreshold = 1
  FailureThreshold = 2
  RetriesTimeouts = TRUE
  EscalatesRepeats = TRUE
  NotRetried = {}
  MaxDispatches = 2
  Commands = {"create", "resolve", "freeze", "restore", "ceo retry"}
  Assignees = {}
  ParentChoices = {1}
  GateChoices = {}
  ExtraWorkers = {}
  Clocks = {"lease", "sla"}
  MaxCreates = 2
  MaxIncidents = 2
CHECK_DEADLOCK FALSE
INVARIANTS
  ClosedOnlyByFollowup
  BreakerFollowsIncident
PROPERTIES
  OverBudgetOnlyByOperator
