\* Tickets created again, cancelled, frozen, and gated on another ticket or on the
\* node of their parent; ticks that are told of a worker themselves.
SPECIFICATION Spec
CONSTANTS
  e1 = e1
  e2 = e2
  n1 = n1
  n2 = n2
  p1 = p1
  Nodes = {n1, n2}
  Employees = {e1, e2}
  NoOne = NoOne
  MaxTickets = 3
  OrdinaryKinds = {bad}
  ProviderKinds = {}
  DispatchInvalid = DispatchInvalid
  Providers = {p1}
  NoProvider = NoProvider
  ProviderOf <- SameProvider
  EnabledProviders = {}
  NamedProviders = {}
  RetryBudget = 1
  TimeoutThreshold = 2
  FailureThreshold = 2
  RetriesTimeouts = TRUE
  EscalatesRepeats = TRUE
  NotRetried = {}
  MaxDispatches = 2
  Commands = {"create", "cancel", "freeze"}
  Assignees = {e1}
  ParentChoices = {1}
  GateChoices = {{1}}
  ExtraWorkers = {{e1}}
  Clocks = {"lease", "sla"}
  MaxCreates = 3
  MaxIncidents = 1
CHECK_DEADLOCK FALSE
INVARIANTS
  ExecutingOwnerActive
  OneExecutionPerNode
  NoTicketLost
  NeverAheadOfGates
  OneClaimPerWorker
  TrippedNodeIdle
