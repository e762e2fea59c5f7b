\* A build and the milestone review that follows it, up to the closeout.
SPECIFICATION Spec
CONSTANTS
  build = build
  review = review
  closeout = closeout
  scope = scope
  memo = memo
  Nodes = {build, review, closeout}
  Employees = {m1, c1}
  NoOne = NoOne
  MaxTickets = 7
  OrdinaryKinds = {bad}
  ProviderKinds = {}
  DispatchInvalid = DispatchInvalid
  Makers = {m1}
  Checkers = {c1}
  ReviewOf <- Delivery
  Code = {build}
  Upstream <- After
  CloseoutOf <- Opens
  Findings = {f1}
  NoFinding = NoFinding
  RetryBudget = 0
  ReworkThreshold = 2
  EscalatesRepeats = TRUE
  Autopilot = FALSE
  Commands = {"create", "complete", "cancel", "resolve", "reject", "conflict", "crash", "late commit"}
  MaxCreates = 3
CHECK_DEADLOCK FALSE
INVARIANTS
  TypeOK
  DownstreamWaitsForReview
  BoardQueueAgrees
  GateAgrees
  RepeatsEscalate
PROPERTIES
  ContractKept
