\* Autopilot and the fix loop, with retries. Liveness: no symmetry.
SPECIFICATION FairSpec
CONSTANTS
  build = build
  review = review
  closeout = closeout
  scope = scope
  memo = memo
  Nodes = {build, scope, memo}
  Employees = {m1, m2, m3, c1}
  NoOne = NoOne
  MaxTickets = 12
  OrdinaryKinds = {bad}
  ProviderKinds = {}
  DispatchInvalid = DispatchInvalid
  Makers = {m1, m2, m3}
  Checkers = {c1}
  ReviewOf <- Delivery
  Code = {}
  Upstream <- After
  CloseoutOf <- Opens
  Findings = {f1, f2}
  NoFinding = NoFinding
  RetryBudget = 1
  ReworkThreshold = 3
  EscalatesRepeats = TRUE
  Autopilot = TRUE
  Commands = {"create", "complete"}
  MaxCreates = 1
CHECK_DEADLOCK FALSE
INVARIANTS
  ReworkBounded
PROPERTIES
  FreshEyes
  EveryReviewEnds
