\* The deterministic CEO, a crash at any point, somebody to hire on the way. Liveness.
SPECIFICATION FairSpec
CONSTANTS
  brief = brief
  backlog = backlog
  i1 = i1
  Chain <- McChain
  Items = {i1}
  DependsOn <- OneItem
  Closeout = closeout
  Gate = gate
  Meeting = meeting
  NoNode = NoNode
  RoleOf <- McRoleOf
  Architect = "architect"
  NoRole = "none"
  InitialStaff = {"planner", "architect"}
  RequiresArchitect = FALSE
  RequiresMeeting = FALSE
  LiveActions = {}
  Runs = {"request", "scheduler"}
  Maintainer = "scheduler"
  Outcomes = {}
  MaxMishaps = 0
  MaxCrashes = 1
CHECK_DEADLOCK FALSE
INVARIANTS
  CloseoutHasEvidence
PROPERTIES
  Closes
