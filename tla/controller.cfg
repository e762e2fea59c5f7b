\* A live CEO that proposes anything, two runs at a time, one of them idle maintenance, and a meeting asked for.
SPECIFICATION Spec
CONSTANTS
  brief = brief
  backlog = backlog
  i1 = i1
  Chain <- McChain
  Items = {i1}
  DependsOn <- OneItem
  Closeout = closeout
  Gate = gate
  Meeting = meeting
  NoNode = NoNode
  RoleOf <- McRoleOf
  Architect = "architect"
  NoRole = "none"
  InitialStaff = {"planner", "builder", "architect"}
  RequiresArchitect = FALSE
  RequiresMeeting = TRUE
  LiveActions <- Eager
  Runs = {"request", "scheduler"}
  Maintainer = "scheduler"
  Outcomes = {"retry", "incident", "abandon"}
  MaxMishaps = 1
  MaxCrashes = 0
CHECK_DEADLOCK FALSE
INVARIANTS
  CreatedOnce
  GovernanceInOrder
  CodeAfterDocuments
