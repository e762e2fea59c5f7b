\* A workflow whose constraints ask for a technical decision meeting; nothing goes wrong.
SPECIFICATION FairSpec
CONSTANTS
  brief = brief
  backlog = backlog
  i1 = i1
  Chain <- McChain
  Items = {i1}
  DependsOn <- OneItem
  Closeout = closeout
  Gate = gate
  Meeting = meeting
  NoNode = NoNode
  RoleOf <- McRoleOf
  Architect = "architect"
  NoRole = "none"
  InitialStaff = {"planner", "builder", "architect"}
  RequiresArchitect = FALSE
  RequiresMeeting = TRUE
  LiveActions = {}
  Runs = {"request", "scheduler"}
  Maintainer = "scheduler"
  Outcomes = {}
  MaxMishaps = 0
  MaxCrashes = 0
CHECK_DEADLOCK FALSE
PROPERTIES
  Closes
