\* One source node, a builder and a checker; the CEO and an operator ask for up to two meetings.
SPECIFICATION Spec
CONSTANTS
  n1 = n1
  anna = anna
  carl = carl
  Nodes = {n1}
  Employees = {anna, carl}
  RoleOf <- McRoleOf
  OwnerRole <- McOwnerRole
  Checker = "checker"
  Builder = "builder"
  Leavers = {carl}
  OperatorAsksFor <- McRequests
  FullRounds = 4
  RetryBudget = 1
  NoPlan = NoPlan
  NoKey = NoKey
  MaxMeetings = 2
  MaxTickets = 4
  MaxTurns = 2
CHECK_DEADLOCK FALSE
INVARIANTS
  OneOpenPerTopic
  OneMeetingPerSource
  BoardReadsTheMeeting
