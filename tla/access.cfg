\* One worker bound to two scopes, a request at a time, and the commands of operators between its steps.
SPECIFICATION Spec
CONSTANTS
  p1 = p1
  p2 = p2
  Workers = {w1}
  Scopes = {p1, p2}
  Tickets = {t1}
  ScopeOf <- McScopeOf
  NoOne = NoOne
  NoBinding = NoBinding
  Calls = {1}
  NoCall = NoCall
  MaxIssues = 2
  MaxSessions = 1
  MaxGrants = 2
CHECK_DEADLOCK FALSE
INVARIANTS
  EndedStaysEnded
  ListedIssueOpens
