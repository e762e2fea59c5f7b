------------------------------ MODULE MCMeeting ------------------------------
EXTENDS Meeting, TLC
CONSTANTS n1, anna, carl
\* Anna builds, Carl checks; the node is Anna's.
McRoleOf == [e \in Employees |-> IF e = carl THEN "checker" ELSE "builder"]
McOwnerRole == [n \in Nodes |-> "builder"]
\* The topic the CEO would give the meeting on a failed ticket, with a round too few or all of them.
McRequests ==
  [topic : {<<"blocker", n1>>}, team : {{anna, carl}}, recorder : {anna}, rounds : {3, 4}]
=============================================================================
