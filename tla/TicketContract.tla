--------------------------- MODULE TicketContract ---------------------------
(***************************************************************************)
(* What the ticket engine promises the worker of a ticket, without nodes,  *)
(* incidents, retries, employees' states or transactions: one ticket is    *)
(* queued, claimed by one worker, run by that worker and no other, and     *)
(* ended once.  A command may move several tickets in one step.            *)
(***************************************************************************)
CONSTANTS Tickets, Employees, NoOne

VARIABLES status, owner

contractVars == <<status, owner>>

ContractInit ==
  /\ status = [t \in Tickets |-> "NONE"]
  /\ owner = [t \in Tickets |-> NoOne]

Stays(t) == status'[t] = status[t] /\ owner'[t] = owner[t]

(* Created, or taken back from a worker who has not started it.            *)
Queues(t) ==
  /\ status[t] \in {"NONE", "PENDING", "LEASED"}
  /\ status'[t] = "PENDING" /\ owner'[t] = NoOne

Claims(t) ==
  /\ status[t] \in {"PENDING", "LEASED"}
  /\ status'[t] = "LEASED" /\ owner'[t] \in Employees

Runs(t) ==
  /\ status[t] = "LEASED" /\ owner[t] \in Employees
  /\ status'[t] = "EXECUTING" /\ owner'[t] = owner[t]

AskedToStop(t) ==
  /\ status[t] = "EXECUTING"
  /\ status'[t] = "CANCEL_REQUESTED" /\ owner'[t] = owner[t]

(* Only a running ticket completes or times out; a ticket the scheduler    *)
(* cannot dispatch fails without having run.  A cancellation may come      *)
(* after any other end.                                                    *)
Ends(t) ==
  /\ owner'[t] = NoOne
  /\ \/ status[t] = "EXECUTING" /\ status'[t] \in {"COMPLETED", "TIMED_OUT"}
     \/ /\ status[t] \in {"PENDING", "LEASED", "EXECUTING"}
        /\ status'[t] = "FAILED"
     \/ status[t] # "NONE" /\ status'[t] = "CANCELLED"

Moves(t) ==
  Stays(t) \/ Queues(t) \/ Claims(t) \/ Runs(t) \/ AskedToStop(t) \/ Ends(t)

ContractNext == \A t \in Tickets : Moves(t)

ContractSpec == ContractInit /\ [][ContractNext]_contractVars
=============================================================================
