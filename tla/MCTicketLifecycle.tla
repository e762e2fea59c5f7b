-------------------------- MODULE MCTicketLifecycle --------------------------
(***************************************************************************)
(* Values for the checks of TicketLifecycle that a .cfg cannot write.     *)
(***************************************************************************)
EXTENDS TicketLifecycle, TLC

CONSTANTS e1, e2, n1, n2, p1

SameProvider == [e \in Employees |-> p1]
=============================================================================
