------------------------ MODULE MCWorkflowController ------------------------
(***************************************************************************)
(* Values for the checks of WorkflowController that a .cfg cannot write.   *)
(***************************************************************************)
EXTENDS WorkflowController, TLC

CONSTANTS brief, backlog, i1

McChain == <<brief, backlog>>
OneItem == i1 :> {}

(* A planner writes the documents, a builder the code and the closeout.    *)
McRoleOf ==
  [n \in Nodes |->
     CASE n \in Docs \cup {Closeout} -> "planner"
       [] n \in {Gate, Meeting}      -> "architect"
       [] OTHER                      -> "builder"]

(* A model that runs ahead: the backlog, any item, and retries.            *)
Eager == CreateOf({backlog} \cup Items) \cup {Act("retry", backlog)}
=============================================================================
