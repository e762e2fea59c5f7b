---------------------------- MODULE ReviewContract ----------------------------
(***************************************************************************)
(* What the review of a node's deliverable promises: the stage a node is   *)
(* in, and the steps from stage to stage.  ReviewRouting implements it.    *)
(***************************************************************************)
CONSTANTS Nodes,
          ReviewOf  \* NONE, INTERNAL, DIRECT or BOARD, for each node

VARIABLE stage

Stages == {"none", "making", "checking", "deciding",
           "done", "unjudged", "escalated", "rework", "dropped"}

Start == stage = [n \in Nodes |-> "none"]

Goes(n, from, to) == stage[n] \in from /\ stage' = [stage EXCEPT ![n] = to]

(* Work starts on a node that was never worked on, or whose work failed or *)
(* was sent back.  What is done or dropped is not opened again.            *)
Requested(n) == Goes(n, {"none", "rework"}, "making")

(* A checker looks at what was made; a refusal sends it back or escalates. *)
HandedOver(n) == ReviewOf[n] \in {"INTERNAL", "BOARD"} /\ Goes(n, {"making"}, "checking")
SentBack(n)   == Goes(n, {"checking"}, "making")
Escalated(n)  == Goes(n, {"checking"}, "escalated")

(* An internal check can be closed by a command that carries no verdict.   *)
LetThrough(n) == ReviewOf[n] = "INTERNAL" /\ Goes(n, {"checking"}, "unjudged")

(* The board is asked, after the checker where there is one.               *)
PutToBoard(n) ==
  \/ ReviewOf[n] = "DIRECT" /\ Goes(n, {"making"}, "deciding")
  \/ ReviewOf[n] = "BOARD"  /\ Goes(n, {"checking"}, "deciding")

(* Done is what the last reviewer let pass, and nothing else.              *)
Passed(n) ==
  \/ ReviewOf[n] = "NONE"     /\ Goes(n, {"making"}, "done")
  \/ ReviewOf[n] = "INTERNAL" /\ Goes(n, {"checking"}, "done")

(* The approval of one node may start work on another.                     *)
Approved(n) ==
  \/ Goes(n, {"deciding"}, "done")
  \/ \E m \in Nodes \ {n} :
       /\ stage[n] = "deciding" /\ stage[m] = "none"
       /\ stage' = [k \in Nodes |-> IF k = n THEN "done"
                                 ELSE IF k = m THEN "making" ELSE stage[k]]

GivenUp(n) == Goes(n, {"making", "checking", "deciding"}, "rework")
Dropped(n) == Goes(n, {"making", "checking", "deciding", "rework"}, "dropped")

Step ==
  \E n \in Nodes :
    \/ Requested(n) \/ HandedOver(n) \/ SentBack(n) \/ Escalated(n) \/ LetThrough(n)
    \/ PutToBoard(n) \/ Passed(n) \/ Approved(n) \/ GivenUp(n) \/ Dropped(n)

ContractSpec == Start /\ [][Step]_stage
=============================================================================
