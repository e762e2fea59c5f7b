--------------------------- MODULE MCReviewRouting ---------------------------
(***************************************************************************)
(* Values for the checks of ReviewRouting that a .cfg cannot write.        *)
(***************************************************************************)
EXTENDS ReviewRouting

CONSTANTS build, review, closeout, scope, memo

(* A build, the milestone review after it, and the closeout it opens.      *)
Delivery ==
  [n \in Nodes |-> CASE n = review -> "BOARD" [] n = scope -> "DIRECT"
                     [] n = memo -> "NONE" [] OTHER -> "INTERNAL"]

After == [n \in Nodes |-> CASE n = review -> {build} [] n = closeout -> {review}
                            [] OTHER -> {}]

Opens == [n \in Nodes |-> IF n = review THEN {closeout} \cap Nodes ELSE {}]
=============================================================================
