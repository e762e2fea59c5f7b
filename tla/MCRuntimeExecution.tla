------------------------- MODULE MCRuntimeExecution -------------------------
(***************************************************************************)
(* Values for the checks of RuntimeExecution that a .cfg cannot write.     *)
(***************************************************************************)
EXTENDS RuntimeExecution, TLC

CONSTANTS a, b, t1, w1, w2

(* a is bound first, and third with another model, and falls back to b,    *)
(* which is second in the binding; b answers only as a command.            *)
McModelOf == [p \in Providers |-> "m"]
McLegacy  == [target \in {"build", CeoTarget} |->
                IF target = "build" THEN <<"role">> ELSE <<>>]

Entry(enabled, fallbacks) ==
  [enabled |-> enabled, configured |-> TRUE, command |-> FALSE,
   floor |-> {"build"}, fallbacks |-> fallbacks]
Command(fallbacks) == [Entry(TRUE, fallbacks) EXCEPT !.command = TRUE]

Chained ==
  [entry   |-> (a :> Entry(TRUE, <<b>>)) @@ (b :> Command(<<a>>)),
   models  |-> {<<a, "m">>, <<a, "other">>, <<b, "m">>},
   binding |-> "role" :> <<<<a, "m">>, <<b, "m">>, <<a, "other">>>>,
   default |-> NoProvider]

Swapped ==   \* a is gone from the binding and b is asked first
  [entry   |-> (a :> Entry(TRUE, <<>>)) @@ (b :> Command(<<a>>)),
   models  |-> {<<b, "m">>},
   binding |-> ("role" :> <<<<b, "m">>>>) @@ (CeoTarget :> <<>>),
   default |-> a]

Unbound ==   \* nothing is bound: the employee's provider, then the default
  [Swapped EXCEPT !.binding = CeoTarget :> <<>>, !.default = b]

McConfigs    == {Chained, Swapped, Unbound}
McTargetOf   == [t \in Tickets |-> "build"]
McPreference == [t \in Tickets |-> NoProvider]
McEmployee   == [w \in Workers |-> IF w = w1 THEN a ELSE b]

=============================================================================
