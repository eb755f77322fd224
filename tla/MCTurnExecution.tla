--------------------------- MODULE MCTurnExecution ---------------------------
(* Instances of TurnExecution: d1 and d2 deliver events of their own, d3     *)
(* delivers the event of d1 a second time.                                   *)
EXTENDS TurnExecution

Events == [d \in Deliveries |-> IF d = "d2" THEN TurnId(2) ELSE TurnId(1)]

=============================================================================
