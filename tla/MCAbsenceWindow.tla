--------------------------- MODULE MCAbsenceWindow ---------------------------
(* AbsenceWindow for TLC: an accepted order fills at once, or is reported  *)
(* as an order with the status REJECTED.                                   *)
EXTENDS AbsenceWindow, TLC

CONSTANT v1

MCOrders == {[venueOrderId |-> v1, status |-> "FILLED", executed |-> 1],
             [venueOrderId |-> v1, status |-> "REJECTED", executed |-> 0]}

MCSymmetry == Permutations(Query)
=============================================================================
