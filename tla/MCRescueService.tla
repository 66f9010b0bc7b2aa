--------------------------- MODULE MCRescueService ---------------------------
(***************************************************************************)
(* RescueService and its refinement for TLC: the values that the           *)
(* configurations give to the constants.                                   *)
(***************************************************************************)
EXTENDS ServiceRefinement, TLC

CONSTANTS v1, v2, o2

MCQuantity == 0 .. FullQuantity

\* Every operation's order has its own id.
MCOwnIds == [o \in Op |-> IF o = o2 THEN v2 ELSE v1]

\* What a confused venue may report: an order with another id, or an open,
\* unfilled order whatever has happened to it since.
MCFalseReports ==
    {[venueOrderId |-> v2, status |-> "NEW", executed |-> 0],
     [venueOrderId |-> v1, status |-> "NEW", executed |-> 0]}

MCSymmetry == Permutations(Requests) \cup Permutations(Proc)
=============================================================================
