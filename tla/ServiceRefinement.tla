-------------------------- MODULE ServiceRefinement --------------------------
(***************************************************************************)
(* RescueService implements EconomicAction: the journal's state is what is *)
(* reported, the venue's order is the effect, and every request, query,    *)
(* timeout, crash and restart in between is a stuttering step.             *)
(***************************************************************************)
EXTENDS RescueService

VenueEffect == [o \in Op |-> IF venue[o] = NoOrder THEN "none"
                             ELSE IF StatusToState[venue[o].status] \in Terminal
                             THEN "closed" ELSE "open"]

\* An order with the status REJECTED ended like any other; only a refusal
\* without an order says that there is none.
VerdictOf(row) == CASE SettledByRefusal(row) -> "refused"
                    [] row.state = "NOT_FOUND_SAFE" -> "absent"
                    [] row.state \in HeardVerdict /\ ~SettledByRefusal(row)
                          -> "executed"
                    [] OTHER -> "open"

Action == INSTANCE EconomicAction WITH
    approved <- confirmed,
    sent <- posts,
    effect <- VenueEffect,
    executed <- [o \in Op |-> venue[o].executed],
    known <- [o \in Op |-> ops[o].executed],
    verdict <- [o \in Op |-> VerdictOf(ops[o])]

\* One server over an honest venue keeps every promise of EconomicAction: an
\* operation is one economic action, sent once and reported as it happened.
ImplementsEconomicAction == Action!Spec
=============================================================================
