---------------------------- MODULE EconomicAction ----------------------------
(***************************************************************************)
(* What the whole system promises of an economic decision, with no         *)
(* journal, request, query or process in sight: it is sent at most once    *)
(* and only when approved; what is reported of it lags behind the venue    *)
(* and never runs ahead; and a verdict, once given, is the venue's own.    *)
(*                                                                         *)
(* "absent" is the one verdict that rests on elapsed time rather than on   *)
(* what the venue has done; when it can be believed is AbsenceWindow's     *)
(* subject.                                                                *)
(***************************************************************************)
EXTENDS Naturals

CONSTANTS
    Op,            \* the economic decisions
    FullQuantity   \* the quantity of an order

VARIABLES
    approved,  \* decisions a human has confirmed
    sent,      \* how often each was sent to the venue
    effect,    \* the order at the venue: none, open, closed
    executed,  \* the quantity it has executed
    known,     \* the quantity reported
    verdict    \* what is reported: open, executed, refused, absent

vars == <<approved, sent, effect, executed, known, verdict>>

Init ==
    /\ approved = {}
    /\ sent = [o \in Op |-> 0]
    /\ effect = [o \in Op |-> "none"]
    /\ executed = [o \in Op |-> 0]
    /\ known = [o \in Op |-> 0]
    /\ verdict = [o \in Op |-> "open"]

Approve(o) ==
    /\ o \notin approved /\ sent[o] = 0
    /\ approved' = approved \cup {o}
    /\ UNCHANGED <<sent, effect, executed, known, verdict>>

\* A decision is not sent once a verdict on it is out.
Send(o) ==
    /\ o \in approved /\ sent[o] = 0 /\ verdict[o] = "open"
    /\ sent' = [sent EXCEPT ![o] = 1]
    /\ UNCHANGED <<approved, effect, executed, known, verdict>>

\* The order appears at the venue, unless the venue has refused it.
Effect(o) ==
    /\ sent[o] = 1 /\ effect[o] = "none" /\ verdict[o] # "refused"
    /\ \E e \in {"open", "closed"}, q \in 0 .. FullQuantity :
         /\ effect' = [effect EXCEPT ![o] = e]
         /\ executed' = [executed EXCEPT ![o] = q]
    /\ UNCHANGED <<approved, sent, known, verdict>>

Progress(o) ==
    /\ effect[o] = "open"
    /\ \E e \in {"open", "closed"}, q \in executed[o] .. FullQuantity :
         /\ effect' = [effect EXCEPT ![o] = e]
         /\ executed' = [executed EXCEPT ![o] = q]
    /\ UNCHANGED <<approved, sent, known, verdict>>

\* A fill is reported, perhaps not the latest.
Learn(o) ==
    /\ verdict[o] = "open"
    /\ \E q \in known[o] .. executed[o] : known' = [known EXCEPT ![o] = q]
    /\ UNCHANGED <<approved, sent, effect, executed, verdict>>

Settle(o) ==
    /\ verdict[o] = "open" /\ effect[o] = "closed"
    /\ known' = [known EXCEPT ![o] = executed[o]]
    /\ verdict' = [verdict EXCEPT ![o] = "executed"]
    /\ UNCHANGED <<approved, sent, effect, executed>>

\* From now on the order can no longer appear.
Refuse(o) ==
    /\ verdict[o] = "open" /\ sent[o] = 1 /\ effect[o] = "none"
    /\ verdict' = [verdict EXCEPT ![o] = "refused"]
    /\ UNCHANGED <<approved, sent, effect, executed, known>>

\* Nothing of the order has ever been seen; it may never have been sent, and
\* then it never will be.
Absent(o) ==
    /\ verdict[o] = "open" /\ o \in approved /\ known[o] = 0
    /\ verdict' = [verdict EXCEPT ![o] = "absent"]
    /\ UNCHANGED <<approved, sent, effect, executed, known>>

Next == \E o \in Op :
          \/ Approve(o) \/ Send(o)
          \/ Effect(o) \/ Progress(o)
          \/ Learn(o) \/ Settle(o) \/ Refuse(o) \/ Absent(o)

Spec == Init /\ [][Next]_vars
=============================================================================
