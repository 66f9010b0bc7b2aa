--------------------------- MODULE RefinementProofs ---------------------------
(***************************************************************************)
(* One server over an honest venue implements EconomicAction, for any      *)
(* number of operations, requests and crashes, with faults, unreadable     *)
(* replies and operators: every step of RescueService maps to one step of  *)
(* EconomicAction or to none.                                              *)
(*                                                                         *)
(* The invariants that make the steps map are the ones of ServiceProofs (an*)
(* answer in flight is worth what it says) and of ServerProofs (the row of *)
(* an operation in flight is the call's own), and ConfirmedInv below.      *)
(***************************************************************************)
EXTENDS ServiceRefinement, ServerProofs

\* Only a confirmed operation leaves the state in which it waits for it.
ConfirmedInv ==
    \A o \in Op : ops[o].state # "AWAITING_CONFIRMATION" => o \in confirmed

-----------------------------------------------------------------------------
(* Who moves a row that waits for its confirmation. *)

\* Neither does the start of a submission, nor that of a query.
LEMMA BeginsLater ==
    ASSUME NEW v \in Row, NEW c \in Command, NEW w \in Decide(v, c),
           c.type \in {"BEGIN_SUBMISSION", "BEGIN_RECONCILIATION"}
    PROVE  v.state # "AWAITING_CONFIRMATION"
<1>1. CASE c.type = "BEGIN_SUBMISSION"
  BY <1>1, DecideFlow
<1>2. CASE c.type = "BEGIN_RECONCILIATION"
  <2>1. w \in BeginReconciliation(v)
    BY <1>2 DEF Decide, DecideSettled, DecideOpen
  <2> QED
    BY <2>1 DEF BeginReconciliation, Move, Accept
<1> QED
  BY <1>1, <1>2

\* A command of the service starts a submission or a query, or is sent by the
\* call that has the operation in flight.
CommandSent ==
    \/ ops' = ops
    \/ \E o \in Op, c \in Command :
         /\ ApplyCommand(o, c)
         /\ \/ c.type \in {"BEGIN_SUBMISSION", "BEGIN_RECONCILIATION"}
            \/ \E p \in Proc, s \in Slot : call[p][s].op = o
                                           /\ call[p][s].pc \in Busy

\* So do the steps of a request,
LEMMA RequestSends ==
    ASSUME TypedInv, NEW p \in Proc, NEW r \in Requests, RequestNext(p, r)
    PROVE  CommandSent
<1> USE ServiceFacts DEF TypedInv
<1>0. r \in Slot /\ call[p][r] \in Call
      /\ (call[p][r].pc # "idle" => call[p][r].op \in Op)
  BY CallsAtWork
<1>1. ASSUME NEW o \in Op, ExecuteIntent(p, r, o) \/ ReconcileByHand(p, r, o)
      PROVE  CommandSent
  BY <1>1, ServiceCommands DEF ExecuteIntent, ReconcileByHand, BeginCommand,
     CommandSent
<1>2. CASE RecordAck(p, r)
  <2>1. /\ call[p][r].pc = "placing" /\ call[p][r].answer.kind = "OBSERVED"
        /\ ApplyCommand(call[p][r].op, AckCommand(call[p][r]))
    BY <1>2 DEF RecordAck, Hears, At, Learn
  <2> QED
    BY <1>0, <2>1, ServiceCommands DEF CommandSent, Busy
<1>3. CASE RecordReject(p, r)
  <2>1. /\ call[p][r].pc = "placing"
        /\ ApplyCommand(call[p][r].op, [type |-> "RECORD_REJECTION"])
    BY <1>3 DEF RecordReject, Hears, At, Learn
  <2> QED
    BY <1>0, <2>1, ServiceCommands DEF CommandSent, Busy
<1>4. CASE RecordLost(p, r) \/ FaultDropsAnswer(p, r)
  <2>1. /\ call[p][r].pc = "placing"
        /\ ApplyCommand(call[p][r].op, AmbiguousCommand)
    BY <1>4 DEF RecordLost, FaultDropsAnswer, Hears, At, Learn
  <2> QED
    BY <1>0, <2>1, ServiceCommands DEF CommandSent, Busy
<1>5. CASE PlaceOrder(p, r) \/ QueueLost(p, r) \/ PlacementRefused(p, r)
  BY <1>5 DEF PlaceOrder, QueueLost, PlacementRefused, EnqueueReconciliation,
     CommandSent
<1> QED
  BY <1>1, <1>2, <1>3, <1>4, <1>5 DEF RequestNext

\* those of a pass,
LEMMA PassSends ==
    ASSUME TypedInv, NEW p \in Proc, NEW s \in Slot, PassNext(p, s)
    PROVE  CommandSent
<1> USE DEF TypedInv
<1>0. call[p][s] \in Call /\ call[p][s] \in OwnedCall
      /\ (call[p][s].pc # "idle" => call[p][s].op \in Op)
  BY CallsAtWork
<1>1. ASSUME NEW c \in Command, call[p][s].pc = "querying", Conclude(p, s, c)
      PROVE  CommandSent
  BY <1>0, <1>1 DEF Conclude, CommandSent, Busy
<1>2. CASE RecordObserved(p, s)
  BY <1>0, <1>1, <1>2, ServiceCommands DEF RecordObserved, At
<1>3. CASE RecordAbsent(p, s)
  BY <1>0, <1>1, <1>3, ServiceCommands DEF RecordAbsent, At
<1>4. CASE RecordUnavailable(p, s)
  BY <1>1, <1>4, ServiceCommands DEF RecordUnavailable, At
<1>5. CASE \/ VenueAnswers(p, s) \/ VenueMisreports(p, s)
           \/ PassRefused(p, s) \/ ReleaseJob(p, s) \/ ReplyUnreadable(p, s)
  BY <1>5 DEF VenueAnswers, VenueMisreports, Answer, PassRefused, ReleaseJob,
     ReleaseReconciliation, ReplyUnreadable, CommandSent
<1> QED
  BY <1>2, <1>3, <1>4, <1>5 DEF PassNext

\* and those of the worker.
LEMMA WorkerSends ==
    ASSUME TypedInv, NEW p \in Proc, WorkerNext(p)
    PROVE  CommandSent
<1>0. call[p][Worker].pc # "idle" => call[p][Worker].op \in Op
  BY CallsAtWork, ServiceFacts DEF TypedInv
<1>1. CASE WorkerBegins(p)
  BY <1>0, <1>1, ServiceCommands DEF WorkerBegins, At, BeginCommand,
     CommandSent
<1>2. CASE \/ \E o \in Op : WorkerClaims(p, o)
           \/ WorkerRefused(p) \/ GiveBack(p)
  BY <1>2 DEF WorkerClaims, ClaimDueReconciliation, WorkerRefused, GiveBack,
     ReleaseReconciliation, CommandSent
<1> QED
  BY <1>1, <1>2 DEF WorkerNext

\* No command sent by the service moves a row that waits for confirmation.
LEMMA SentLater ==
    ASSUME TypedInv, AttendInv, CommandSent, NEW o \in Op,
           ops[o].state = "AWAITING_CONFIRMATION"
    PROVE  ops'[o] = ops[o]
<1> SUFFICES ASSUME NEW q \in Op, NEW c \in Command, ApplyCommand(q, c),
                    \/ c.type \in {"BEGIN_SUBMISSION", "BEGIN_RECONCILIATION"}
                    \/ \E p \in Proc, s \in Slot : call[p][s].op = q
                                                   /\ call[p][s].pc \in Busy
             PROVE  ops'[o] = ops[o]
  BY DEF CommandSent
<1>1. ops[q] \in Row /\ ops'[q] \in Decide(ops[q], c)
      /\ \A a \in Op \ {q} : ops'[a] = ops[a]
  BY CommandMoves
<1>2. ops[q].state # "AWAITING_CONFIRMATION"
  <2>1. CASE c.type \in {"BEGIN_SUBMISSION", "BEGIN_RECONCILIATION"}
    BY <1>1, <2>1, BeginsLater
  <2>2. CASE \E p \in Proc, s \in Slot : call[p][s].op = q
                                         /\ call[p][s].pc \in Busy
    BY <2>2, Alone DEF Sending, Querying, Busy, InFlight
  <2> QED
    BY <2>1, <2>2
<1> QED
  BY <1>1, <1>2

\* Only Confirm moves a row that waits for confirmation.
LEMMA FirstMove ==
    ASSUME ServiceInv, StartupInv, AttendInv, [Next]_vars, NEW o \in Op,
           ops[o].state = "AWAITING_CONFIRMATION", ops'[o] # ops[o]
    PROVE  o \in confirmed'
<1>0. TypedInv
  BY DEF ServiceInv, TypedInv
<1>1. ASSUME NEW p \in Proc, NEW q \in Op, Confirm(p, q)
      PROVE  o \in confirmed'
  <2>1. \A a \in Op \ {q} : ops'[a] = ops[a]
    BY <1>0, <1>1, CommandMoves, ServiceCommands DEF Confirm
  <2> QED
    BY <1>1, <2>1 DEF Confirm
<1>2. ASSUME NEW p \in Proc, NEW q \in Op, Resume(p, q)
      PROVE  FALSE
  <2>1. PICK a \in Op : /\ resuming[p][a] = "demote"
                        /\ ops' = [ops EXCEPT ![a] = Demoted(@)]
    BY <1>2 DEF Resume, ResumeDemote, ResumeEnqueue
  <2>2. a = o
    BY <1>0, <2>1 DEF TypedInv, JournalTypeOK
  <2>3. status[p] = "resuming"
    BY <1>2 DEF Resume
  <2> QED
    BY <2>1, <2>2, <2>3 DEF StartupInv, InFlight
<1>3. ASSUME NEW p \in Proc,
             \/ \E b \in BOOLEAN : SetFault(p, b)
             \/ Start(p) \/ StartServing(p) \/ Crash(p)
      PROVE  FALSE
  BY <1>3 DEF SetFault, Start, StartServing, Crash, ResumeScan
<1>4. CASE UNCHANGED vars
  BY <1>4 DEF vars
<1>5. ASSUME CommandSent PROVE FALSE
  BY <1>0, <1>5, SentLater
<1>6. ASSUME NEW q \in Op,
             VenueNext(q) \/ IntentExpires(q) \/ WindowElapses(q)
      PROVE  FALSE
  BY <1>6, OutsideSteps
<1> QED
  BY <1>0, <1>1, <1>2, <1>3, <1>4, <1>5, <1>6, RequestSends, PassSends,
     WorkerSends DEF Next, ProcessNext

-----------------------------------------------------------------------------
(* The invariant of what is confirmed.                                     *)

\* Nothing has left its first state at the start.
LEMMA InitialConfirmed == Init => ConfirmedInv
BY DEF Init, JournalInit, NewRow, ConfirmedInv

\* No step takes a confirmation back.
LEMMA ConfirmedGrows ==
    ASSUME TypedInv, [Next]_vars
    PROVE  confirmed \subseteq confirmed'
BY ServiceStep, ExecuteStep, PlaceStep DEF Quiet

\* So an operation past its first state stays confirmed.
LEMMA ConfirmedStep ==
    ServiceInv /\ StartupInv /\ AttendInv /\ ConfirmedInv /\ [Next]_vars
        => ConfirmedInv'
<1> SUFFICES ASSUME ServiceInv, StartupInv, AttendInv, ConfirmedInv,
                    [Next]_vars, NEW o \in Op,
                    ops'[o].state # "AWAITING_CONFIRMATION"
             PROVE  o \in confirmed'
  BY DEF ConfirmedInv
<1>1. CASE ops[o].state = "AWAITING_CONFIRMATION"
  BY <1>1, FirstMove
<1>2. CASE ops[o].state # "AWAITING_CONFIRMATION"
  BY <1>2, ConfirmedGrows DEF ConfirmedInv, ServiceInv
<1> QED
  BY <1>1, <1>2

-----------------------------------------------------------------------------
(* Rows as verdicts.                                                       *)

\* What a state says of the outcome.
LEMMA Verdicts ==
    ASSUME NEW v
    PROVE  /\ VerdictOf(v) = "open" <=> v.state \notin Terminal
           /\ VerdictOf(v) = "executed" <=>
                 v.state \in HeardVerdict /\ ~SettledByRefusal(v)
           /\ VerdictOf(v) = "refused" <=> SettledByRefusal(v)
           /\ VerdictOf(v) = "absent" <=> v.state = "NOT_FOUND_SAFE"
           /\ VerdictOf(v) \in {"open", "executed", "refused", "absent"}
BY DEF VerdictOf, Terminal, SettledByRefusal, HeardVerdict

\* What the mapping makes of the order the venue holds.
LEMMA Effects ==
    ASSUME NEW o \in Op, WorldAt(o)
    PROVE  /\ VenueEffect[o] = "none" <=> venue[o] = NoOrder
           /\ VenueEffect[o] = "closed" <=> venue[o].status \in ClosedStatus
           /\ VenueEffect[o] = "open" <=> venue[o].status \in OpenStatus
           /\ VenueEffect[o] \in {"none", "open", "closed"}
<1>1. /\ \A s \in OpenStatus : StatusToState[s] \notin Terminal
      /\ \A s \in ClosedStatus : StatusToState[s] \in Terminal
  BY StatusMeaning DEF Terminal, HeardVerdict
<1>2. VenueEffect[o] = IF venue[o] = NoOrder THEN "none"
                       ELSE IF StatusToState[venue[o].status] \in Terminal
                       THEN "closed" ELSE "open"
  BY DEF VenueEffect
<1>3. /\ venue[o] = NoOrder \/ venue[o].status \in OpenStatus \cup ClosedStatus
      /\ venue[o] = NoOrder => venue[o].status = "NONE"
  BY DEF WorldAt, NoOrder
<1>4. "NONE" \notin OpenStatus \cup ClosedStatus
      /\ OpenStatus \cap ClosedStatus = {}
  BY DEF OpenStatus, ClosedStatus
<1> QED
  BY <1>1, <1>2, <1>3, <1>4

\* The row of o tells as much as before.
SaysTheSame(o) ==
    /\ ops'[o].executed = ops[o].executed
    /\ VerdictOf(ops'[o]) = VerdictOf(ops[o])

\* The row of o, open so far, tells more, or gives its verdict.
SaysMore(o) ==
    /\ VerdictOf(ops[o]) = "open"
    /\ LET v == VerdictOf(ops'[o])
           q == ops'[o].executed
       IN  \/ v = "open" /\ q \in ops[o].executed .. venue[o].executed
           \/ /\ v = "executed" /\ q = venue[o].executed
              /\ venue[o].status \in ClosedStatus
           \/ v = "refused" /\ q = ops[o].executed
              /\ venue[o] = NoOrder /\ posts[o] = 1
           \/ v = "absent" /\ q = ops[o].executed /\ q = 0
              /\ o \in confirmed

\* A settled row moves no more.
Final == \A o \in Op : ops[o].state \in Terminal => ops'[o] = ops[o]

\* While the venue and the confirmations stand still, one row may speak.
LEMMA RowMoves ==
    ASSUME ServiceInv, ServiceInv', VenueInv', ConfirmedInv', OpsStep, Final,
           UNCHANGED <<venue, posts, confirmed>>
    PROVE  \/ \A o \in Op : SaysTheSame(o)
           \/ \E o \in Op : SaysMore(o) /\ \A q \in Op \ {o} : SaysTheSame(q)
<1>1. CASE UNCHANGED ops
  BY <1>1 DEF SaysTheSame
<1>2. ASSUME NEW o \in Op, NEW w \in Row, RowStep(ops[o], w),
             ops' = [ops EXCEPT ![o] = w]
      PROVE  \/ \A q \in Op : SaysTheSame(q)
             \/ SaysMore(o) /\ \A q \in Op \ {o} : SaysTheSame(q)
  <2>1. ops'[o] = w /\ \A q \in Op \ {o} : SaysTheSame(q)
    BY <1>2 DEF ServiceInv, TypedInv, JournalTypeOK, SaysTheSame
  <2>2. CASE ops[o].state \in Terminal
    BY <2>1, <2>2 DEF Final, SaysTheSame
  <2>3. CASE ops[o].state \notin Terminal
    <3>1. /\ ops[o].executed \in Nat /\ w.executed \in Nat
          /\ venue[o].executed \in Nat /\ ops[o].executed <= w.executed
      BY <1>2, NaturalColumns, VenueNumbers
      DEF ServiceInv, TypedInv, JournalTypeOK, RowStep
    <3>2. RowInv(w) /\ (RowTrue(o) /\ WorldAt(o))'
          /\ (w.state # "AWAITING_CONFIRMATION" => o \in confirmed)
      BY <1>2, <2>1 DEF VenueInv, ConfirmedInv, RowStep
    <3>3. /\ w.executed <= venue[o].executed
          /\ SettledByOrder(w) => venue[o].status \in ClosedStatus
                                  /\ w.executed = venue[o].executed
          /\ SettledByRefusal(w) => venue[o] = NoOrder /\ posts[o] = 1
          /\ w.state \in HeardVerdict =>
                SettledByOrder(w) \/ SettledByRefusal(w)
      BY <2>1, <3>2 DEF RowTrue, Refused
    <3>4. venue[o] = NoOrder => venue[o].executed = 0
      BY DEF NoOrder
    <3>5. CASE w.state \notin Terminal
      BY <2>1, <2>3, <3>1, <3>3, <3>5, Verdicts DEF SaysMore
    <3>6. CASE SettledByOrder(w)
      BY <2>1, <2>3, <3>3, <3>6, Verdicts
      DEF SaysMore, SettledByOrder, SettledByRefusal
    <3>7. CASE SettledByRefusal(w)
      BY <2>1, <2>3, <3>1, <3>3, <3>4, <3>7, Verdicts DEF SaysMore
    <3>8. CASE w.state = "NOT_FOUND_SAFE"
      BY <2>1, <2>3, <3>1, <3>2, <3>8, Verdicts DEF SaysMore, RowInv
    <3> QED
      BY <2>1, <3>3, <3>5, <3>6, <3>7, <3>8 DEF Terminal, HeardVerdict
  <2> QED
    BY <2>2, <2>3
<1> QED
  BY <1>1, <1>2 DEF OpsStep

-----------------------------------------------------------------------------
(* The steps of EconomicAction.                                            *)

\* The venue stands still and no row says anything new: no step.
LEMMA NothingHappens ==
    ASSUME UNCHANGED <<venue, posts, confirmed>>,
           \A o \in Op : SaysTheSame(o)
    PROVE  UNCHANGED Action!vars
<1>1. VenueEffect' = VenueEffect
  BY DEF VenueEffect
<1>2. [o \in Op |-> venue[o].executed]' = [o \in Op |-> venue[o].executed]
  OBVIOUS
<1>3. [o \in Op |-> ops[o].executed]' = [o \in Op |-> ops[o].executed]
  BY DEF SaysTheSame
<1>4. [o \in Op |-> VerdictOf(ops[o])]'
         = [o \in Op |-> VerdictOf(ops[o])]
  BY DEF SaysTheSame
<1> QED
  BY <1>1, <1>2, <1>3, <1>4 DEF Action!vars

\* One row says more: a fill is learnt, or a verdict is given.
LEMMA RowSpeaks ==
    ASSUME UNCHANGED <<venue, posts, confirmed>>, NEW o \in Op, WorldAt(o),
           SaysMore(o), \A q \in Op \ {o} : SaysTheSame(q)
    PROVE  Action!Next
<1> DEFINE K == [q \in Op |-> ops[q].executed]
           V == [q \in Op |-> VerdictOf(ops[q])]
           E == [q \in Op |-> venue[q].executed]
<1>1. /\ VenueEffect' = VenueEffect /\ E' = E
      /\ posts' = posts /\ confirmed' = confirmed
  BY DEF VenueEffect
<1>2. K' = [K EXCEPT ![o] = ops'[o].executed]
  BY DEF SaysTheSame
<1>3. V' = [V EXCEPT ![o] = VerdictOf(ops'[o])]
  BY DEF SaysTheSame
<1>4. V[o] = "open" /\ K[o] = ops[o].executed /\ E[o] = venue[o].executed
  BY DEF SaysMore
<1>5. CASE VerdictOf(ops'[o]) = "open"
  <2>1. V' = V
    BY <1>3, <1>4, <1>5
  <2>2. ops'[o].executed \in K[o] .. E[o]
    BY <1>4, <1>5 DEF SaysMore
  <2>3. Action!Learn(o)
    BY <1>1, <1>2, <1>4, <2>1, <2>2 DEF Action!Learn
  <2> QED
    BY <2>3 DEF Action!Next
<1>6. CASE VerdictOf(ops'[o]) = "executed"
  <2>1. VenueEffect[o] = "closed" /\ ops'[o].executed = E[o]
    BY <1>4, <1>6, Effects DEF SaysMore
  <2>2. Action!Settle(o)
    BY <1>1, <1>2, <1>3, <1>4, <1>6, <2>1 DEF Action!Settle
  <2> QED
    BY <2>2 DEF Action!Next
<1>7. CASE VerdictOf(ops'[o]) = "refused"
  <2>1. VenueEffect[o] = "none" /\ posts[o] = 1 /\ K' = K
    BY <1>2, <1>4, <1>7, Effects DEF SaysMore
  <2>2. Action!Refuse(o)
    BY <1>1, <1>3, <1>4, <1>7, <2>1 DEF Action!Refuse
  <2> QED
    BY <2>2 DEF Action!Next
<1>8. CASE VerdictOf(ops'[o]) = "absent"
  <2>1. o \in confirmed /\ K[o] = 0 /\ K' = K
    BY <1>2, <1>4, <1>8 DEF SaysMore
  <2>2. Action!Absent(o)
    BY <1>1, <1>3, <1>4, <1>8, <2>1 DEF Action!Absent
  <2> QED
    BY <2>2 DEF Action!Next
<1> QED
  BY <1>5, <1>6, <1>7, <1>8 DEF SaysMore

\* A confirmation approves, unless it is not the first.
LEMMA ConfirmApproves ==
    ASSUME TypedInv, ServiceInv, DispatchInv, NEW p \in Proc, NEW o \in Op,
           Confirm(p, o), o \notin confirmed
    PROVE  Action!Next
<1> DEFINE K == [q \in Op |-> ops[q].executed]
           V == [q \in Op |-> VerdictOf(ops[q])]
           E == [q \in Op |-> venue[q].executed]
           c == [type |-> "CONFIRM_INTENT"]
<1>1. /\ ops[o] \in Row /\ ops'[o] \in Decide(ops[o], c)
      /\ \A q \in Op \ {o} : ops'[q] = ops[q]
  BY CommandMoves, ServiceCommands DEF Confirm
<1>2. ops'[o] = [ops[o] EXCEPT !.state = "APPROVED"]
      /\ ops[o].state = "AWAITING_CONFIRMATION"
  BY <1>1 DEF Decide, DecideSettled, DecideOpen, ConfirmIntent, Move, Accept
<1>3. ops'[o].executed = ops[o].executed /\ ops'[o].state = "APPROVED"
  BY <1>1, <1>2 DEF Row
<1>4. K' = K
  BY <1>1, <1>3
<1>5. V' = V
  <2>1. VerdictOf(ops'[o]) = VerdictOf(ops[o])
    BY <1>2, <1>3, Verdicts DEF Terminal
  <2> QED
    BY <1>1, <2>1
<1>6. /\ venue' = venue /\ posts' = posts
      /\ confirmed' = confirmed \cup {o}
  BY DEF Confirm, venueVars, historyVars
<1>7. VenueEffect' = VenueEffect /\ E' = E
  BY <1>6 DEF VenueEffect
<1>8. posts[o] = 0
  <2>1. ops[o].submits = 0
    BY <1>2 DEF ServiceInv, JournalInv, RowInv
  <2>2. posts[o] \in Nat /\ posts[o] <= 1 /\ posts[o] # 1
    BY <2>1 DEF TypedInv, RestOK, DispatchInv, DispatchAt
  <2> QED
    BY <2>2
<1>9. Action!Approve(o)
  BY <1>4, <1>5, <1>6, <1>7, <1>8 DEF Action!Approve
<1> QED
  BY <1>9 DEF Action!Next

\* The POST that leaves is the one sending.
LEMMA PostSends ==
    ASSUME TypedInv, DispatchInv, AttendInv, NEW p \in Proc,
           NEW r \in Requests, PlaceOrder(p, r)
    PROVE  Action!Next
<1> DEFINE K == [q \in Op |-> ops[q].executed]
           V == [q \in Op |-> VerdictOf(ops[q])]
           E == [q \in Op |-> venue[q].executed]
<1>1. PICK o \in Op : o = call[p][r].op
  BY PlaceStep
<1>2. /\ posts' = [posts EXCEPT ![o] = @ + 1] /\ confirmed' = confirmed
      /\ ops' = ops /\ venue' = venue
      /\ call[p][r].pc = "dispatch"
  BY <1>1, PlaceStep DEF journalVars, PlaceOrder
<1>3. posts[o] = 0 /\ o \in confirmed
  BY <1>1, <1>2, ServiceFacts DEF DispatchInv, DispatchAt, AboutToSend
<1>4. ops[o].state = "SUBMITTING"
  BY <1>1, <1>2, ServiceFacts DEF AttendInv, AttendedAt, Sending
<1>5. posts' = [posts EXCEPT ![o] = 1]
  BY <1>2, <1>3 DEF TypedInv, RestOK
<1>6. V[o] = "open"
  BY <1>4, Verdicts DEF Terminal
<1>7. /\ K' = K /\ V' = V /\ E' = E /\ VenueEffect' = VenueEffect
      /\ confirmed' = confirmed
  BY <1>2 DEF VenueEffect
<1>8. Action!Send(o)
  BY <1>3, <1>5, <1>6, <1>7 DEF Action!Send
<1> QED
  BY <1>8 DEF Action!Next

\* An order accepted is the effect, and what befalls it is its progress.
LEMMA VenueActs ==
    ASSUME TypedInv, TypedInv', VenueInv, VenueInv', NEW o \in Op,
           VenueAccepts(o) \/ VenueMoves(o)
    PROVE  Action!Next
<1> DEFINE K == [q \in Op |-> ops[q].executed]
           V == [q \in Op |-> VerdictOf(ops[q])]
           E == [q \in Op |-> venue[q].executed]
           v == venue'[o]
<1>1. \A q \in Op \ {o} : venue'[q] = venue[q]
  BY DEF VenueAccepts, VenueMoves, TypedInv, RestOK
<1>2. ops' = ops /\ posts' = posts /\ confirmed' = confirmed
  BY DEF VenueAccepts, VenueMoves, OnTheWireOnly, intentVars, historyVars
<1>3. E' = [E EXCEPT ![o] = v.executed]
  BY <1>1
<1>4. VenueEffect' = [VenueEffect EXCEPT ![o] = VenueEffect'[o]]
  BY <1>1 DEF VenueEffect
<1>5. K' = K /\ V' = V /\ posts' = posts /\ confirmed' = confirmed
  BY <1>2
<1>6. WorldAt(o) /\ WorldAt(o)' /\ RowTrue(o) /\ E[o] = venue[o].executed
  BY DEF VenueInv
<1>7. ASSUME venue'[o] # NoOrder
      PROVE  VenueEffect'[o] \in {"open", "closed"}
  <2>1. VenueEffect'[o] = IF venue'[o] = NoOrder THEN "none"
                          ELSE IF StatusToState[venue'[o].status] \in Terminal
                          THEN "closed" ELSE "open"
    BY DEF VenueEffect
  <2> QED
    BY <1>7, <2>1
<1>8. CASE VenueAccepts(o)
  <2>1. PICK order \in FirstStatus : venue' = [venue EXCEPT ![o] = order]
    BY <1>8 DEF VenueAccepts
  <2>2. o \in wire /\ venue[o] = NoOrder
    BY <1>8 DEF VenueAccepts
  <2>3. /\ v = order /\ order # NoOrder
        /\ order.executed \in 0 .. FullQuantity
    BY <2>1, ServiceFacts DEF TypedInv, RestOK, FirstStatus, NoOrder
  <2>4. posts[o] = 1 /\ VenueEffect[o] = "none"
    BY <1>6, <2>2, Effects DEF WorldAt
  <2>5. V[o] # "refused"
    BY <1>6, <2>2, Verdicts DEF RowTrue, Refused
  <2>6. v.executed \in 0 .. FullQuantity /\ VenueEffect'[o] \in {"open", "closed"}
    BY <1>7, <2>3
  <2>7. Action!Effect(o)
    BY <1>3, <1>4, <1>5, <2>4, <2>5, <2>6 DEF Action!Effect
  <2> QED
    BY <2>7 DEF Action!Next
<1>9. CASE VenueMoves(o)
  <2>1. PICK w \in Successors(venue[o]) : venue' = [venue EXCEPT ![o] = w]
    BY <1>9 DEF VenueMoves
  <2>2. venue[o].status \in OpenStatus /\ venue[o] \in VenueOrder
    BY <1>9 DEF VenueMoves, OpenStatus, TypedInv, RestOK
  <2>3. v = w
    BY <2>1 DEF TypedInv, RestOK
  <2>4. /\ w.status # "NONE"
        /\ w.executed \in venue[o].executed .. FullQuantity
    BY <2>2, ServiceFacts DEF Successors, VenueOrder, OpenStatus
  <2>5. VenueEffect[o] = "open"
    BY <1>6, <2>2, Effects
  <2>6. /\ v.executed \in E[o] .. FullQuantity
        /\ VenueEffect'[o] \in {"open", "closed"}
    BY <1>6, <1>7, <2>3, <2>4 DEF NoOrder
  <2>7. Action!Progress(o)
    BY <1>3, <1>4, <1>5, <2>5, <2>6 DEF Action!Progress
  <2> QED
    BY <2>7 DEF Action!Next
<1> QED
  BY <1>8, <1>9

-----------------------------------------------------------------------------
(* Every step.                                                             *)

\* Every other step leaves the venue, the posts and the confirmations alone.
LEMMA OtherSteps ==
    ASSUME [Next]_vars
    PROVE  \/ UNCHANGED <<venue, posts, confirmed>>
           \/ \E p \in Proc, o \in Op : Confirm(p, o)
           \/ \E p \in Proc, r \in Requests : PlaceOrder(p, r)
           \/ \E o \in Op : VenueAccepts(o) \/ VenueMoves(o)
<1> DEFINE Held == UNCHANGED <<venue, posts, confirmed>>
<1> USE DEF venueVars, intentVars, historyVars
<1>1. CASE UNCHANGED vars
  BY <1>1 DEF vars
<1>2. ASSUME NEW p \in Proc, NEW r \in Requests, RequestNext(p, r),
             ~PlaceOrder(p, r)
      PROVE  Held
  BY <1>2 DEF RequestNext, ExecuteIntent, ReconcileByHand, RecordAck,
     RecordReject, RecordLost, Learn, QueueLost, FaultDropsAnswer,
     PlacementRefused
<1>3. ASSUME NEW p \in Proc, NEW s \in Slot, PassNext(p, s)
      PROVE  Held
  BY <1>3 DEF PassNext, VenueAnswers, VenueMisreports, Answer, RecordObserved,
     RecordAbsent, RecordUnavailable, Conclude, PassRefused, ReleaseJob,
     ReplyUnreadable
<1>4. ASSUME NEW p \in Proc, WorkerNext(p)
      PROVE  Held
  BY <1>4 DEF WorkerNext, WorkerClaims, WorkerBegins, WorkerRefused, GiveBack
<1>5. ASSUME NEW p \in Proc, ProcessNext(p), ~\E o \in Op : Confirm(p, o)
      PROVE  Held
  BY <1>5 DEF ProcessNext, Resume, SetFault, Start, StartServing, Crash,
     BesidesStartup
<1>6. ASSUME NEW o \in Op,
             \/ VenueRejects(o) \/ WireDrops(o)
             \/ IntentExpires(o) \/ WindowElapses(o)
      PROVE  Held
  BY <1>6 DEF VenueRejects, WireDrops, IntentExpires, WindowElapses,
     OnTheWireOnly
<1> QED
  BY <1>1, <1>2, <1>3, <1>4, <1>5, <1>6 DEF Next, VenueNext

\* Everything the mapping of one step rests on.
MapInv == /\ ServiceInv /\ DispatchInv /\ VenueInv
          /\ StartupInv /\ AttendInv /\ ConfirmedInv

\* A step of the service is one step of EconomicAction, or none.
LEMMA StepMaps ==
    ASSUME MapInv, MapInv', [Next]_vars, [Final]_vars
    PROVE  [Action!Next]_Action!vars
<1>0. TypedInv /\ TypedInv' /\ OpsStep /\ Final
  <2>1. [JournalNext]_journalVars
    BY ServiceInvStep DEF MapInv
  <2>2. Final
    BY DEF Final, vars
  <2> QED
    BY <2>1, <2>2, JournalOpsStep DEF MapInv, ServiceInv
<1>1. CASE UNCHANGED <<venue, posts, confirmed>>
  <2>1. \/ \A o \in Op : SaysTheSame(o)
        \/ \E o \in Op : SaysMore(o) /\ \A q \in Op \ {o} : SaysTheSame(q)
    BY <1>0, <1>1, RowMoves DEF MapInv
  <2> QED
    BY <1>1, <2>1, NothingHappens, RowSpeaks DEF MapInv, VenueInv
<1>2. ASSUME NEW p \in Proc, NEW o \in Op, Confirm(p, o)
      PROVE  [Action!Next]_Action!vars
  <2>1. CASE o \in confirmed
    BY <1>1, <1>2, <2>1 DEF Confirm, venueVars, historyVars
  <2>2. CASE o \notin confirmed
    BY <1>0, <1>2, <2>2, ConfirmApproves DEF MapInv
  <2> QED
    BY <2>1, <2>2
<1>3. ASSUME NEW p \in Proc, NEW r \in Requests, PlaceOrder(p, r)
      PROVE  Action!Next
  BY <1>0, <1>3, PostSends DEF MapInv
<1>4. ASSUME NEW o \in Op, VenueAccepts(o) \/ VenueMoves(o)
      PROVE  Action!Next
  BY <1>0, <1>4, VenueActs DEF MapInv
<1> QED
  BY <1>1, <1>2, <1>3, <1>4, OtherSteps

\* The journal starts where EconomicAction starts.
LEMMA InitialMaps == Init => Action!Init
<1> SUFFICES ASSUME Init PROVE Action!Init
  OBVIOUS
<1>1. /\ confirmed = {} /\ posts = [o \in Op |-> 0]
      /\ \A o \in Op : venue[o] = NoOrder /\ ops[o] = NewRow
  BY DEF Init, JournalInit
<1>2. VenueEffect = [o \in Op |-> "none"]
  BY <1>1 DEF VenueEffect
<1>3. [o \in Op |-> venue[o].executed] = [o \in Op |-> 0]
  BY <1>1 DEF NoOrder
<1>4. [o \in Op |-> ops[o].executed] = [o \in Op |-> 0]
  BY <1>1 DEF NewRow
<1>5. [o \in Op |-> VerdictOf(ops[o])] = [o \in Op |-> "open"]
  BY <1>1 DEF NewRow, VerdictOf, SettledByRefusal, HeardVerdict
<1> QED
  BY <1>1, <1>2, <1>3, <1>4, <1>5 DEF Action!Init

\* One server over an honest venue keeps the promises of EconomicAction: every
\* operation is approved before it is sent, sent at most once, its fills are
\* reported as they happened and its verdict is the venue's own, through any
\* loss, delay, crash and restart.
THEOREM ServerImplementsAction ==
    ASSUME OneServer, Anomalies = {}
    PROVE  Spec => ImplementsEconomicAction
<1>1. ServiceInv /\ StartupInv /\ AttendInv /\ ConfirmedInv /\ [Next]_vars
         => ConfirmedInv'
  BY ConfirmedStep
<1>2. Spec => [](ServiceInv /\ DispatchInv /\ VenueInv)
  BY AnswersStayTrue
<1>3. Spec => [](ServiceInv /\ StartupInv /\ AttendInv)
  BY InFlightAlone
<1>4. Spec => []MapInv
  BY <1>1, <1>2, <1>3, InitialConfirmed, PTL DEF Spec, MapInv
<1>5. Spec => [][Final]_vars
  <2>1. SettledIsFinal => [][Final]_vars
    BY DEF SettledIsFinal, Final
  <2> QED
    BY <2>1, SettledStaysSettled, PTL
<1>6. MapInv /\ MapInv' /\ [Next]_vars /\ [Final]_vars
         => [Action!Next]_Action!vars
  BY StepMaps
<1> QED
  BY <1>4, <1>5, <1>6, InitialMaps, PTL
  DEF Spec, ImplementsEconomicAction, Action!Spec
=============================================================================
