----------------------------- MODULE ServerProofs -----------------------------
(***************************************************************************)
(* What holds of RescueService when one server has the journal to itself   *)
(* (README.md:160, "Single node"), for any number of operations, requests  *)
(* and crashes: a settled row is final, every operation in flight has its  *)
(* one call, no interleaving of passes raises a false alarm, and an        *)
(* operation left UNKNOWN is queued.  With two servers the resume loop of  *)
(* one rewrites rows that the other has in flight or has settled, as the   *)
(* run finding_resume_rewrites_settled shows.                              *)
(***************************************************************************)
EXTENDS ServiceProofs, FiniteSetTheorems

OneServer == \A p, q \in Proc : p = q

InFlight == {"SUBMITTING", "RECONCILING"}

\* Call <<p, s>> is dispatching or placing operation o; it is querying it.
Sending(p, s, o) == call[p][s].op = o /\ call[p][s].pc \in {"dispatch", "placing"}

Querying(p, s, o) == call[p][s].op = o /\ call[p][s].pc = "querying"

\* A server that does not serve has no calls; one that does not resume has
\* nothing left to resume; and what is left to demote is what is in flight.
StartupInv ==
    \A p \in Proc :
        /\ status[p] # "up" => \A s \in Slot : call[p][s].pc = "idle"
        /\ status[p] # "resuming" => resuming[p] = NotResuming
        /\ status[p] = "resuming" =>
             \A o \in Op : resuming[p][o] = "demote" <=> ops[o].state \in InFlight

\* A call in flight has its operation to itself.
AttendedAt(p, s, o) ==
    /\ Sending(p, s, o) =>
         /\ ops[o].state = "SUBMITTING"
         /\ \A q \in Proc, t \in Slot : Sending(q, t, o) => <<q, t>> = <<p, s>>
    /\ Querying(p, s, o) =>
         /\ ops[o].state = "RECONCILING"
         /\ \A q \in Proc, t \in Slot : Querying(q, t, o) => <<q, t>> = <<p, s>>

AttendInv == \A p \in Proc, s \in Slot, o \in Op : AttendedAt(p, s, o)

\* An operation in flight has a call.
CalledAt(o) ==
    /\ ops[o].state = "SUBMITTING" => \E p \in Proc, s \in Slot : Sending(p, s, o)
    /\ ops[o].state = "RECONCILING" =>
         \E p \in Proc, s \in Slot : Querying(p, s, o)

CalledInv == \A p \in Proc : status[p] = "up" => \A o \in Op : CalledAt(o)

\* The answer a query holds is no older than the row it will be compared with.
FitsAt(p, s, o) ==
    Querying(p, s, o) =>
        LET answer == call[p][s].answer IN
        /\ answer.kind = "OBSERVED" =>
             ops[o].executed <= answer.observation.executed
        /\ answer.kind = "ABSENT" =>
             ops[o].venueOrderId = None /\ ops[o].executed = 0

FitsInv ==
    /\ \A p \in Proc, s \in Slot : call[p][s].pc = "claimed" =>
         call[p][s].answer = NoReply
    /\ \A p \in Proc, s \in Slot, o \in Op : FitsAt(p, s, o)

\* The worker has operation o in hand.
HasJob(p, o) == call[p][Worker].pc # "idle" /\ call[p][Worker].op = o

\* States from which an operation may still come to be UNKNOWN, or is.
Unsettled == InFlight \cup {"UNKNOWN", "APPROVED", "AWAITING_CONFIRMATION"}

\* With no faults, no crashes and no operators: requests only execute, and the
\* server serves before anything has happened.
QuietServer(p) ==
    /\ ~armed[p]
    /\ \A r \in Requests :
         call[p][r].pc \in {"idle", "dispatch", "placing", "enqueue"}
    /\ call[p][Worker].pc \in {"idle", "claimed", "querying", "releasing",
                               "giveback"}
    /\ status[p] # "up" => \A o \in Op : ops[o].state = "AWAITING_CONFIRMATION"
    /\ \A o \in Op : resuming[p][o] = "no"

\* A job runs while the worker has it in hand; a pass that counts as settled
\* leaves nothing unsettled; and an UNKNOWN operation is queued or about to be.
QueueAt(p, o) ==
    /\ jobs[o].status = "RUNNING" <=> HasJob(p, o)
    /\ call[p][Worker].pc = "releasing" /\ HasJob(p, o)
          /\ call[p][Worker].settled => ops[o].state \notin Unsettled
    /\ ops[o].state = "UNKNOWN" =>
         \/ jobs[o].status \in {"PENDING", "RUNNING"}
         \/ \E r \in Requests : call[p][r].pc = "enqueue" /\ call[p][r].op = o

QueueInv == \A p \in Proc : QuietServer(p) /\ \A o \in Op : QueueAt(p, o)

-----------------------------------------------------------------------------
(* Startup. *)

\* The steps that only a server that is up takes leave its startup alone.
LEMMA ServingSteps ==
    ASSUME NEW p \in Proc,
           \/ \E r \in Requests : RequestNext(p, r)
           \/ \E s \in Slot : PassNext(p, s)
           \/ WorkerNext(p)
           \/ \E o \in Op : Confirm(p, o)
           \/ \E b \in BOOLEAN : SetFault(p, b)
    PROVE  status[p] = "up" /\ UNCHANGED <<status, resuming>>
<1>1. ASSUME NEW r \in Requests, RequestNext(p, r)
      PROVE  status[p] = "up" /\ UNCHANGED <<status, resuming>>
  BY <1>1 DEF RequestNext, ExecuteIntent, ReconcileByHand, PlaceOrder,
     RecordAck, RecordReject, RecordLost, QueueLost, FaultDropsAnswer,
     PlacementRefused, Hears, Learn, At, ApplyCommand, EnqueueReconciliation
<1>2. ASSUME NEW s \in Slot, PassNext(p, s)
      PROVE  status[p] = "up" /\ UNCHANGED <<status, resuming>>
  BY <1>2 DEF PassNext, VenueAnswers, VenueMisreports, RecordObserved,
     RecordAbsent, RecordUnavailable, PassRefused, ReleaseJob,
     ReplyUnreadable, Awaits, Answer, Conclude, At, ApplyCommand,
     ReleaseReconciliation
<1>3. CASE WorkerNext(p)
  BY <1>3 DEF WorkerNext, WorkerClaims, WorkerBegins, WorkerRefused, GiveBack,
     At, ApplyCommand, ClaimDueReconciliation, ReleaseReconciliation
<1>4. ASSUME NEW o \in Op, Confirm(p, o)
      PROVE  status[p] = "up" /\ UNCHANGED <<status, resuming>>
  BY <1>4 DEF Confirm, ApplyCommand
<1>5. ASSUME NEW b \in BOOLEAN, SetFault(p, b)
      PROVE  status[p] = "up" /\ UNCHANGED <<status, resuming>>
  BY <1>5 DEF SetFault
<1> QED
  BY <1>1, <1>2, <1>3, <1>4, <1>5

\* What the venue and the clock do moves no row and no server.
LEMMA OutsideSteps ==
    ASSUME NEW o \in Op, VenueNext(o) \/ IntentExpires(o) \/ WindowElapses(o)
    PROVE  UNCHANGED <<ops, jobs, resuming, status, armed>>
BY DEF VenueNext, VenueAccepts, VenueRejects, WireDrops, VenueMoves,
   OnTheWireOnly, IntentExpires, WindowElapses

\* A response reaches no call that is not waiting for one.
LEMMA VenueCalls ==
    ASSUME TypedInv, NEW o \in Op,
           VenueNext(o) \/ IntentExpires(o) \/ WindowElapses(o)
    PROVE  \A p \in Proc, s \in Slot :
              /\ call'[p][s].pc = call[p][s].pc
              /\ call'[p][s].op = call[p][s].op
              /\ call'[p][s].settled = call[p][s].settled
              /\ call[p][s].pc # "placing" => call'[p][s] = call[p][s]
<1>1. ASSUME NEW reply, Respond(o, reply), NEW p \in Proc, NEW s \in Slot
      PROVE  /\ call'[p][s].pc = call[p][s].pc
             /\ call'[p][s].op = call[p][s].op
             /\ call'[p][s].settled = call[p][s].settled
             /\ call[p][s].pc # "placing" => call'[p][s] = call[p][s]
  <2>1. call[p][s] \in Call
    BY CallsAtWork DEF TypedInv
  <2>2. call'[p][s] = [call[p][s] EXCEPT !.answer = reply]
        \/ call'[p][s] = call[p][s]
    BY <1>1 DEF Respond
  <2>3. call[p][s].pc # "placing" => call'[p][s] = call[p][s]
    BY <1>1 DEF Respond
  <2> QED
    BY <2>1, <2>2, <2>3 DEF Call
<1>2. CASE call' = call
  BY <1>2
<1> QED
  BY <1>1, <1>2 DEF VenueNext, VenueAccepts, VenueRejects, WireDrops,
     VenueMoves, IntentExpires, WindowElapses

\* The service starts with nothing running.
LEMMA InitialStartup == Init => StartupInv
BY DEF Init, JournalInit, StartupInv, IdleCall

\* With one server, nothing moves a row that is being resumed but its resume.
LEMMA StartupStep ==
    ASSUME OneServer
    PROVE  ServiceInv /\ StartupInv /\ [Next]_vars => StartupInv'
<1> SUFFICES ASSUME ServiceInv, StartupInv, [Next]_vars
             PROVE  StartupInv'
  OBVIOUS
<1> SUFFICES ASSUME NEW p \in Proc
             PROVE  /\ status'[p] # "up" =>
                          \A s \in Slot : call'[p][s].pc = "idle"
                    /\ status'[p] # "resuming" => resuming'[p] = NotResuming
                    /\ status'[p] = "resuming" => \A o \in Op :
                          resuming'[p][o] = "demote"
                             <=> ops'[o].state \in InFlight
  BY DEF StartupInv
<1>0. /\ status \in [Proc -> {"down", "resuming", "up"}]
      /\ resuming \in [Proc -> [Op -> ResumeStep]]
      /\ ops \in [Op -> Row] /\ CallsOK /\ TypedInv
      /\ \A q \in Proc : q = p
  BY DEF ServiceInv, TypedInv, RestOK, JournalTypeOK, OneServer
<1>1. CASE status[p] = "up" /\ UNCHANGED <<status, resuming>>
  BY <1>1 DEF StartupInv
<1>2. CASE Start(p)
  <2>1. status[p] = "down" /\ status'[p] = "resuming" /\ call' = call
        /\ ops' = ops
    BY <1>0, <1>2 DEF Start, BesidesStartup, ResumeScan
  <2>2. \A o \in Op : resuming'[p][o] = ResumeFrom(ops[o].state)
    BY <1>0, <1>2 DEF Start, ResumeScan
  <2>3. \A o \in Op : resuming'[p][o] = "demote" <=> ops'[o].state \in InFlight
    BY <2>1, <2>2 DEF ResumeFrom, InFlight
  <2> QED
    BY <2>1, <2>3 DEF StartupInv
<1>3. ASSUME NEW o \in Op, Resume(p, o)
      PROVE  StartupInv'
  <2>1. status[p] = "resuming" /\ status' = status /\ call' = call
    BY <1>3 DEF Resume, BesidesStartup
  <2>2. CASE ResumeDemote(p, o)
    <3>1. /\ ops'[o].state = "UNKNOWN" /\ resuming'[p][o] = "demoted"
          /\ \A q \in Op \ {o} : /\ ops'[q] = ops[q]
                                 /\ resuming'[p][q] = resuming[p][q]
      BY <1>0, <2>2 DEF ResumeDemote, Demoted, Row
    <3> QED
      BY <1>0, <2>1, <3>1 DEF StartupInv, InFlight
  <2>3. CASE ResumeEnqueue(p, o)
    <3>1. /\ ops' = ops /\ resuming'[p][o] = "no"
          /\ resuming[p][o] # "demote"
          /\ \A q \in Op \ {o} : resuming'[p][q] = resuming[p][q]
      BY <1>0, <2>3 DEF ResumeEnqueue
    <3> QED
      BY <1>0, <2>1, <3>1 DEF StartupInv
  <2> QED
    BY <1>3, <2>2, <2>3 DEF Resume
<1>4. CASE StartServing(p)
  BY <1>0, <1>4 DEF StartServing, StartupInv
<1>5. CASE Crash(p)
  <2>1. /\ status'[p] = "down" /\ resuming'[p] = NotResuming
        /\ \A s \in Slot : call'[p][s] = IdleCall
    BY <1>0, <1>5 DEF Crash, CallsOK
  <2> QED
    BY <2>1 DEF IdleCall
<1>6. ASSUME NEW o \in Op,
             VenueNext(o) \/ IntentExpires(o) \/ WindowElapses(o)
      PROVE  StartupInv'
  BY <1>0, <1>6, OutsideSteps, VenueCalls DEF StartupInv
<1>7. CASE UNCHANGED vars
  BY <1>7 DEF vars, StartupInv
<1>8. ASSUME NEW q \in Proc, ProcessNext(q)
      PROVE  \/ status[p] = "up" /\ UNCHANGED <<status, resuming>>
             \/ Start(p) \/ StartServing(p) \/ Crash(p)
             \/ \E o \in Op : Resume(p, o)
  <2>1. q = p
    BY <1>0
  <2> QED
    BY <1>8, <2>1, ServingSteps DEF ProcessNext
<1>9. ASSUME NEW q \in Proc,
             \/ \E r \in Requests : RequestNext(q, r)
             \/ \E s \in Slot : PassNext(q, s)
             \/ WorkerNext(q)
      PROVE  status[p] = "up" /\ UNCHANGED <<status, resuming>>
  <2>1. q = p
    BY <1>0
  <2> QED
    BY <1>9, <2>1, ServingSteps
<1> QED
  BY <1>1, <1>2, <1>3, <1>4, <1>5, <1>6, <1>7, <1>8, <1>9
  DEF Next, StartupInv

\* With one server, the resume loop never finds a row that has moved since the
\* loop read it.
THEOREM ResumeIsFresh ==
    ASSUME OneServer
    PROVE  Spec => [](ServiceInv /\ StartupInv)
<1>1. ServiceInv /\ StartupInv /\ [Next]_vars => StartupInv'
  BY StartupStep
<1> QED
  BY <1>1, InitialStartup, ServiceInvariant, PTL DEF Spec

\* Once settled, an operation's row never changes again: the restart's UPDATE,
\* which names no state, never meets a settled row.
THEOREM SettledStaysSettled ==
    ASSUME OneServer
    PROVE  Spec => SettledIsFinal
<1>1. Spec => SettledUnlessResumed
  BY ServiceImplementsJournal, SettledMovesOnlyAtResume, PTL
<1>2. Spec => [](ServiceInv /\ StartupInv)
  BY ResumeIsFresh
<1>3. ASSUME StartupInv,
             [\A o \in Op :
                ops[o].state \in Terminal /\ ops'[o] # ops[o]
                    => \E p \in Proc : /\ resuming[p][o] = "demote"
                                       /\ resuming'[p][o] = "demoted"]_journalVars
      PROVE  [\A o \in Op : ops[o].state \in Terminal => ops'[o] = ops[o]]_vars
  <2> SUFFICES ASSUME NEW o \in Op, ops[o].state \in Terminal,
                      ops'[o] # ops[o]
               PROVE  FALSE
    OBVIOUS
  <2>1. PICK p \in Proc : resuming[p][o] = "demote"
    BY <1>3 DEF journalVars
  <2>2. status[p] = "resuming"
    BY <1>3, <2>1 DEF StartupInv, NotResuming
  <2>3. ops[o].state \in InFlight
    BY <1>3, <2>1, <2>2 DEF StartupInv
  <2> QED
    BY <2>3 DEF InFlight, Terminal
<1> QED
  BY <1>1, <1>2, <1>3, PTL DEF SettledUnlessResumed, SettledIsFinal

-----------------------------------------------------------------------------
(* Calls and the rows they have in flight: how one step moves both.        *)

\* No call has o in flight any more.
NobodyOn(o) == \A q \in Proc, t \in Slot : ~Sending(q, t, o) /\ ~Querying(q, t, o)

\* Nothing moved: the row and the calls on it are what they were.
Stays(o) ==
    /\ ops'[o] = ops[o]
    /\ \A q \in Proc, t \in Slot : /\ Sending(q, t, o)' <=> Sending(q, t, o)
                                   /\ Querying(q, t, o)' <=> Querying(q, t, o)

\* A call takes the operation into flight, by itself.
Enters(o) ==
    /\ ops[o].state \notin InFlight
    /\ \E p \in Proc, s \in Slot :
         \/ /\ ops'[o].state = "SUBMITTING"
            /\ \A q \in Proc, t \in Slot :
                 Sending(q, t, o)' <=> <<q, t>> = <<p, s>>
            /\ \A q \in Proc, t \in Slot : ~Querying(q, t, o)'
         \/ /\ ops'[o].state = "RECONCILING"
            /\ \A q \in Proc, t \in Slot :
                 Querying(q, t, o)' <=> <<q, t>> = <<p, s>>
            /\ \A q \in Proc, t \in Slot : ~Sending(q, t, o)'

\* The operation is in flight no more, and no call has it.
Leaves(o) == ops'[o].state \notin InFlight /\ NobodyOn(o)'

\* Calls give up and leave the row behind.
Abandons(o) ==
    /\ ops'[o] = ops[o]
    /\ \A q \in Proc, t \in Slot : /\ Sending(q, t, o)' => Sending(q, t, o)
                                   /\ Querying(q, t, o)' => Querying(q, t, o)

Orderly(o) == Stays(o) \/ Enters(o) \/ Leaves(o)

Flow(o) == Orderly(o) \/ Abandons(o) \/ NobodyOn(o)'

\* Every such move keeps a call in flight alone with its operation.
LEMMA FlowAttends ==
    ASSUME AttendInv, \A o \in Op : Flow(o)
    PROVE  AttendInv'
<1> SUFFICES ASSUME NEW p \in Proc, NEW s \in Slot, NEW o \in Op
             PROVE  AttendedAt(p, s, o)'
  BY DEF AttendInv
<1>0. \A q \in Proc, t \in Slot : AttendedAt(q, t, o)
  BY DEF AttendInv
<1>1. CASE Stays(o) \/ Abandons(o)
  BY <1>0, <1>1 DEF Stays, Abandons, AttendedAt
<1>2. CASE Enters(o)
  <2>1. CASE \E a \in Proc, b \in Slot :
               /\ ops'[o].state = "SUBMITTING"
               /\ \A q \in Proc, t \in Slot :
                    Sending(q, t, o)' <=> <<q, t>> = <<a, b>>
               /\ \A q \in Proc, t \in Slot : ~Querying(q, t, o)'
    BY <2>1 DEF AttendedAt
  <2>2. CASE \E a \in Proc, b \in Slot :
               /\ ops'[o].state = "RECONCILING"
               /\ \A q \in Proc, t \in Slot :
                    Querying(q, t, o)' <=> <<q, t>> = <<a, b>>
               /\ \A q \in Proc, t \in Slot : ~Sending(q, t, o)'
    BY <2>2 DEF AttendedAt
  <2> QED
    BY <1>2, <2>1, <2>2 DEF Enters
<1>3. CASE NobodyOn(o)'
  BY <1>3 DEF NobodyOn, AttendedAt
<1> QED
  BY <1>1, <1>2, <1>3 DEF Flow, Orderly, Leaves

\* Orderly moves leave no operation in flight without its call.
LEMMA OrderlyCalls ==
    ASSUME NEW o \in Op, CalledAt(o), Orderly(o)
    PROVE  CalledAt(o)'
<1>1. CASE Stays(o)
  BY <1>1 DEF Stays, CalledAt
<1>2. CASE Enters(o)
  <2>1. CASE \E a \in Proc, b \in Slot :
               /\ ops'[o].state = "SUBMITTING"
               /\ \A q \in Proc, t \in Slot :
                    Sending(q, t, o)' <=> <<q, t>> = <<a, b>>
    BY <2>1 DEF CalledAt
  <2>2. CASE \E a \in Proc, b \in Slot :
               /\ ops'[o].state = "RECONCILING"
               /\ \A q \in Proc, t \in Slot :
                    Querying(q, t, o)' <=> <<q, t>> = <<a, b>>
    BY <2>2 DEF CalledAt
  <2> QED
    BY <1>2, <2>1, <2>2 DEF Enters
<1>3. CASE Leaves(o)
  BY <1>3 DEF Leaves, CalledAt, InFlight
<1> QED
  BY <1>1, <1>2, <1>3 DEF Orderly

\* A row whose state is not in flight has no call, and no call has two rows.
LEMMA Alone ==
    ASSUME AttendInv, NEW o \in Op
    PROVE  /\ ops[o].state \notin InFlight => NobodyOn(o)
           /\ \A p \in Proc, s \in Slot :
                Sending(p, s, o) \/ Querying(p, s, o) =>
                  /\ ops[o].state \in InFlight
                  /\ \A q \in Proc, t \in Slot :
                       Sending(q, t, o) \/ Querying(q, t, o)
                          => <<q, t>> = <<p, s>>
BY DEF AttendInv, AttendedAt, NobodyOn, InFlight

\* What a command does to being in flight.
LEMMA DecideFlow ==
    ASSUME NEW v \in Row, NEW c \in Command, NEW w \in Decide(v, c)
    PROVE  /\ c.type = "BEGIN_SUBMISSION" =>
                v.state = "APPROVED" /\ w.state = "SUBMITTING"
           /\ c.type = "BEGIN_RECONCILIATION" =>
                v.state \notin InFlight /\ w.state = "RECONCILING"
           /\ c.type = "CONFIRM_INTENT" => v.state = "AWAITING_CONFIRMATION"
           /\ c.type \notin {"BEGIN_SUBMISSION", "BEGIN_RECONCILIATION",
                             "RECORD_ACCOUNT_OBSERVATION"} =>
                w.state \notin InFlight
<1> USE DEF Decide, DecideSettled, DecideOpen
<1>1. CASE c.type = "BEGIN_SUBMISSION"
  <2>1. w \in BeginSubmission(v)
    BY <1>1
  <2> QED
    BY <1>1, <2>1 DEF BeginSubmission, Accept, Row
<1>2. CASE c.type = "BEGIN_RECONCILIATION"
  <2>1. w \in BeginReconciliation(v)
    BY <1>2
  <2> QED
    BY <1>2, <2>1 DEF BeginReconciliation, Move, Accept, Row, InFlight
<1>3. CASE c.type = "CONFIRM_INTENT"
  <2>1. w \in ConfirmIntent(v)
    BY <1>3
  <2> QED
    BY <1>3, <2>1 DEF ConfirmIntent, Move, Accept, Row, InFlight
<1>4. CASE c.type \in {"RECORD_ACKNOWLEDGEMENT", "RECORD_ORDER_OBSERVATION"}
  <2>1. \/ w = v /\ v.state \in Terminal
        \/ w = Observed(v, c.observation)
        \/ w = [v EXCEPT !.state = "MANUAL_REVIEW"]
    BY <1>4 DEF RecordAcknowledgement, Accept, RecordOrderObservation,
       ReobserveTerminal
  <2>2. Observed(v, c.observation).state \notin InFlight
    <3>1. c.observation.status \in VenueStatus
      BY <1>4, CommandArguments DEF Observation
    <3>2. Observed(v, c.observation).state
            = StatusToState[c.observation.status]
      BY DEF Observed, Row
    <3> QED
      BY <3>1, <3>2, StatusToStateRange DEF InFlight
  <2> QED
    BY <1>4, <2>1, <2>2 DEF Row, Terminal, InFlight
<1>5. CASE c.type = "RECORD_ORDER_ABSENT"
  <2>1. \E s \in {"MANUAL_REVIEW", "NOT_FOUND_SAFE", "UNKNOWN"} :
            w = [v EXCEPT !.state = s]
    BY <1>5 DEF RecordOrderAbsent
  <2> QED
    BY <1>5, <2>1 DEF Row, InFlight
<1>6. CASE c.type \in {"RECORD_AMBIGUOUS_SUBMISSION", "RECORD_REJECTION",
                       "RECORD_RECONCILIATION_UNAVAILABLE", "REQUEST_CANCEL",
                       "ESCALATE_MANUAL_REVIEW"}
  <2>1. \E s \in {"UNKNOWN", "REJECTED", "CANCEL_REQUESTED",
                  "MANUAL_REVIEW"} : w = [v EXCEPT !.state = s]
    BY <1>6 DEF RecordAmbiguous, RecordRejection, ReconciliationUnavailable,
       RequestCancel, Escalate, Move, Accept
  <2> QED
    BY <1>6, <2>1 DEF Row, InFlight
<1>7. CASE c.type = "RECORD_ACCOUNT_OBSERVATION"
  BY <1>7
<1> QED
  BY <1>1, <1>2, <1>3, <1>4, <1>5, <1>6, <1>7, CommandArguments

\* A command moves its own row and no other.
LEMMA CommandMoves ==
    ASSUME TypedInv, NEW o \in Op, NEW c \in Command, ApplyCommand(o, c)
    PROVE  /\ ops[o] \in Row /\ ops'[o] \in Decide(ops[o], c)
           /\ \A q \in Op \ {o} : ops'[q] = ops[q]
<1>1. PICK w \in Decide(ops[o], c) : ops' = [ops EXCEPT ![o] = w]
  BY DEF ApplyCommand, Applied
<1> QED
  BY <1>1 DEF TypedInv, JournalTypeOK

\* A call waits for what it has sent or asked.
Busy == {"dispatch", "placing", "querying"}

\* One call moves and the others stay where they are.
Others(p, s) == \A q \in Proc, t \in Slot :
                   <<q, t>> # <<p, s>> => call'[q][t] = call[q][t]

\* Setting one call moves no other.
LEMMA SetMoves ==
    ASSUME CallsOK, NEW p \in Proc, NEW s \in Slot, NEW k,
           call' = [call EXCEPT ![p][s] = k]
    PROVE  call'[p][s] = k /\ Others(p, s)
BY DEF CallsOK, Others

\* A call that ends, that goes on, or that throws.
LEMMA DoneMoves ==
    ASSUME CallsOK, NEW p \in Proc, NEW s \in Slot, Done(p, s)
    PROVE  call'[p][s].pc = "idle" /\ Others(p, s)
<1>1. call'[p][s] = IdleCall /\ Others(p, s)
  BY SetMoves DEF Done
<1> QED
  BY <1>1 DEF IdleCall

LEMMA GotoMoves ==
    ASSUME CallsOK, NEW p \in Proc, NEW s \in Slot, NEW pc, Goto(p, s, pc)
    PROVE  /\ call'[p][s].pc = pc /\ call'[p][s].op = call[p][s].op
           /\ Others(p, s)
<1> DEFINE k == [call[p][s] EXCEPT !.pc = pc]
<1>1. call[p][s] \in Call
  BY CallsAtWork
<1>2. k.pc = pc /\ k.op = call[p][s].op
  BY <1>1 DEF Call
<1>3. call' = [call EXCEPT ![p][s] = k]
  BY DEF Goto
<1> HIDE DEF k
<1> QED
  BY <1>2, <1>3, SetMoves

LEMMA ThrowMoves ==
    ASSUME CallsOK, NEW p \in Proc, NEW s \in Slot, Throw(p, s)
    PROVE  call'[p][s].pc \in {"idle", "giveback"} /\ Others(p, s)
BY DoneMoves, GotoMoves DEF Throw

\* A call that is not waiting before and after moves nothing in flight, nor
\* does one that waits on for the same operation.
LEMMA StayFlow ==
    ASSUME NEW p \in Proc, NEW s \in Slot, Others(p, s), ops' = ops,
           \/ call[p][s].pc \notin Busy /\ call'[p][s].pc \notin Busy
           \/ /\ call'[p][s].op = call[p][s].op
              /\ \/ call'[p][s].pc = call[p][s].pc
                 \/ {call[p][s].pc, call'[p][s].pc} = {"dispatch", "placing"}
    PROVE  \A o \in Op : Orderly(o)
<1> SUFFICES ASSUME NEW o \in Op PROVE Stays(o)
  BY DEF Orderly
<1>1. ASSUME NEW q \in Proc, NEW t \in Slot, <<q, t>> = <<p, s>>
      PROVE  /\ Sending(q, t, o)' <=> Sending(q, t, o)
             /\ Querying(q, t, o)' <=> Querying(q, t, o)
  BY <1>1 DEF Sending, Querying, Busy
<1>2. ASSUME NEW q \in Proc, NEW t \in Slot, <<q, t>> # <<p, s>>
      PROVE  /\ Sending(q, t, o)' <=> Sending(q, t, o)
             /\ Querying(q, t, o)' <=> Querying(q, t, o)
  BY <1>2 DEF Sending, Querying, Others
<1> QED
  BY <1>1, <1>2 DEF Stays

\* When no call and no row moves, nothing does.
LEMMA StillFlow ==
    ASSUME ops' = ops, \A p \in Proc, s \in Slot :
              /\ call'[p][s].pc = call[p][s].pc
              /\ call'[p][s].op = call[p][s].op
    PROVE  \A o \in Op : Orderly(o)
BY DEF Orderly, Stays, Sending, Querying

\* A waiting call that gives up leaves its row behind.
LEMMA GiveUpFlow ==
    ASSUME NEW p \in Proc, NEW s \in Slot, Others(p, s), ops' = ops,
           call'[p][s].pc \notin Busy
    PROVE  \A o \in Op : Abandons(o)
<1> SUFFICES ASSUME NEW o \in Op, NEW q \in Proc, NEW t \in Slot
             PROVE  /\ Sending(q, t, o)' => Sending(q, t, o)
                    /\ Querying(q, t, o)' => Querying(q, t, o)
  BY DEF Abandons
<1>1. CASE <<q, t>> = <<p, s>>
  BY <1>1 DEF Sending, Querying, Busy
<1>2. CASE <<q, t>> # <<p, s>>
  BY <1>2 DEF Sending, Querying, Others
<1> QED
  BY <1>1, <1>2

\* Taking an operation into flight.
LEMMA EnterFlow ==
    ASSUME AttendInv, NEW p \in Proc, NEW s \in Slot, NEW o \in Op,
           Others(p, s), call[p][s].pc \notin Busy,
           \A q \in Op \ {o} : ops'[q] = ops[q],
           ops[o].state \notin InFlight, call'[p][s].op = o,
           \/ ops'[o].state = "SUBMITTING" /\ call'[p][s].pc = "dispatch"
           \/ ops'[o].state = "RECONCILING" /\ call'[p][s].pc = "querying"
    PROVE  \A q \in Op : Orderly(q)
<1>1. NobodyOn(o)
  BY Alone
<1>2. ASSUME NEW q \in Proc, NEW t \in Slot, <<q, t>> # <<p, s>>
      PROVE  ~Sending(q, t, o)' /\ ~Querying(q, t, o)'
  BY <1>1, <1>2 DEF NobodyOn, Others, Sending, Querying
<1>3. Enters(o)
  <2>1. CASE ops'[o].state = "SUBMITTING" /\ call'[p][s].pc = "dispatch"
    <3>1. Sending(p, s, o)' /\ ~Querying(p, s, o)'
      BY <2>1 DEF Sending, Querying
    <3>2. /\ \A q \in Proc, t \in Slot :
               Sending(q, t, o)' <=> <<q, t>> = <<p, s>>
          /\ \A q \in Proc, t \in Slot : ~Querying(q, t, o)'
      BY <1>2, <3>1
    <3> QED
      BY <2>1, <3>2 DEF Enters
  <2>2. CASE ops'[o].state = "RECONCILING" /\ call'[p][s].pc = "querying"
    <3>1. ~Sending(p, s, o)' /\ Querying(p, s, o)'
      BY <2>2 DEF Sending, Querying
    <3>2. /\ \A q \in Proc, t \in Slot :
               Querying(q, t, o)' <=> <<q, t>> = <<p, s>>
          /\ \A q \in Proc, t \in Slot : ~Sending(q, t, o)'
      BY <1>2, <3>1
    <3> QED
      BY <2>2, <3>2 DEF Enters
  <2> QED
    BY <2>1, <2>2
<1>4. ASSUME NEW q \in Op \ {o}
      PROVE  Stays(q)
  <2> SUFFICES ASSUME NEW a \in Proc, NEW t \in Slot
               PROVE  /\ Sending(a, t, q)' <=> Sending(a, t, q)
                      /\ Querying(a, t, q)' <=> Querying(a, t, q)
    BY DEF Stays
  <2>1. CASE <<a, t>> = <<p, s>>
    BY <2>1 DEF Sending, Querying, Busy
  <2>2. CASE <<a, t>> # <<p, s>>
    BY <2>2 DEF Sending, Querying, Others
  <2> QED
    BY <2>1, <2>2
<1> QED
  BY <1>3, <1>4 DEF Orderly

\* Taking an operation out of flight, by the call that has it.
LEMMA LeaveFlow ==
    ASSUME AttendInv, NEW p \in Proc, NEW s \in Slot, NEW o \in Op,
           Others(p, s), call[p][s].op = o, call[p][s].pc \in Busy,
           call'[p][s].pc \notin Busy,
           \A q \in Op \ {o} : ops'[q] = ops[q],
           ops'[o].state \notin InFlight
    PROVE  \A q \in Op : Orderly(q)
<1>1. Sending(p, s, o) \/ Querying(p, s, o)
  BY DEF Sending, Querying, Busy
<1>2. \A q \in Proc, t \in Slot :
         Sending(q, t, o) \/ Querying(q, t, o) => <<q, t>> = <<p, s>>
  BY <1>1, Alone
<1>3. Leaves(o)
  <2> SUFFICES ASSUME NEW q \in Proc, NEW t \in Slot
               PROVE  ~Sending(q, t, o)' /\ ~Querying(q, t, o)'
    BY DEF Leaves, NobodyOn
  <2>1. CASE <<q, t>> = <<p, s>>
    BY <2>1 DEF Sending, Querying, Busy
  <2>2. CASE <<q, t>> # <<p, s>>
    BY <1>2, <2>2 DEF Sending, Querying, Others
  <2> QED
    BY <2>1, <2>2
<1>4. ASSUME NEW q \in Op \ {o}
      PROVE  Stays(q)
  <2> SUFFICES ASSUME NEW a \in Proc, NEW t \in Slot
               PROVE  /\ Sending(a, t, q)' <=> Sending(a, t, q)
                      /\ Querying(a, t, q)' <=> Querying(a, t, q)
    BY DEF Stays
  <2>1. CASE <<a, t>> = <<p, s>>
    BY <2>1 DEF Sending, Querying, Busy
  <2>2. CASE <<a, t>> # <<p, s>>
    BY <2>2 DEF Sending, Querying, Others
  <2> QED
    BY <2>1, <2>2
<1> QED
  BY <1>3, <1>4 DEF Orderly

-----------------------------------------------------------------------------
(* Every step of the service moves its rows and its calls in one of these  *)
(* ways.                                                                   *)

\* Learning the outcome of a submission or a query takes it out of flight.
LEMMA LearnFlow ==
    ASSUME TypedInv, AttendInv, NEW p \in Proc, NEW s \in Slot,
           NEW o \in Op, NEW c \in Command, ApplyCommand(o, c),
           c.type \notin {"BEGIN_SUBMISSION", "BEGIN_RECONCILIATION",
                          "RECORD_ACCOUNT_OBSERVATION"},
           call[p][s].op = o, call[p][s].pc \in Busy, Others(p, s),
           call'[p][s].pc \notin Busy
    PROVE  \A q \in Op : Orderly(q)
<1>1. ops[o] \in Row /\ ops'[o] \in Decide(ops[o], c)
      /\ \A q \in Op \ {o} : ops'[q] = ops[q]
  BY CommandMoves
<1>2. ops'[o].state \notin InFlight
  BY <1>1, DecideFlow
<1> QED
  BY <1>1, <1>2, LeaveFlow

\* What concluding a pass does to the call.
LEMMA ConcludeMoves ==
    ASSUME TypedInv, NEW p \in Proc, NEW s \in Slot,
           call[p][s].pc = "querying", NEW c \in Command, Conclude(p, s, c)
    PROVE  LET o == call[p][s].op IN
           /\ o \in Op /\ ApplyCommand(o, c)
           /\ call'[p][s].pc = "releasing" /\ call'[p][s].op = o
           /\ call'[p][s].settled <=> Resolved(ops'[o].state)
           /\ Others(p, s)
<1> DEFINE o == call[p][s].op
           b == Resolved(ops'[o].state)
           k == [CallAt("releasing", o, call[p][s].tries) EXCEPT !.settled = b]
<1>1. o \in Op
  BY CallsAtWork DEF TypedInv
<1>2. ApplyCommand(o, c) /\ call' = [call EXCEPT ![p][s] = k]
  BY DEF Conclude
<1>3. k.pc = "releasing" /\ k.op = o /\ k.settled = b
  BY DEF CallAt, IdleCall
<1> HIDE DEF k
<1>4. call'[p][s] = k /\ Others(p, s)
  BY <1>2, SetMoves DEF TypedInv
<1> QED
  BY <1>1, <1>2, <1>3, <1>4

\* The same for a pass.
LEMMA ConcludeFlow ==
    ASSUME TypedInv, AttendInv, NEW p \in Proc, NEW s \in Slot,
           call[p][s].pc = "querying", NEW c \in Command, Conclude(p, s, c),
           c.type \in {"RECORD_ORDER_OBSERVATION", "RECORD_ORDER_ABSENT",
                       "RECORD_RECONCILIATION_UNAVAILABLE"}
    PROVE  \A q \in Op : Orderly(q)
BY ConcludeMoves, LearnFlow DEF Busy

\* The request handlers.
LEMMA RequestFlow ==
    ASSUME TypedInv, AttendInv, NEW p \in Proc, NEW r \in Requests,
           RequestNext(p, r)
    PROVE  \/ \A o \in Op : Orderly(o)
           \/ PlacementRefused(p, r) /\ \A o \in Op : Abandons(o)
<1> USE ServiceFacts DEF TypedInv
<1>0. r \in Slot /\ call[p][r] \in Call
      /\ (call[p][r].pc # "idle" => call[p][r].op \in Op)
  BY CallsAtWork
<1>1. ASSUME NEW o \in Op, ExecuteIntent(p, r, o)
      PROVE  \A q \in Op : Orderly(q)
  <2>1. /\ ops[o] \in Row
        /\ ops'[o] \in Decide(ops[o], [type |-> "BEGIN_SUBMISSION"])
        /\ \A q \in Op \ {o} : ops'[q] = ops[q]
    BY <1>1, CommandMoves, ServiceCommands DEF ExecuteIntent
  <2>2. ops[o].state = "APPROVED" /\ ops'[o].state = "SUBMITTING"
    BY <2>1, DecideFlow, ServiceCommands
  <2> DEFINE k == CallAt("dispatch", o, 0)
  <2>3. k.pc = "dispatch" /\ k.op = o
    BY DEF CallAt, IdleCall
  <2>4. call' = [call EXCEPT ![p][r] = k]
    BY <1>1 DEF ExecuteIntent
  <2> HIDE DEF k
  <2>5. call'[p][r] = k /\ Others(p, r)
    BY <1>0, <2>4, SetMoves
  <2>6. call[p][r].pc \notin Busy
    BY <1>1 DEF ExecuteIntent, At, Busy
  <2> QED
    BY <1>0, <2>1, <2>2, <2>3, <2>5, <2>6, EnterFlow DEF InFlight
<1>2. ASSUME NEW o \in Op, ReconcileByHand(p, r, o)
      PROVE  \A q \in Op : Orderly(q)
  <2>1. /\ ops[o] \in Row
        /\ ops'[o] \in Decide(ops[o], BeginCommand)
        /\ \A q \in Op \ {o} : ops'[q] = ops[q]
    BY <1>2, CommandMoves, ServiceCommands DEF ReconcileByHand
  <2>2. ops[o].state \notin InFlight /\ ops'[o].state = "RECONCILING"
    BY <2>1, DecideFlow, ServiceCommands DEF BeginCommand
  <2> DEFINE k == CallAt("querying", o,
                         AtMost(jobs[o].attempts + 1, MinAttempts))
  <2>3. k.pc = "querying" /\ k.op = o
    BY DEF CallAt, IdleCall
  <2>4. call' = [call EXCEPT ![p][r] = k]
    BY <1>2 DEF ReconcileByHand
  <2> HIDE DEF k
  <2>5. call'[p][r] = k /\ Others(p, r)
    BY <1>0, <2>4, SetMoves
  <2>6. call[p][r].pc \notin Busy
    BY <1>2 DEF ReconcileByHand, At, Busy
  <2> QED
    BY <1>0, <2>1, <2>2, <2>3, <2>5, <2>6, EnterFlow
<1>3. CASE PlaceOrder(p, r)
  <2>1. /\ call[p][r].pc = "dispatch" /\ call'[p][r].pc = "placing"
        /\ call'[p][r].op = call[p][r].op /\ Others(p, r) /\ ops' = ops
    BY <1>0, <1>3, GotoMoves DEF PlaceOrder, At
  <2> QED
    BY <1>0, <2>1, StayFlow
<1>4. CASE RecordAck(p, r)
  <2>1. /\ call[p][r].pc = "placing" /\ call[p][r].answer.kind = "OBSERVED"
        /\ ApplyCommand(call[p][r].op, AckCommand(call[p][r]))
        /\ call'[p][r].pc = "idle" /\ Others(p, r)
    BY <1>0, <1>4, DoneMoves DEF RecordAck, Hears, At, Learn
  <2>2. AckCommand(call[p][r]) \in Command
        /\ AckCommand(call[p][r]).type = "RECORD_ACKNOWLEDGEMENT"
    BY <1>0, <2>1, ServiceCommands DEF AckCommand
  <2> QED
    BY <1>0, <2>1, <2>2, LearnFlow DEF Busy
<1>5. CASE RecordReject(p, r)
  <2>1. /\ call[p][r].pc = "placing"
        /\ ApplyCommand(call[p][r].op, [type |-> "RECORD_REJECTION"])
        /\ call'[p][r].pc = "idle" /\ Others(p, r)
    BY <1>0, <1>5, DoneMoves DEF RecordReject, Hears, At, Learn
  <2> QED
    BY <1>0, <2>1, LearnFlow, ServiceCommands DEF Busy
<1>6. CASE RecordLost(p, r)
  <2>1. /\ call[p][r].pc = "placing"
        /\ ApplyCommand(call[p][r].op, AmbiguousCommand)
        /\ call'[p][r].pc = "enqueue" /\ Others(p, r)
    BY <1>0, <1>6, GotoMoves DEF RecordLost, Hears, At, Learn
  <2>2. AmbiguousCommand.type = "RECORD_AMBIGUOUS_SUBMISSION"
    BY DEF AmbiguousCommand
  <2> QED
    BY <1>0, <2>1, <2>2, LearnFlow, ServiceCommands DEF Busy
<1>7. CASE QueueLost(p, r)
  <2>1. /\ call[p][r].pc = "enqueue" /\ ops' = ops
        /\ call'[p][r].pc = "idle" /\ Others(p, r)
    BY <1>0, <1>7, DoneMoves DEF QueueLost, EnqueueReconciliation, At
  <2> QED
    BY <1>0, <2>1, StayFlow DEF Busy
<1>8. CASE FaultDropsAnswer(p, r)
  <2>1. /\ call[p][r].pc = "placing"
        /\ ApplyCommand(call[p][r].op, AmbiguousCommand)
        /\ call'[p][r].pc = "idle" /\ Others(p, r)
    BY <1>0, <1>8, DoneMoves DEF FaultDropsAnswer, At
  <2>2. AmbiguousCommand.type = "RECORD_AMBIGUOUS_SUBMISSION"
    BY DEF AmbiguousCommand
  <2> QED
    BY <1>0, <2>1, <2>2, LearnFlow, ServiceCommands DEF Busy
<1>9. CASE PlacementRefused(p, r)
  <2>1. call'[p][r].pc = "idle" /\ Others(p, r) /\ ops' = ops
    BY <1>0, <1>9, DoneMoves DEF PlacementRefused
  <2> QED
    BY <1>0, <1>9, <2>1, GiveUpFlow DEF Busy
<1> QED
  BY <1>1, <1>2, <1>3, <1>4, <1>5, <1>6, <1>7, <1>8, <1>9 DEF RequestNext

\* The reconciliation passes.
LEMMA PassFlow ==
    ASSUME TypedInv, AttendInv, NEW p \in Proc, NEW s \in Slot,
           PassNext(p, s)
    PROVE  \/ \A o \in Op : Orderly(o)
           \/ /\ PassRefused(p, s) \/ ReplyUnreadable(p, s)
              /\ \A o \in Op : Abandons(o)
<1> USE DEF TypedInv
<1>0. call[p][s] \in Call /\ call[p][s] \in OwnedCall
      /\ (call[p][s].pc # "idle" => call[p][s].op \in Op)
  BY CallsAtWork
<1>1. ASSUME NEW reply, Answer(p, s, reply)
      PROVE  \A o \in Op : Orderly(o)
  <2> DEFINE k == [call[p][s] EXCEPT !.answer = reply]
  <2>1. k.pc = call[p][s].pc /\ k.op = call[p][s].op
    BY <1>0 DEF Call
  <2>2. call' = [call EXCEPT ![p][s] = k] /\ ops' = ops
    BY <1>1 DEF Answer
  <2> HIDE DEF k
  <2>3. call'[p][s] = k /\ Others(p, s)
    BY <2>2, SetMoves
  <2> QED
    BY <2>1, <2>2, <2>3, StayFlow
<1>2. CASE VenueAnswers(p, s) \/ VenueMisreports(p, s)
  BY <1>1, <1>2 DEF VenueAnswers, VenueMisreports
<1>3. CASE RecordObserved(p, s)
  <2>1. /\ call[p][s].pc = "querying" /\ call[p][s].answer.kind = "OBSERVED"
        /\ Conclude(p, s, ObservedCommand(call[p][s]))
    BY <1>3 DEF RecordObserved, At
  <2>2. ObservedCommand(call[p][s]) \in Command
        /\ ObservedCommand(call[p][s]).type = "RECORD_ORDER_OBSERVATION"
    BY <1>0, <2>1, ServiceCommands DEF ObservedCommand
  <2> QED
    BY <2>1, <2>2, ConcludeFlow
<1>4. CASE RecordAbsent(p, s)
  <2>1. /\ call[p][s].pc = "querying"
        /\ Conclude(p, s, AbsentCommand(call[p][s]))
    BY <1>4 DEF RecordAbsent, At
  <2>2. AbsentCommand(call[p][s]) \in Command
        /\ AbsentCommand(call[p][s]).type = "RECORD_ORDER_ABSENT"
    BY <1>0, <2>1, ServiceCommands DEF AbsentCommand
  <2> QED
    BY <2>1, <2>2, ConcludeFlow
<1>5. CASE RecordUnavailable(p, s)
  <2>1. /\ call[p][s].pc = "querying" /\ Conclude(p, s, UnavailableCommand)
    BY <1>5 DEF RecordUnavailable, At
  <2>2. UnavailableCommand.type = "RECORD_RECONCILIATION_UNAVAILABLE"
    BY DEF UnavailableCommand
  <2> QED
    BY <2>1, <2>2, ConcludeFlow, ServiceCommands
<1>6. CASE PassRefused(p, s) \/ ReplyUnreadable(p, s)
  <2>1. call'[p][s].pc \notin Busy /\ Others(p, s) /\ ops' = ops
    BY <1>6, ThrowMoves DEF PassRefused, ReplyUnreadable, Busy
  <2> QED
    BY <1>6, <2>1, GiveUpFlow
<1>7. CASE ReleaseJob(p, s)
  <2>1. /\ call[p][s].pc = "releasing" /\ ops' = ops
        /\ call'[p][s].pc = "idle" /\ Others(p, s)
    BY <1>7, DoneMoves DEF ReleaseJob, ReleaseReconciliation, At
  <2> QED
    BY <2>1, StayFlow DEF Busy
<1> QED
  BY <1>2, <1>3, <1>4, <1>5, <1>6, <1>7 DEF PassNext

\* The worker.
LEMMA WorkerFlow ==
    ASSUME TypedInv, AttendInv, NEW p \in Proc, WorkerNext(p)
    PROVE  \A o \in Op : Orderly(o)
<1> USE ServiceFacts DEF TypedInv
<1>0. call[p][Worker] \in Call
      /\ (call[p][Worker].pc # "idle" => call[p][Worker].op \in Op)
  BY CallsAtWork
<1>1. ASSUME NEW o \in Op, WorkerClaims(p, o)
      PROVE  \A q \in Op : Orderly(q)
  <2> DEFINE k == CallAt("claimed", o, jobs'[o].attempts)
  <2>1. k.pc = "claimed"
    BY DEF CallAt, IdleCall
  <2>2. /\ call' = [call EXCEPT ![p][Worker] = k] /\ ops' = ops
        /\ call[p][Worker].pc = "idle"
    BY <1>1 DEF WorkerClaims, ClaimDueReconciliation, At
  <2> HIDE DEF k
  <2>3. call'[p][Worker] = k /\ Others(p, Worker)
    BY <2>2, SetMoves
  <2> QED
    BY <2>1, <2>2, <2>3, StayFlow DEF Busy
<1>2. CASE WorkerBegins(p)
  <2> DEFINE o == call[p][Worker].op
  <2>1. /\ call[p][Worker].pc = "claimed" /\ o \in Op
        /\ ApplyCommand(o, BeginCommand)
        /\ call'[p][Worker].pc = "querying" /\ call'[p][Worker].op = o
        /\ Others(p, Worker)
    BY <1>0, <1>2, GotoMoves DEF WorkerBegins, At
  <2>2. /\ ops[o] \in Row
        /\ ops'[o] \in Decide(ops[o], BeginCommand)
        /\ \A q \in Op \ {o} : ops'[q] = ops[q]
    BY <2>1, CommandMoves, ServiceCommands
  <2>3. ops[o].state \notin InFlight /\ ops'[o].state = "RECONCILING"
    BY <2>2, DecideFlow, ServiceCommands DEF BeginCommand
  <2> QED
    BY <2>1, <2>2, <2>3, EnterFlow DEF Busy
<1>3. CASE WorkerRefused(p)
  <2>1. /\ call[p][Worker].pc = "claimed" /\ ops' = ops
        /\ call'[p][Worker].pc \notin Busy /\ Others(p, Worker)
    BY <1>3, ThrowMoves DEF WorkerRefused, At, Busy
  <2> QED
    BY <2>1, StayFlow DEF Busy
<1>4. CASE GiveBack(p)
  <2>1. /\ call[p][Worker].pc = "giveback" /\ ops' = ops
        /\ call'[p][Worker].pc = "idle" /\ Others(p, Worker)
    BY <1>4, DoneMoves DEF GiveBack, ReleaseReconciliation, At
  <2> QED
    BY <2>1, StayFlow DEF Busy
<1> QED
  BY <1>1, <1>2, <1>3, <1>4 DEF WorkerNext

\* The server itself.  A server that resumes or dies has no calls.
LEMMA ProcessFlow ==
    ASSUME OneServer, ServiceInv, StartupInv, AttendInv, NEW p \in Proc,
           ProcessNext(p)
    PROVE  \/ status' = status /\ \A o \in Op : Orderly(o)
           \/ Start(p) /\ (\A o \in Op : Orderly(o)) /\ status'[p] # "up"
           \/ StartServing(p) /\ \A o \in Op : Orderly(o)
           \/ (\A o \in Op : NobodyOn(o)') /\ status'[p] # "up"
<1>0. TypedInv /\ CallsOK
  BY DEF ServiceInv, TypedInv
<1>1. ASSUME NEW o \in Op, Confirm(p, o)
      PROVE  status' = status /\ \A q \in Op : Orderly(q)
  <2>1. /\ ops[o] \in Row
        /\ ops'[o] \in Decide(ops[o], [type |-> "CONFIRM_INTENT"])
        /\ (\A q \in Op \ {o} : ops'[q] = ops[q])
        /\ call' = call /\ status' = status
    BY <1>0, <1>1, CommandMoves, ServiceCommands DEF Confirm
  <2>2. ops[o].state \notin InFlight /\ ops'[o].state \notin InFlight
    BY <2>1, DecideFlow, ServiceCommands DEF InFlight
  <2>3. NobodyOn(o)'
    BY <2>1, <2>2, Alone DEF NobodyOn, Sending, Querying
  <2> QED
    BY <2>1, <2>2, <2>3 DEF Orderly, Leaves, Stays, Sending, Querying
<1>2. ASSUME NEW o \in Op, Resume(p, o)
      PROVE  status' = status /\ \A q \in Op : Orderly(q)
  <2>1. status[p] = "resuming" /\ status' = status /\ call' = call
    BY <1>2 DEF Resume, BesidesStartup
  <2>2. \A q \in Proc, t \in Slot : call[q][t].pc = "idle"
    BY <2>1 DEF StartupInv, OneServer
  <2>3. \A q \in Op : NobodyOn(q) /\ NobodyOn(q)'
    BY <2>1, <2>2 DEF NobodyOn, Sending, Querying
  <2>4. CASE ResumeEnqueue(p, o)
    BY <2>1, <2>4, StillFlow DEF ResumeEnqueue
  <2>5. CASE ResumeDemote(p, o)
    <3>1. /\ ops'[o].state = "UNKNOWN"
          /\ \A q \in Op \ {o} : ops'[q] = ops[q]
      BY <1>0, <2>5 DEF ResumeDemote, Demoted, Row, TypedInv, JournalTypeOK
    <3> QED
      BY <2>1, <2>3, <3>1 DEF Orderly, Leaves, Stays, InFlight, Sending,
         Querying
  <2> QED
    BY <1>2, <2>1, <2>4, <2>5 DEF Resume
<1>3. ASSUME NEW b \in BOOLEAN, SetFault(p, b)
      PROVE  status' = status /\ \A q \in Op : Orderly(q)
  BY <1>3, StillFlow DEF SetFault
<1>4. CASE Start(p)
  <2>1. ops' = ops /\ call' = call /\ status'[p] = "resuming"
    BY <1>0, <1>4 DEF Start, ResumeScan, BesidesStartup, TypedInv, RestOK
  <2> QED
    BY <1>4, <2>1, StillFlow
<1>5. CASE StartServing(p)
  BY <1>5, StillFlow DEF StartServing, BesidesStartup
<1>6. CASE Crash(p)
  <2>1. \A t \in Slot : call'[p][t] = IdleCall
    BY <1>0, <1>6 DEF Crash, CallsOK
  <2>2. status'[p] = "down"
    BY <1>0, <1>6 DEF Crash, TypedInv, RestOK
  <2>3. \A q \in Proc, t \in Slot : call'[q][t] = IdleCall
    BY <2>1 DEF OneServer
  <2> QED
    BY <2>2, <2>3 DEF NobodyOn, Sending, Querying, IdleCall
<1> QED
  BY <1>1, <1>2, <1>3, <1>4, <1>5, <1>6 DEF ProcessNext

\* Steps in which a call gives up on its operation and leaves it in flight.
Abandonment(p, s) ==
    \/ s \in Requests /\ PlacementRefused(p, s)
    \/ PassRefused(p, s)
    \/ ReplyUnreadable(p, s)

\* All steps together.
LEMMA StepFlow ==
    ASSUME OneServer, ServiceInv, StartupInv, AttendInv, [Next]_vars
    PROVE  /\ \A o \in Op : Flow(o)
           /\ \/ \A o \in Op : Orderly(o)
              \/ \E p \in Proc, s \in Slot : Abandonment(p, s)
              \/ \E p \in Proc : status'[p] # "up"
           /\ \/ status' = status
              \/ \E p \in Proc : status'[p] # "up"
              \/ \E p \in Proc : StartServing(p)
<1> USE ServiceFacts
<1>0. TypedInv
  BY DEF ServiceInv, TypedInv
<1>1. ASSUME NEW p \in Proc, NEW r \in Requests, RequestNext(p, r)
      PROVE  /\ status' = status
             /\ \/ \A o \in Op : Orderly(o)
                \/ Abandonment(p, r) /\ \A o \in Op : Abandons(o)
  BY <1>0, <1>1, RequestFlow, ServingSteps DEF Abandonment
<1>2. ASSUME NEW p \in Proc, NEW s \in Slot, PassNext(p, s)
      PROVE  /\ status' = status
             /\ \/ \A o \in Op : Orderly(o)
                \/ Abandonment(p, s) /\ \A o \in Op : Abandons(o)
  BY <1>0, <1>2, PassFlow, ServingSteps DEF Abandonment
<1>3. ASSUME NEW p \in Proc, WorkerNext(p)
      PROVE  status' = status /\ \A o \in Op : Orderly(o)
  BY <1>0, <1>3, WorkerFlow, ServingSteps
<1>4. ASSUME NEW o \in Op,
             VenueNext(o) \/ IntentExpires(o) \/ WindowElapses(o)
      PROVE  status' = status /\ \A q \in Op : Orderly(q)
  BY <1>0, <1>4, OutsideSteps, VenueCalls, StillFlow
<1>5. CASE UNCHANGED vars
  <2>1. ops' = ops /\ call' = call /\ status' = status
    BY <1>5 DEF vars
  <2> QED
    BY <2>1, StillFlow DEF Flow
<1>6. ASSUME NEW p \in Proc, ProcessNext(p)
      PROVE  \/ status' = status /\ \A o \in Op : Orderly(o)
             \/ StartServing(p) /\ \A o \in Op : Orderly(o)
             \/ status'[p] # "up" /\ \A o \in Op : Flow(o)
  BY <1>6, ProcessFlow DEF Flow
<1> QED
  BY <1>1, <1>2, <1>3, <1>4, <1>5, <1>6 DEF Next, Flow

\* The service starts with nothing in flight.
LEMMA InitialAttend == Init => AttendInv
BY DEF Init, AttendInv, AttendedAt, Sending, Querying, IdleCall

\* At most one call is ever sending an operation, or querying it, and only
\* while its row says so: no operation is queried twice at once, whatever the
\* console, the worker and restarts do.
THEOREM InFlightAlone ==
    ASSUME OneServer
    PROVE  Spec => [](ServiceInv /\ StartupInv /\ AttendInv)
<1>1. ServiceInv /\ StartupInv /\ AttendInv /\ [Next]_vars => AttendInv'
  BY StepFlow, FlowAttends
<1>2. Spec => [](ServiceInv /\ StartupInv)
  BY ResumeIsFresh
<1> QED
  BY <1>1, <1>2, InitialAttend, PTL DEF Spec

-----------------------------------------------------------------------------
(* Nobody gives up.  When the venue tells the truth, gives every operation *)
(* its own order id and writes replies that can be read, the journal       *)
(* refuses nothing of what a call in flight has learnt.                    *)

OwnIds == \A o, q \in Op : o # q => VenueIdOf[o] # VenueIdOf[q]

\* The UNIQUE column lets through the id a row has, and the id of its order.
LEMMA IdIsFree ==
    ASSUME OwnIds, JournalInv, VenueInv, NEW o \in Op, NEW row,
           row.venueOrderId \in {ops[o].venueOrderId, VenueIdOf[o]}
    PROVE  UniqueVenueId(o, row)
<1> SUFFICES ASSUME NEW q \in Op \ {o}, row.venueOrderId # None,
                    ops[q].venueOrderId = row.venueOrderId
             PROVE  FALSE
  BY DEF UniqueVenueId
<1>1. ops[q].venueOrderId = VenueIdOf[q]
  BY DEF VenueInv, RowTrue
<1>2. row.venueOrderId = VenueIdOf[o]
  BY DEF VenueInv, RowTrue
<1> QED
  BY <1>1, <1>2 DEF OwnIds

\* Whatever a submission in flight learns is recorded.
LEMMA PlacementRecorded ==
    ASSUME OwnIds, ServiceInv, VenueInv, AttendInv,
           NEW p \in Proc, NEW s \in Slot, call[p][s].pc = "placing"
    PROVE  LET k == call[p][s] IN
           /\ Applied(k.op, AmbiguousCommand) # {}
           /\ k.answer.kind = "OBSERVED" => Applied(k.op, AckCommand(k)) # {}
<1> DEFINE k == call[p][s]
<1>1. k \in Call /\ k.op \in Op
  BY CallsAtWork DEF ServiceInv, TypedInv
<1> DEFINE v == ops[k.op]
<1>2. v.state = "SUBMITTING" /\ v \in Row
  <2>1. Sending(p, s, k.op)
    BY DEF Sending
  <2> QED
    BY <1>1, <2>1 DEF AttendInv, AttendedAt, ServiceInv, TypedInv,
       JournalTypeOK
<1>3. Applied(k.op, AmbiguousCommand) # {}
  <2> DEFINE w == [v EXCEPT !.state = "UNKNOWN"]
  <2>1. w \in Decide(v, AmbiguousCommand)
    BY <1>2 DEF Decide, DecideOpen, AmbiguousCommand, RecordAmbiguous, Move,
       Accept, Terminal
  <2>2. w.venueOrderId = v.venueOrderId
    BY <1>2 DEF Row
  <2> HIDE DEF w
  <2>3. UniqueVenueId(k.op, w)
    BY <1>1, <2>2, IdIsFree DEF ServiceInv
  <2> QED
    BY <2>1, <2>3 DEF Applied
<1>4. ASSUME k.answer.kind = "OBSERVED"
      PROVE  Applied(k.op, AckCommand(k)) # {}
  <2> DEFINE obs == k.answer.observation
             w == Observed(v, obs)
  <2>1. w \in Decide(v, AckCommand(k))
    BY <1>2 DEF Decide, DecideOpen, AckCommand, RecordAcknowledgement,
       Accept, Terminal
  <2>2. obs.venueOrderId = VenueIdOf[k.op]
    BY <1>1, <1>4 DEF VenueInv, AnswerTrue, Faithful
  <2>3. w.venueOrderId = obs.venueOrderId
    BY <1>2 DEF Observed, Row
  <2>4. UniqueVenueId(k.op, w)
    BY <1>1, <2>2, <2>3, IdIsFree DEF ServiceInv
  <2> QED
    BY <2>1, <2>4 DEF Applied
<1> QED
  BY <1>3, <1>4

\* Whatever a pass may conclude is recorded.
LEMMA ConclusionRecorded ==
    ASSUME OwnIds, ServiceInv, VenueInv, AttendInv,
           NEW p \in Proc, NEW s \in Slot, call[p][s].pc = "querying",
           NEW c \in Conclusions(call[p][s])
    PROVE  Applied(call[p][s].op, c) # {}
<1> DEFINE k == call[p][s]
<1>1. k \in Call /\ k.op \in Op
  BY CallsAtWork DEF ServiceInv, TypedInv
<1> DEFINE v == ops[k.op]
<1>2. v.state = "RECONCILING" /\ v \in Row
  <2>1. Querying(p, s, k.op)
    BY DEF Querying
  <2> QED
    BY <1>1, <2>1 DEF AttendInv, AttendedAt, ServiceInv, TypedInv,
       JournalTypeOK
<1>3. ASSUME NEW w \in Decide(v, c), w.venueOrderId = v.venueOrderId
      PROVE  Applied(k.op, c) # {}
  BY <1>1, <1>3, IdIsFree DEF Applied, ServiceInv
<1>4. CASE c = UnavailableCommand
  <2> DEFINE w == [v EXCEPT !.state = "UNKNOWN"]
  <2>1. w \in Decide(v, c) /\ w.venueOrderId = v.venueOrderId
    BY <1>2, <1>4 DEF Decide, DecideOpen, UnavailableCommand,
       ReconciliationUnavailable, Move, Accept, Terminal, Row
  <2> QED
    BY <1>3, <2>1
<1>5. CASE k.answer.kind = "ABSENT" /\ c = AbsentCommand(k)
  <2>1. Decide(v, c) = RecordOrderAbsent(v, c.windowExhausted)
    BY <1>2, <1>5 DEF Decide, DecideOpen, AbsentCommand, Terminal
  <2>2. \E s1 : [v EXCEPT !.state = s1] \in Decide(v, c)
    BY <2>1 DEF RecordOrderAbsent
  <2>3. PICK s1 : [v EXCEPT !.state = s1] \in Decide(v, c)
    BY <2>2
  <2>4. [v EXCEPT !.state = s1].venueOrderId = v.venueOrderId
    BY <1>2 DEF Row
  <2> QED
    BY <1>3, <2>3, <2>4
<1>6. CASE k.answer.kind = "OBSERVED" /\ c = ObservedCommand(k)
  <2> DEFINE obs == k.answer.observation
             w == Observed(v, obs)
             m == [v EXCEPT !.state = "MANUAL_REVIEW"]
  <2>1. w \in Decide(v, c) \/ m \in Decide(v, c)
    BY <1>2, <1>6 DEF Decide, DecideOpen, ObservedCommand,
       RecordOrderObservation, Terminal
  <2>2. obs.venueOrderId = VenueIdOf[k.op]
    BY <1>1, <1>6 DEF VenueInv, AnswerTrue, Faithful
  <2>3. w.venueOrderId = obs.venueOrderId /\ m.venueOrderId = v.venueOrderId
    BY <1>2 DEF Observed, Row
  <2>4. UniqueVenueId(k.op, w)
    BY <1>1, <2>2, <2>3, IdIsFree DEF ServiceInv
  <2>5. w \in Decide(v, c) => Applied(k.op, c) # {}
    BY <2>4 DEF Applied
  <2>6. m \in Decide(v, c) => Applied(k.op, c) # {}
    BY <1>3, <2>3
  <2> QED
    BY <2>1, <2>5, <2>6
<1> QED
  BY <1>4, <1>5, <1>6 DEF Conclusions

\* So no call ever gives up.
LEMMA NobodyAbandons ==
    ASSUME OwnIds, MalformedReplies = FALSE, ServiceInv, VenueInv, AttendInv,
           NEW p \in Proc, NEW s \in Slot, Abandonment(p, s)
    PROVE  FALSE
<1>1. CASE s \in Requests /\ PlacementRefused(p, s)
  BY <1>1, PlacementRecorded DEF PlacementRefused, At
<1>2. CASE PassRefused(p, s)
  BY <1>2, ConclusionRecorded DEF PassRefused, At
<1>3. CASE ReplyUnreadable(p, s)
  BY <1>3 DEF ReplyUnreadable
<1> QED
  BY <1>1, <1>2, <1>3 DEF Abandonment

\* Nothing is in flight before the server is up.
LEMMA InitialCalled == Init => CalledInv
BY DEF Init, CalledInv

\* No step strands an operation in flight.
LEMMA CalledStep ==
    ASSUME OneServer, OwnIds, MalformedReplies = FALSE
    PROVE  ServiceInv /\ StartupInv /\ AttendInv /\ VenueInv /\ CalledInv
              /\ [Next]_vars => CalledInv'
<1> SUFFICES ASSUME ServiceInv, StartupInv, AttendInv, VenueInv, CalledInv,
                    [Next]_vars, NEW p \in Proc, status'[p] = "up",
                    NEW o \in Op
             PROVE  CalledAt(o)'
  BY DEF CalledInv
<1>1. \A q \in Proc : status'[q] = "up"
  BY DEF OneServer
<1>2. \A q \in Op : Orderly(q)
  BY <1>1, StepFlow, NobodyAbandons
<1>3. CASE status' = status
  BY <1>2, <1>3, OrderlyCalls DEF CalledInv
<1>4. CASE \E q \in Proc : StartServing(q)
  <2>1. PICK q \in Proc : StartServing(q)
    BY <1>4
  <2>2. status[q] = "resuming" /\ resuming[q] = NotResuming /\ ops' = ops
    BY <2>1 DEF StartServing
  <2>3. ops[o].state \notin InFlight
    BY <2>2 DEF StartupInv, NotResuming
  <2> QED
    BY <2>2, <2>3 DEF CalledAt, InFlight
<1> QED
  BY <1>1, <1>3, <1>4, StepFlow

\* Over an honest venue whose replies can be read, one server never strands
\* an operation in flight: while it is up, whatever is submitting or being
\* queried has exactly one call that will record what comes of it.
THEOREM InFlightHasItsCall ==
    ASSUME OneServer, OwnIds, Anomalies = {}, MalformedReplies = FALSE
    PROVE  Spec => []InFlightAttended
<1>1. AttendInv /\ CalledInv => InFlightAttended
  <2> SUFFICES ASSUME AttendInv, CalledInv, NEW o \in Op,
                      NEW p \in Proc, status[p] = "up"
               PROVE  /\ ops[o].state = "SUBMITTING" =>
                          Cardinality(CallsOn(o, {"dispatch", "placing"})) = 1
                      /\ ops[o].state = "RECONCILING" =>
                          Cardinality(CallsOn(o, {"querying"})) = 1
    BY DEF InFlightAttended
  <2>1. ASSUME ops[o].state = "SUBMITTING"
        PROVE  Cardinality(CallsOn(o, {"dispatch", "placing"})) = 1
    <3>1. PICK q \in Proc, t \in Slot : Sending(q, t, o)
      BY <2>1 DEF CalledInv, CalledAt
    <3>2. \A a \in Proc, b \in Slot : Sending(a, b, o) => <<a, b>> = <<q, t>>
      BY <3>1 DEF AttendInv, AttendedAt
    <3>3. CallsOn(o, {"dispatch", "placing"}) = {<<q, t>>}
      BY <3>1, <3>2 DEF CallsOn, Sending
    <3> QED
      BY <3>3, FS_Singleton
  <2>2. ASSUME ops[o].state = "RECONCILING"
        PROVE  Cardinality(CallsOn(o, {"querying"})) = 1
    <3>1. PICK q \in Proc, t \in Slot : Querying(q, t, o)
      BY <2>2 DEF CalledInv, CalledAt
    <3>2. \A a \in Proc, b \in Slot : Querying(a, b, o) => <<a, b>> = <<q, t>>
      BY <3>1 DEF AttendInv, AttendedAt
    <3>3. CallsOn(o, {"querying"}) = {<<q, t>>}
      BY <3>1, <3>2 DEF CallsOn, Querying
    <3> QED
      BY <3>3, FS_Singleton
  <2> QED
    BY <2>1, <2>2
<1>2. ServiceInv /\ StartupInv /\ AttendInv /\ VenueInv /\ CalledInv
         /\ [Next]_vars => CalledInv'
  BY CalledStep
<1>3. Spec => [](ServiceInv /\ StartupInv /\ AttendInv)
  BY InFlightAlone
<1>4. Spec => [](ServiceInv /\ DispatchInv /\ VenueInv)
  BY AnswersStayTrue
<1> QED
  BY <1>1, <1>2, <1>3, <1>4, InitialCalled, PTL DEF Spec

-----------------------------------------------------------------------------
(* No false alarm.  An alarm is raised by comparing an answer with the row; *)
(* the answer may be old, but with one server the row has not moved since   *)
(* the query began.                                                         *)

\* Calls that query, or are about to, take no answer with them.
QuietAnswers ==
    \A q \in Proc, t \in Slot :
        call'[q][t].pc \in {"claimed", "querying"} =>
            \/ call'[q][t].answer = NoReply
            \/ /\ call'[q][t].pc = call[q][t].pc
               /\ call'[q][t].op = call[q][t].op
               /\ call'[q][t].answer = call[q][t].answer

\* No row comes to need a human.
Calm == \A o \in Op : ops'[o].state = "MANUAL_REVIEW" =>
                          ops[o].state = "MANUAL_REVIEW"

\* Moving one call is quiet unless it goes to query with an answer.
LEMMA QuietMove ==
    ASSUME NEW p \in Proc, NEW s \in Slot, Others(p, s),
           call'[p][s].pc \in {"claimed", "querying"} =>
              call'[p][s].answer = NoReply
    PROVE  QuietAnswers
<1> SUFFICES ASSUME NEW q \in Proc, NEW t \in Slot,
                    call'[q][t].pc \in {"claimed", "querying"}
             PROVE  \/ call'[q][t].answer = NoReply
                    \/ /\ call'[q][t].pc = call[q][t].pc
                       /\ call'[q][t].op = call[q][t].op
                       /\ call'[q][t].answer = call[q][t].answer
  BY DEF QuietAnswers
<1>1. CASE <<q, t>> = <<p, s>>
  BY <1>1
<1>2. CASE <<q, t>> # <<p, s>>
  BY <1>2 DEF Others
<1> QED
  BY <1>1, <1>2

\* Which commands may call for a human.
LEMMA DecideAlarm ==
    ASSUME NEW v \in Row, NEW c \in Command, NEW w \in Decide(v, c),
           v.state # "MANUAL_REVIEW", w.state = "MANUAL_REVIEW"
    PROVE  \/ c.type = "ESCALATE_MANUAL_REVIEW"
           \/ /\ c.type = "RECORD_ORDER_OBSERVATION"
              /\ DetectContradiction(v, c.observation)
           \/ /\ c.type = "RECORD_ORDER_ABSENT"
              /\ v.venueOrderId # None \/ v.executed > 0
<1>1. w \in DecideOpen(v, c)
  BY DEF Decide, DecideSettled, ReobserveTerminal, Accept
<1>2. ASSUME NEW obs \in Observation
      PROVE  Observed(v, obs).state # "MANUAL_REVIEW"
  <2>1. Observed(v, obs).state = StatusToState[obs.status]
        /\ obs.status \in VenueStatus
    BY DEF Observed, Row, Observation
  <2> QED
    BY <2>1, StatusToStateRange
<1>3. CASE c.type = "RECORD_ACKNOWLEDGEMENT"
  BY <1>1, <1>2, <1>3, CommandArguments DEF DecideOpen,
     RecordAcknowledgement, Accept
<1>4. CASE c.type = "RECORD_ORDER_OBSERVATION"
  BY <1>1, <1>2, <1>4, CommandArguments DEF DecideOpen,
     RecordOrderObservation
<1>5. CASE c.type = "RECORD_ORDER_ABSENT"
  <2>1. v.executed \in Nat
    BY NaturalColumns
  <2>2. w = [v EXCEPT !.state =
              CASE v.venueOrderId # None \/ v.executed > 0 -> "MANUAL_REVIEW"
                [] v.venueOrderId = None /\ v.executed = 0
                     /\ c.windowExhausted -> "NOT_FOUND_SAFE"
                [] OTHER -> "UNKNOWN"]
    BY <1>1, <1>5 DEF DecideOpen, RecordOrderAbsent
  <2> SUFFICES ASSUME v.venueOrderId = None, ~(v.executed > 0)
               PROVE  FALSE
    BY <1>5
  <2>3. w = [v EXCEPT !.state = "NOT_FOUND_SAFE"]
        \/ w = [v EXCEPT !.state = "UNKNOWN"]
    BY <2>2
  <2> QED
    BY <2>3 DEF Row
<1>6. CASE c.type \in {"CONFIRM_INTENT", "RECORD_AMBIGUOUS_SUBMISSION",
                       "BEGIN_RECONCILIATION", "REQUEST_CANCEL",
                       "RECORD_RECONCILIATION_UNAVAILABLE",
                       "RECORD_REJECTION"}
  <2>1. \E s \in {"APPROVED", "UNKNOWN", "RECONCILING", "CANCEL_REQUESTED",
                  "REJECTED"} : w = [v EXCEPT !.state = s]
    BY <1>1, <1>6 DEF DecideOpen, ConfirmIntent, RecordAmbiguous,
       BeginReconciliation, RequestCancel, ReconciliationUnavailable,
       RecordRejection, Move, Accept
  <2> QED
    BY <2>1 DEF Row
<1>7. CASE c.type = "BEGIN_SUBMISSION"
  BY <1>1, <1>7 DEF DecideOpen, BeginSubmission, Accept, Row
<1>8. CASE c.type = "RECORD_ACCOUNT_OBSERVATION"
  BY <1>1, <1>8 DEF DecideOpen
<1> QED
  BY <1>3, <1>4, <1>5, <1>6, <1>7, <1>8, CommandArguments

\* Most commands raise no alarm.
LEMMA CalmCommand ==
    ASSUME TypedInv, NEW o \in Op, NEW c \in Command, ApplyCommand(o, c),
           c.type \notin {"ESCALATE_MANUAL_REVIEW",
                          "RECORD_ORDER_OBSERVATION", "RECORD_ORDER_ABSENT"}
    PROVE  Calm
<1>1. ops[o] \in Row /\ ops'[o] \in Decide(ops[o], c)
      /\ \A q \in Op \ {o} : ops'[q] = ops[q]
  BY CommandMoves
<1> QED
  BY <1>1, DecideAlarm DEF Calm

\* The request handlers raise no alarm.
LEMMA CalmRequest ==
    ASSUME TypedInv, NEW p \in Proc, NEW r \in Requests, RequestNext(p, r)
    PROVE  QuietAnswers /\ Calm
<1> USE ServiceFacts DEF TypedInv
<1>0. r \in Slot /\ call[p][r] \in Call
      /\ (call[p][r].pc # "idle" => call[p][r].op \in Op)
  BY CallsAtWork
<1>1. ASSUME NEW o \in Op, NEW pc \in PC, NEW tries,
             call' = [call EXCEPT ![p][r] = CallAt(pc, o, tries)]
      PROVE  QuietAnswers
  <2> DEFINE k == CallAt(pc, o, tries)
  <2>1. k.answer = NoReply
    BY DEF CallAt, IdleCall
  <2>2. call' = [call EXCEPT ![p][r] = k]
    BY <1>1
  <2> HIDE DEF k
  <2>3. call'[p][r] = k /\ Others(p, r)
    BY <1>0, <2>2, SetMoves
  <2> QED
    BY <1>0, <2>1, <2>3, QuietMove
<1>2. ASSUME Done(p, r) \/ Goto(p, r, "enqueue") \/ Goto(p, r, "placing")
      PROVE  QuietAnswers
  <2>1. Others(p, r) /\ call'[p][r].pc \in {"idle", "enqueue", "placing"}
    BY <1>0, <1>2, DoneMoves, GotoMoves
  <2> QED
    BY <1>0, <2>1, QuietMove
<1>3. ASSUME NEW o \in Op, ExecuteIntent(p, r, o)
      PROVE  QuietAnswers /\ Calm
  <2>1. call' = [call EXCEPT ![p][r] = CallAt("dispatch", o, 0)]
        /\ ApplyCommand(o, [type |-> "BEGIN_SUBMISSION"])
    BY <1>3 DEF ExecuteIntent
  <2> QED
    BY <1>1, <2>1, CalmCommand, ServiceCommands DEF PC
<1>4. ASSUME NEW o \in Op, ReconcileByHand(p, r, o)
      PROVE  QuietAnswers /\ Calm
  <2>1. call' = [call EXCEPT ![p][r] =
                   CallAt("querying", o,
                          AtMost(jobs[o].attempts + 1, MinAttempts))]
        /\ ApplyCommand(o, BeginCommand)
    BY <1>4 DEF ReconcileByHand
  <2>2. BeginCommand.type = "BEGIN_RECONCILIATION"
    BY DEF BeginCommand
  <2> QED
    BY <1>1, <2>1, <2>2, CalmCommand, ServiceCommands DEF PC
<1>5. CASE RecordAck(p, r)
  <2>1. /\ call[p][r].pc = "placing" /\ call[p][r].answer.kind = "OBSERVED"
        /\ ApplyCommand(call[p][r].op, AckCommand(call[p][r]))
        /\ Done(p, r)
    BY <1>5 DEF RecordAck, Hears, At, Learn
  <2>2. AckCommand(call[p][r]) \in Command
        /\ AckCommand(call[p][r]).type = "RECORD_ACKNOWLEDGEMENT"
    BY <1>0, <2>1, ServiceCommands DEF AckCommand
  <2> QED
    BY <1>0, <1>2, <2>1, <2>2, CalmCommand
<1>6. CASE RecordReject(p, r)
  <2>1. /\ call[p][r].pc = "placing" /\ Done(p, r)
        /\ ApplyCommand(call[p][r].op, [type |-> "RECORD_REJECTION"])
    BY <1>6 DEF RecordReject, Hears, At, Learn
  <2> QED
    BY <1>0, <1>2, <2>1, CalmCommand, ServiceCommands
<1>7. CASE RecordLost(p, r) \/ FaultDropsAnswer(p, r)
  <2>1. /\ call[p][r].pc = "placing"
        /\ Done(p, r) \/ Goto(p, r, "enqueue")
        /\ ApplyCommand(call[p][r].op, AmbiguousCommand)
    BY <1>7 DEF RecordLost, FaultDropsAnswer, Hears, At, Learn
  <2>2. AmbiguousCommand.type = "RECORD_AMBIGUOUS_SUBMISSION"
    BY DEF AmbiguousCommand
  <2> QED
    BY <1>0, <1>2, <2>1, <2>2, CalmCommand, ServiceCommands
<1>8. CASE PlaceOrder(p, r) \/ QueueLost(p, r) \/ PlacementRefused(p, r)
  <2>1. ops' = ops /\ (Done(p, r) \/ Goto(p, r, "placing"))
    BY <1>8 DEF PlaceOrder, QueueLost, PlacementRefused,
       EnqueueReconciliation
  <2> QED
    BY <1>2, <2>1 DEF Calm
<1> QED
  BY <1>3, <1>4, <1>5, <1>6, <1>7, <1>8 DEF RequestNext

\* Concluding a pass raises no alarm when its command does not.
LEMMA CalmConclusion ==
    ASSUME TypedInv, NEW p \in Proc, NEW s \in Slot,
           call[p][s].pc = "querying", NEW c \in Command, Conclude(p, s, c),
           c.type # "ESCALATE_MANUAL_REVIEW",
           c.type = "RECORD_ORDER_OBSERVATION" =>
              ~DetectContradiction(ops[call[p][s].op], c.observation),
           c.type = "RECORD_ORDER_ABSENT" =>
              /\ ops[call[p][s].op].venueOrderId = None
              /\ ops[call[p][s].op].executed = 0
    PROVE  QuietAnswers /\ Calm
<1> DEFINE o == call[p][s].op
<1>1. /\ o \in Op /\ ApplyCommand(o, c)
      /\ call'[p][s].pc = "releasing" /\ Others(p, s)
  BY ConcludeMoves
<1>2. ops[o] \in Row /\ ops'[o] \in Decide(ops[o], c)
      /\ \A q \in Op \ {o} : ops'[q] = ops[q]
  BY <1>1, CommandMoves
<1>3. ops'[o].state = "MANUAL_REVIEW" => ops[o].state = "MANUAL_REVIEW"
  BY <1>2, DecideAlarm
<1> QED
  BY <1>1, <1>2, <1>3, QuietMove DEF Calm

\* Nor do the passes, whose answers fit the rows.  The answer to a query is
\* the one new answer.
LEMMA CalmPass ==
    ASSUME Anomalies = {}, ServiceInv, AttendInv, VenueInv, FitsInv,
           NEW p \in Proc, NEW s \in Slot, PassNext(p, s)
    PROVE  Calm /\ (QuietAnswers \/ VenueAnswers(p, s))
<1> USE DEF ServiceInv, TypedInv
<1> DEFINE k == call[p][s]
           o == k.op
<1>0. k \in Call /\ k \in OwnedCall /\ (k.pc # "idle" => o \in Op)
  BY CallsAtWork
<1>1. CASE VenueAnswers(p, s)
  BY <1>1 DEF VenueAnswers, Answer, Calm
<1>2. CASE VenueMisreports(p, s)
  BY <1>2 DEF VenueMisreports
<1>3. ASSUME k.pc = "querying"
      PROVE  /\ o \in Op /\ ops[o].state = "RECONCILING"
             /\ FitsAt(p, s, o) /\ Querying(p, s, o)
  BY <1>0, <1>3 DEF AttendInv, AttendedAt, FitsInv, Querying
<1>4. CASE RecordObserved(p, s)
  <2>1. /\ k.pc = "querying" /\ k.answer.kind = "OBSERVED"
        /\ Conclude(p, s, ObservedCommand(k))
    BY <1>4 DEF RecordObserved, At
  <2>2. ObservedCommand(k) \in Command
        /\ ObservedCommand(k).type = "RECORD_ORDER_OBSERVATION"
        /\ ObservedCommand(k).observation = k.answer.observation
    BY <1>0, <2>1, ServiceCommands DEF ObservedCommand
  <2>3. /\ k.answer.observation.venueOrderId = VenueIdOf[o]
        /\ ops[o].venueOrderId # None => ops[o].venueOrderId = VenueIdOf[o]
    BY <1>3, <2>1 DEF VenueInv, AnswerTrue, Faithful, RowTrue
  <2>4. ops[o].executed <= k.answer.observation.executed
    BY <1>3, <2>1 DEF FitsAt
  <2>5. ops[o].executed \in Nat /\ k.answer.observation.executed \in Nat
    BY <1>0, <1>3, <2>1, NaturalColumns, Replies DEF JournalTypeOK, Call
  <2>6. ~DetectContradiction(ops[o], k.answer.observation)
    BY <1>3, <2>1, <2>3, <2>4, <2>5 DEF DetectContradiction
  <2> QED
    BY <2>1, <2>2, <2>6, CalmConclusion
<1>5. CASE RecordAbsent(p, s)
  <2>1. /\ k.pc = "querying" /\ k.answer.kind = "ABSENT"
        /\ Conclude(p, s, AbsentCommand(k))
    BY <1>5 DEF RecordAbsent, At
  <2>2. AbsentCommand(k) \in Command
        /\ AbsentCommand(k).type = "RECORD_ORDER_ABSENT"
    BY <1>0, <2>1, ServiceCommands DEF AbsentCommand
  <2>3. ops[o].venueOrderId = None /\ ops[o].executed = 0
    BY <1>3, <2>1 DEF FitsAt
  <2> QED
    BY <2>1, <2>2, <2>3, CalmConclusion
<1>6. CASE RecordUnavailable(p, s)
  <2>1. k.pc = "querying" /\ Conclude(p, s, UnavailableCommand)
    BY <1>6 DEF RecordUnavailable, At
  <2>2. UnavailableCommand.type = "RECORD_RECONCILIATION_UNAVAILABLE"
    BY DEF UnavailableCommand
  <2> QED
    BY <2>1, <2>2, CalmConclusion, ServiceCommands
<1>7. CASE PassRefused(p, s) \/ ReleaseJob(p, s) \/ ReplyUnreadable(p, s)
  <2>1. ops' = ops /\ Others(p, s) /\ call'[p][s].pc \in {"idle", "giveback"}
    BY <1>7, ThrowMoves, DoneMoves DEF PassRefused, ReleaseJob,
       ReplyUnreadable, ReleaseReconciliation
  <2> QED
    BY <2>1, QuietMove DEF Calm
<1> QED
  BY <1>1, <1>2, <1>4, <1>5, <1>6, <1>7 DEF PassNext

\* The worker raises none.
LEMMA CalmWorker ==
    ASSUME TypedInv, FitsInv, NEW p \in Proc, WorkerNext(p)
    PROVE  Calm /\ QuietAnswers
<1> USE ServiceFacts DEF TypedInv
<1>0. call[p][Worker] \in Call
      /\ (call[p][Worker].pc # "idle" => call[p][Worker].op \in Op)
  BY CallsAtWork
<1>1. ASSUME NEW o \in Op, WorkerClaims(p, o)
      PROVE  Calm /\ QuietAnswers
  <2> DEFINE k == CallAt("claimed", o, jobs'[o].attempts)
  <2>1. k.answer = NoReply
    BY DEF CallAt, IdleCall
  <2>2. call' = [call EXCEPT ![p][Worker] = k] /\ ops' = ops
    BY <1>1 DEF WorkerClaims, ClaimDueReconciliation
  <2> HIDE DEF k
  <2>3. call'[p][Worker] = k /\ Others(p, Worker)
    BY <2>2, SetMoves
  <2> QED
    BY <2>1, <2>2, <2>3, QuietMove DEF Calm
<1>2. CASE WorkerBegins(p)
  <2> DEFINE k == [call[p][Worker] EXCEPT !.pc = "querying"]
  <2>1. /\ call[p][Worker].pc = "claimed" /\ call[p][Worker].op \in Op
        /\ ApplyCommand(call[p][Worker].op, BeginCommand)
        /\ call' = [call EXCEPT ![p][Worker] = k]
    BY <1>0, <1>2 DEF WorkerBegins, At, Goto
  <2>2. k.answer = NoReply
    BY <1>0, <2>1 DEF FitsInv, Call
  <2> HIDE DEF k
  <2>3. call'[p][Worker] = k /\ Others(p, Worker)
    BY <2>1, SetMoves
  <2>4. BeginCommand.type = "BEGIN_RECONCILIATION"
    BY DEF BeginCommand
  <2> QED
    BY <2>1, <2>2, <2>3, <2>4, QuietMove, CalmCommand, ServiceCommands
<1>3. CASE WorkerRefused(p) \/ GiveBack(p)
  <2>1. /\ ops' = ops /\ Others(p, Worker)
        /\ call'[p][Worker].pc \in {"idle", "giveback"}
    BY <1>3, ThrowMoves, DoneMoves DEF WorkerRefused, GiveBack,
       ReleaseReconciliation
  <2> QED
    BY <2>1, QuietMove DEF Calm
<1> QED
  BY <1>1, <1>2, <1>3 DEF WorkerNext

\* Nor does the server itself.
LEMMA CalmProcess ==
    ASSUME TypedInv, NEW p \in Proc, ProcessNext(p)
    PROVE  Calm /\ QuietAnswers
<1>1. ASSUME call' = call
      PROVE  QuietAnswers
  BY <1>1 DEF QuietAnswers
<1>2. ASSUME NEW o \in Op, Confirm(p, o)
      PROVE  Calm /\ QuietAnswers
  BY <1>1, <1>2, CalmCommand, ServiceCommands DEF Confirm
<1>3. ASSUME NEW o \in Op, Resume(p, o)
      PROVE  Calm /\ QuietAnswers
  <2>1. call' = call
    BY <1>3 DEF Resume, BesidesStartup
  <2>2. \/ ops' = ops
        \/ /\ ops'[o].state = "UNKNOWN"
           /\ \A q \in Op \ {o} : ops'[q] = ops[q]
    BY <1>3 DEF Resume, ResumeDemote, ResumeEnqueue, Demoted, Row, TypedInv,
       JournalTypeOK
  <2> QED
    BY <1>1, <2>1, <2>2 DEF Calm
<1>4. CASE Crash(p)
  <2>1. /\ ops' = ops
        /\ \A q \in Proc, t \in Slot :
             call'[q][t] = call[q][t] \/ call'[q][t] = IdleCall
    BY <1>4 DEF Crash, TypedInv, CallsOK
  <2> QED
    BY <2>1 DEF Calm, QuietAnswers, IdleCall
<1>5. CASE Start(p) \/ StartServing(p) \/ \E b \in BOOLEAN : SetFault(p, b)
  <2>1. ops' = ops /\ call' = call
    BY <1>5 DEF Start, StartServing, SetFault, BesidesStartup, ResumeScan
  <2> QED
    BY <1>1, <2>1 DEF Calm
<1> QED
  BY <1>2, <1>3, <1>4, <1>5 DEF ProcessNext

\* All steps together.
LEMMA CalmStep ==
    ASSUME Anomalies = {}, ServiceInv, AttendInv, VenueInv, FitsInv,
           [Next]_vars
    PROVE  /\ Calm
           /\ QuietAnswers \/ \E p \in Proc, s \in Slot : VenueAnswers(p, s)
<1>0. TypedInv
  BY DEF ServiceInv, TypedInv
<1>1. ASSUME NEW o \in Op,
             VenueNext(o) \/ IntentExpires(o) \/ WindowElapses(o)
      PROVE  Calm /\ QuietAnswers
  <2>1. ops' = ops
    BY <1>1, OutsideSteps
  <2>2. \A q \in Proc, t \in Slot :
           /\ call'[q][t].pc = call[q][t].pc
           /\ call[q][t].pc # "placing" => call'[q][t] = call[q][t]
    BY <1>0, <1>1, VenueCalls
  <2> QED
    BY <2>1, <2>2 DEF Calm, QuietAnswers
<1>2. CASE UNCHANGED vars
  BY <1>2 DEF vars, Calm, QuietAnswers
<1> QED
  BY <1>0, <1>1, <1>2, CalmRequest, CalmPass, CalmWorker, CalmProcess
  DEF Next

\* The answers in flight go on fitting the rows.
LEMMA FitsStep ==
    ASSUME OneServer, Anomalies = {}
    PROVE  ServiceInv /\ StartupInv /\ AttendInv /\ VenueInv /\ FitsInv
              /\ [Next]_vars => FitsInv'
<1> SUFFICES ASSUME ServiceInv, StartupInv, AttendInv, VenueInv, FitsInv,
                    [Next]_vars
             PROVE  FitsInv'
  OBVIOUS
<1>0. TypedInv /\ CallsOK /\ \A o \in Op : Flow(o)
  BY StepFlow DEF ServiceInv, TypedInv
<1>1. CASE QuietAnswers
  <2>1. ASSUME NEW p \in Proc, NEW s \in Slot, call'[p][s].pc = "claimed"
        PROVE  call'[p][s].answer = NoReply
    BY <1>1, <2>1 DEF QuietAnswers, FitsInv
  <2>2. ASSUME NEW p \in Proc, NEW s \in Slot, NEW o \in Op
        PROVE  FitsAt(p, s, o)'
    <3>1. CASE call'[p][s].answer = NoReply
      BY <3>1 DEF FitsAt, NoReply
    <3>2. CASE ~Querying(p, s, o)'
      BY <3>2 DEF FitsAt
    <3>3. CASE /\ Querying(p, s, o)'
               /\ call'[p][s].pc = call[p][s].pc
               /\ call'[p][s].op = call[p][s].op
               /\ call'[p][s].answer = call[p][s].answer
      <4>1. Querying(p, s, o) /\ ops[o].state = "RECONCILING"
        BY <3>3 DEF Querying, AttendInv, AttendedAt
      <4>2. ops'[o] = ops[o]
        BY <1>0, <3>3, <4>1 DEF Flow, Orderly, Stays, Enters, Leaves,
           Abandons, NobodyOn, InFlight
      <4> QED
        BY <3>3, <4>1, <4>2 DEF FitsAt, FitsInv
    <3> QED
      BY <1>1, <3>1, <3>2, <3>3 DEF QuietAnswers, Querying
  <2> QED
    BY <2>1, <2>2 DEF FitsInv
<1>2. ASSUME NEW p \in Proc, NEW s \in Slot, VenueAnswers(p, s)
      PROVE  FitsInv'
  <2> DEFINE o == call[p][s].op
             reply == IF venue[o].status = "NONE"
                      THEN [kind |-> "ABSENT", observation |-> None]
                      ELSE [kind |-> "OBSERVED", observation |-> Snapshot(o)]
             k == [call[p][s] EXCEPT !.answer = reply]
  <2>1. /\ call[p][s].pc = "querying" /\ o \in Op
        /\ call' = [call EXCEPT ![p][s] = k] /\ ops' = ops
    BY <1>0, <1>2, CallsAtWork DEF VenueAnswers, Awaits, At, Answer
  <2>2. k.pc = "querying" /\ k.op = o /\ k.answer = reply
    BY <1>0, <2>1, CallsAtWork DEF Call
  <2>3. reply.kind = "OBSERVED" =>
           ops[o].executed <= reply.observation.executed
    BY <2>1 DEF Snapshot, VenueInv, RowTrue
  <2>4. reply.kind = "ABSENT" =>
           ops[o].venueOrderId = None /\ ops[o].executed = 0
    <3> SUFFICES ASSUME venue[o].status = "NONE"
                 PROVE  ops[o].venueOrderId = None /\ ops[o].executed = 0
      OBVIOUS
    <3>1. venue[o] = NoOrder
      BY <2>1 DEF VenueInv, WorldAt, OpenStatus, ClosedStatus
    <3>2. ops[o].venueOrderId = None /\ ops[o].executed <= 0
      BY <2>1, <3>1 DEF VenueInv, RowTrue, NoOrder
    <3>3. ops[o].executed \in Nat
      BY <1>0, <2>1, NaturalColumns DEF TypedInv, JournalTypeOK
    <3> QED
      BY <3>2, <3>3
  <2> HIDE DEF k
  <2>5. call'[p][s] = k /\ Others(p, s)
    BY <1>0, <2>1, SetMoves
  <2> HIDE DEF reply
  <2>6. ASSUME NEW q \in Proc, NEW t \in Slot, <<q, t>> = <<p, s>>
        PROVE  /\ call'[q][t].pc # "claimed"
               /\ \A a \in Op : FitsAt(q, t, a)'
    <3>1. call'[q][t] = k /\ k.pc = "querying"
      BY <2>2, <2>5, <2>6
    <3>2. \A a \in Op : Querying(q, t, a)' => a = o
      BY <2>2, <3>1 DEF Querying
    <3> QED
      BY <2>1, <2>2, <2>3, <2>4, <3>1, <3>2 DEF FitsAt
  <2>7. ASSUME NEW q \in Proc, NEW t \in Slot, <<q, t>> # <<p, s>>
        PROVE  /\ call'[q][t].pc = "claimed" => call'[q][t].answer = NoReply
               /\ \A a \in Op : FitsAt(q, t, a)'
    BY <2>1, <2>5, <2>7 DEF Others, FitsInv, FitsAt, Querying
  <2> QED
    BY <2>6, <2>7 DEF FitsInv
<1> QED
  BY <1>1, <1>2, CalmStep

\* The service starts with no answers and no alarms.
LEMMA InitialFits == Init => FitsInv /\ NoFalseAlarm
BY DEF Init, JournalInit, FitsInv, FitsAt, Querying, IdleCall, NoFalseAlarm,
   NewRow

\* While the venue tells the truth and one server holds the journal, no
\* interleaving of passes, restarts and late answers makes an operation look
\* contradictory to it.
THEOREM NeverAFalseAlarm ==
    ASSUME OneServer, Anomalies = {}
    PROVE  Spec => []NoFalseAlarm
<1>1. ServiceInv /\ StartupInv /\ AttendInv /\ VenueInv /\ FitsInv
         /\ [Next]_vars => FitsInv'
  BY FitsStep
<1>2. ServiceInv /\ AttendInv /\ VenueInv /\ FitsInv /\ NoFalseAlarm
         /\ [Next]_vars => NoFalseAlarm'
  <2> SUFFICES ASSUME ServiceInv, AttendInv, VenueInv, FitsInv, NoFalseAlarm,
                      [Next]_vars
               PROVE  NoFalseAlarm'
    OBVIOUS
  <2>1. Calm
    BY CalmStep
  <2> QED
    BY <2>1 DEF Calm, NoFalseAlarm
<1>3. Spec => [](ServiceInv /\ StartupInv /\ AttendInv)
  BY InFlightAlone
<1>4. Spec => [](ServiceInv /\ DispatchInv /\ VenueInv)
  BY AnswersStayTrue
<1> QED
  BY <1>1, <1>2, <1>3, <1>4, InitialFits, PTL DEF Spec

-----------------------------------------------------------------------------
(* The queue.  Without crashes, faults and operators, requests only        *)
(* execute and the worker alone reconciles.                                *)

\* What a submission may learn, and what a pass may conclude.
LEMMA LearntOutcome ==
    ASSUME NEW v \in Row, NEW c \in Command, NEW w \in Decide(v, c),
           v.state \in InFlight
    PROVE  /\ c.type \in {"RECORD_ACKNOWLEDGEMENT", "RECORD_REJECTION"}
                => w.state # "UNKNOWN"
           /\ c.type \in {"RECORD_ORDER_OBSERVATION", "RECORD_ORDER_ABSENT",
                          "RECORD_RECONCILIATION_UNAVAILABLE"}
                => w.state \notin {"APPROVED", "AWAITING_CONFIRMATION"}
<1>1. w \in DecideOpen(v, c)
  BY DEF Decide, Terminal, InFlight
<1>2. ASSUME NEW obs \in Observation
      PROVE  Observed(v, obs).state
                \notin {"UNKNOWN", "APPROVED", "AWAITING_CONFIRMATION"}
  <2>1. Observed(v, obs).state = StatusToState[obs.status]
        /\ obs.status \in VenueStatus
    BY DEF Observed, Row, Observation
  <2> QED
    BY <2>1, StatusToStateRange
<1>3. CASE c.type = "RECORD_ACKNOWLEDGEMENT"
  BY <1>1, <1>2, <1>3, CommandArguments DEF DecideOpen,
     RecordAcknowledgement, Accept
<1>4. CASE c.type = "RECORD_REJECTION"
  BY <1>1, <1>4 DEF DecideOpen, RecordRejection, Move, Accept, Row
<1>5. CASE c.type = "RECORD_ORDER_OBSERVATION"
  <2>1. w = Observed(v, c.observation)
        \/ w = [v EXCEPT !.state = "MANUAL_REVIEW"]
    BY <1>1, <1>5 DEF DecideOpen, RecordOrderObservation
  <2> QED
    BY <1>2, <1>5, <2>1, CommandArguments DEF Row
<1>6. CASE c.type \in {"RECORD_ORDER_ABSENT",
                       "RECORD_RECONCILIATION_UNAVAILABLE"}
  <2>1. \E s \in {"MANUAL_REVIEW", "NOT_FOUND_SAFE", "UNKNOWN"} :
           w = [v EXCEPT !.state = s]
    BY <1>1, <1>6 DEF DecideOpen, RecordOrderAbsent,
       ReconciliationUnavailable, Move, Accept
  <2> QED
    BY <1>6, <2>1 DEF Row
<1> QED
  BY <1>3, <1>4, <1>5, <1>6

\* A step of a request: the worker stands still, and a row that becomes
\* UNKNOWN has its request on the way to the queue.
LEMMA QueueByRequest ==
    ASSUME NEW p \in Proc, QuietServer(p), \A q \in Op : QueueAt(p, q),
           NEW r \in Requests, NEW o \in Op, Others(p, r),
           status[p] = "up", call[p][r].pc # "enqueue",
           call'[p][r].pc \in {"idle", "dispatch", "placing", "enqueue"},
           UNCHANGED <<jobs, resuming, status>>, ~armed'[p],
           \A q \in Op \ {o} : ops'[q] = ops[q],
           \/ ops'[o] = ops[o]
           \/ /\ ops[o].state \in {"APPROVED", "SUBMITTING"}
              /\ \/ ops'[o].state # "UNKNOWN"
                 \/ call'[p][r].pc = "enqueue" /\ call'[p][r].op = o
    PROVE  QuietServer(p)' /\ \A q \in Op : QueueAt(p, q)'
<1>1. call'[p][Worker] = call[p][Worker]
  BY ServiceFacts, ServiceAssumption DEF Others, ServiceAssumption
<1>2. \A t \in Requests : t # r => call'[p][t] = call[p][t]
  BY ServiceFacts DEF Others
<1>3. QuietServer(p)'
  BY <1>1, <1>2 DEF QuietServer
<1>4. ASSUME NEW q \in Op
      PROVE  QueueAt(p, q)'
  <2>1. QueueAt(p, q) /\ (HasJob(p, q)' <=> HasJob(p, q))
    BY <1>1 DEF HasJob
  <2>2. CASE ops'[q] = ops[q]
    BY <1>1, <1>2, <2>1, <2>2 DEF QueueAt
  <2>3. CASE q = o /\ ops[o].state \in {"APPROVED", "SUBMITTING"}
             /\ (\/ ops'[o].state # "UNKNOWN"
                 \/ call'[p][r].pc = "enqueue" /\ call'[p][r].op = o)
    BY <1>1, <2>1, <2>3 DEF QueueAt, Unsettled, InFlight
  <2> QED
    BY <2>2, <2>3
<1> QED
  BY <1>3, <1>4

\* A step of the worker on one operation.
LEMMA QueueByWorker ==
    ASSUME NEW p \in Proc, QuietServer(p), \A q \in Op : QueueAt(p, q),
           NEW o \in Op, Others(p, Worker), status[p] = "up",
           call[p][Worker].pc # "idle" => call[p][Worker].op = o,
           call'[p][Worker].pc \in {"idle", "claimed", "querying",
                                    "releasing", "giveback"},
           call'[p][Worker].pc # "idle" => call'[p][Worker].op = o,
           UNCHANGED <<resuming, status, armed>>,
           \A q \in Op \ {o} : ops'[q] = ops[q] /\ jobs'[q] = jobs[q],
           jobs'[o].status = "RUNNING" <=> call'[p][Worker].pc # "idle",
           call'[p][Worker].pc = "releasing" /\ call'[p][Worker].settled
              => ops'[o].state \notin Unsettled,
           ops'[o].state = "UNKNOWN"
              => jobs'[o].status \in {"PENDING", "RUNNING"}
    PROVE  QuietServer(p)' /\ \A q \in Op : QueueAt(p, q)'
<1>1. \A t \in Requests : call'[p][t] = call[p][t]
  BY ServiceFacts, ServiceAssumption DEF Others, ServiceAssumption
<1>2. QuietServer(p)'
  BY <1>1 DEF QuietServer
<1>3. ASSUME NEW q \in Op \ {o}
      PROVE  QueueAt(p, q)'
  <2>1. ~HasJob(p, q) /\ ~HasJob(p, q)'
    BY DEF HasJob
  <2> QED
    BY <1>1, <2>1 DEF QueueAt
<1>4. QueueAt(p, o)'
  BY DEF QueueAt, HasJob
<1> QED
  BY <1>2, <1>3, <1>4

\* Nothing the queue depends on moves.
LEMMA QueueStill ==
    ASSUME NEW p \in Proc, QuietServer(p), \A o \in Op : QueueAt(p, o),
           UNCHANGED <<ops, jobs, resuming, armed>>,
           status[p] = "up" => status'[p] = "up",
           \A s \in Slot : /\ call'[p][s].pc = call[p][s].pc
                           /\ call'[p][s].op = call[p][s].op
                           /\ call'[p][s].settled = call[p][s].settled
    PROVE  QuietServer(p)' /\ \A q \in Op : QueueAt(p, q)'
<1>1. QuietServer(p)'
  BY ServiceFacts DEF QuietServer
<1>2. ASSUME NEW q \in Op
      PROVE  QueueAt(p, q)'
  BY ServiceFacts DEF QueueAt, HasJob
<1> QED
  BY <1>1, <1>2

\* The requests keep the queue.
LEMMA QueueRequest ==
    ASSUME Operators = {}, TypedInv, AttendInv, NEW p \in Proc,
           QuietServer(p), \A o \in Op : QueueAt(p, o),
           NEW r \in Requests, RequestNext(p, r)
    PROVE  QuietServer(p)' /\ \A o \in Op : QueueAt(p, o)'
<1> USE ServiceFacts DEF TypedInv
<1>0. /\ r \in Slot /\ call[p][r] \in Call
      /\ (call[p][r].pc # "idle" => call[p][r].op \in Op)
      /\ status[p] = "up" /\ UNCHANGED <<status, resuming>> /\ ~armed[p]
  BY CallsAtWork, ServingSteps DEF QuietServer
<1> DEFINE o == call[p][r].op
<1>1. ASSUME NEW a \in Op, ExecuteIntent(p, r, a)
      PROVE  QuietServer(p)' /\ \A q \in Op : QueueAt(p, q)'
  <2>1. /\ ops[a] \in Row
        /\ ops'[a] \in Decide(ops[a], [type |-> "BEGIN_SUBMISSION"])
        /\ \A q \in Op \ {a} : ops'[q] = ops[q]
    BY <1>1, CommandMoves, ServiceCommands DEF ExecuteIntent
  <2>2. ops[a].state = "APPROVED" /\ ops'[a].state = "SUBMITTING"
    BY <2>1, DecideFlow, ServiceCommands
  <2> DEFINE k == CallAt("dispatch", a, 0)
  <2>3. k.pc = "dispatch"
    BY DEF CallAt, IdleCall
  <2>4. /\ call' = [call EXCEPT ![p][r] = k] /\ call[p][r].pc = "idle"
        /\ jobs' = jobs /\ armed' = armed
    BY <1>1 DEF ExecuteIntent, ApplyCommand, At
  <2> HIDE DEF k
  <2>5. call'[p][r] = k /\ Others(p, r)
    BY <1>0, <2>4, SetMoves
  <2> QED
    BY <1>0, <2>1, <2>2, <2>3, <2>4, <2>5, QueueByRequest
<1>2. ASSUME NEW a \in Op, ReconcileByHand(p, r, a)
      PROVE  FALSE
  BY <1>2 DEF ReconcileByHand
<1>3. CASE PlaceOrder(p, r)
  <2>1. /\ call[p][r].pc = "dispatch" /\ call'[p][r].pc = "placing"
        /\ Others(p, r) /\ ops' = ops /\ jobs' = jobs /\ armed' = armed
    BY <1>0, <1>3, GotoMoves DEF PlaceOrder, At
  <2> QED
    BY <1>0, <2>1, QueueByRequest
<1>4. ASSUME call[p][r].pc = "placing"
      PROVE  o \in Op /\ ops[o].state = "SUBMITTING"
  BY <1>0, <1>4 DEF AttendInv, AttendedAt, Sending
<1>5. ASSUME NEW c \in Command, call[p][r].pc = "placing", Learn(p, r, c),
             Done(p, r),
             c.type \in {"RECORD_ACKNOWLEDGEMENT", "RECORD_REJECTION"}
      PROVE  QuietServer(p)' /\ \A q \in Op : QueueAt(p, q)'
  <2>1. o \in Op /\ ops[o].state = "SUBMITTING"
        /\ ApplyCommand(o, c) /\ jobs' = jobs /\ armed' = armed
    BY <1>4, <1>5 DEF Learn, ApplyCommand
  <2>2. ops[o] \in Row /\ ops'[o] \in Decide(ops[o], c)
        /\ \A q \in Op \ {o} : ops'[q] = ops[q]
    BY <2>1, CommandMoves
  <2>3. ops'[o].state # "UNKNOWN"
    BY <1>5, <2>1, <2>2, LearntOutcome DEF InFlight
  <2>4. call'[p][r].pc = "idle" /\ Others(p, r)
    BY <1>0, <1>5, DoneMoves
  <2> QED
    BY <1>0, <1>5, <2>1, <2>2, <2>3, <2>4, QueueByRequest
<1>6. CASE RecordAck(p, r)
  <2>1. /\ call[p][r].pc = "placing" /\ call[p][r].answer.kind = "OBSERVED"
        /\ Learn(p, r, AckCommand(call[p][r])) /\ Done(p, r)
    BY <1>6 DEF RecordAck, Hears, At
  <2>2. AckCommand(call[p][r]) \in Command
        /\ AckCommand(call[p][r]).type = "RECORD_ACKNOWLEDGEMENT"
    BY <1>0, <2>1, ServiceCommands DEF AckCommand
  <2> QED
    BY <1>5, <2>1, <2>2
<1>7. CASE RecordReject(p, r)
  <2>1. /\ call[p][r].pc = "placing" /\ Done(p, r)
        /\ Learn(p, r, [type |-> "RECORD_REJECTION"])
    BY <1>7 DEF RecordReject, Hears, At
  <2> QED
    BY <1>5, <2>1, ServiceCommands
<1>8. CASE RecordLost(p, r)
  <2>1. /\ call[p][r].pc = "placing" /\ o \in Op /\ ops[o].state = "SUBMITTING"
        /\ ApplyCommand(o, AmbiguousCommand) /\ armed' = armed
        /\ Goto(p, r, "enqueue")
    BY <1>4, <1>8 DEF RecordLost, Hears, At, Learn
  <2>2. call'[p][r].pc = "enqueue" /\ call'[p][r].op = o /\ Others(p, r)
    BY <1>0, <2>1, GotoMoves
  <2>3. jobs' = jobs /\ \A q \in Op \ {o} : ops'[q] = ops[q]
    BY <2>1, CommandMoves, ServiceCommands DEF ApplyCommand
  <2> QED
    BY <1>0, <2>1, <2>2, <2>3, QueueByRequest
<1>9. CASE QueueLost(p, r)
  <2>1. /\ call[p][r].pc = "enqueue" /\ o \in Op /\ ops' = ops
        /\ call'[p][r].pc = "idle" /\ Others(p, r)
        /\ jobs' = [jobs EXCEPT ![o] = EnqueuedJob(jobs[o])]
        /\ armed' = armed
    BY <1>0, <1>9, DoneMoves DEF QueueLost, EnqueueReconciliation, At
  <2>2. call'[p][Worker] = call[p][Worker]
        /\ \A t \in Requests : t # r => call'[p][t] = call[p][t]
    BY <2>1, ServiceAssumption DEF Others, ServiceAssumption
  <2>3. QuietServer(p)'
    BY <1>0, <2>1, <2>2 DEF QuietServer
  <2>4. jobs \in [Op -> Job]
    BY DEF JournalTypeOK
  <2>5. /\ \A q \in Op \ {o} : jobs'[q] = jobs[q]
        /\ jobs'[o].status \in {"PENDING", "RUNNING"}
        /\ jobs'[o].status = "RUNNING" <=> jobs[o].status = "RUNNING"
    BY <2>1, <2>4 DEF EnqueuedJob, Job, JobStatus
  <2>6. ASSUME NEW q \in Op
        PROVE  QueueAt(p, q)'
    <3>1. QueueAt(p, q) /\ (HasJob(p, q)' <=> HasJob(p, q))
      BY <2>2 DEF HasJob
    <3>2. CASE q = o
      BY <2>1, <2>2, <2>5, <3>1, <3>2 DEF QueueAt
    <3>3. CASE q # o
      BY <2>1, <2>2, <2>5, <3>1, <3>3 DEF QueueAt
    <3> QED
      BY <3>2, <3>3
  <2> QED
    BY <2>3, <2>6
<1>10. CASE FaultDropsAnswer(p, r)
  BY <1>0, <1>10 DEF FaultDropsAnswer
<1>11. CASE PlacementRefused(p, r)
  <2>1. /\ call[p][r].pc = "placing" /\ ops' = ops /\ jobs' = jobs
        /\ ~armed'[p] /\ call'[p][r].pc = "idle" /\ Others(p, r)
    BY <1>0, <1>11, DoneMoves DEF PlacementRefused, At, RestOK
  <2> QED
    BY <1>0, <2>1, QueueByRequest
<1> QED
  BY <1>1, <1>2, <1>3, <1>6, <1>7, <1>8, <1>9, <1>10, <1>11 DEF RequestNext

\* A pass that concludes keeps the queue.
LEMMA QueueConclusion ==
    ASSUME TypedInv, AttendInv, NEW p \in Proc,
           QuietServer(p), \A o \in Op : QueueAt(p, o), status[p] = "up",
           UNCHANGED <<status, resuming>>, call[p][Worker].pc = "querying",
           NEW c \in Command, Conclude(p, Worker, c),
           c.type \in {"RECORD_ORDER_OBSERVATION", "RECORD_ORDER_ABSENT",
                       "RECORD_RECONCILIATION_UNAVAILABLE"}
    PROVE  QuietServer(p)' /\ \A o \in Op : QueueAt(p, o)'
<1> USE ServiceFacts
<1> DEFINE o == call[p][Worker].op
<1>1. /\ o \in Op /\ ApplyCommand(o, c)
      /\ call'[p][Worker].pc = "releasing" /\ call'[p][Worker].op = o
      /\ call'[p][Worker].settled <=> Resolved(ops'[o].state)
      /\ Others(p, Worker)
  BY ConcludeMoves
<1>2. jobs' = jobs /\ armed' = armed
  BY <1>1 DEF ApplyCommand, Conclude
<1>3. ops[o] \in Row /\ ops'[o] \in Decide(ops[o], c)
      /\ \A q \in Op \ {o} : ops'[q] = ops[q]
  BY <1>1, CommandMoves
<1>4. ops[o].state = "RECONCILING"
  BY <1>1 DEF AttendInv, AttendedAt, Querying
<1>5. call'[p][Worker].settled => ops'[o].state \notin Unsettled
  BY <1>1, <1>3, <1>4, LearntOutcome, DecideFlow
  DEF Resolved, Unsettled, InFlight
<1>6. jobs[o].status = "RUNNING"
  BY <1>1 DEF QueueAt, HasJob
<1> QED
  BY <1>1, <1>2, <1>3, <1>5, <1>6, QueueByWorker

\* The passes keep the queue.
LEMMA QueuePass ==
    ASSUME TypedInv, AttendInv, NEW p \in Proc,
           QuietServer(p), \A o \in Op : QueueAt(p, o),
           NEW s \in Slot, PassNext(p, s)
    PROVE  QuietServer(p)' /\ \A o \in Op : QueueAt(p, o)'
<1> USE ServiceFacts DEF TypedInv
<1> DEFINE k == call[p][s]
           o == k.op
<1>0. /\ k \in Call /\ k \in OwnedCall /\ (k.pc # "idle" => o \in Op)
      /\ status[p] = "up" /\ UNCHANGED <<status, resuming>>
  BY CallsAtWork, ServingSteps
<1>1. ASSUME NEW reply, Answer(p, s, reply)
      PROVE  QuietServer(p)' /\ \A q \in Op : QueueAt(p, q)'
  <2> DEFINE h == [k EXCEPT !.answer = reply]
  <2>1. h.pc = k.pc /\ h.op = k.op /\ h.settled = k.settled
    BY <1>0 DEF Call
  <2>2. call' = [call EXCEPT ![p][s] = h]
        /\ UNCHANGED <<ops, jobs, resuming, armed>>
    BY <1>1 DEF Answer
  <2> HIDE DEF h
  <2>3. call'[p][s] = h /\ Others(p, s)
    BY <2>2, SetMoves
  <2>4. \A t \in Slot : /\ call'[p][t].pc = call[p][t].pc
                        /\ call'[p][t].op = call[p][t].op
                        /\ call'[p][t].settled = call[p][t].settled
    BY <2>1, <2>3 DEF Others
  <2> QED
    BY <1>0, <2>2, <2>4, QueueStill
<1>2. CASE VenueAnswers(p, s) \/ VenueMisreports(p, s)
  BY <1>1, <1>2 DEF VenueAnswers, VenueMisreports
<1>3. ASSUME k.pc \in {"querying", "releasing"}
      PROVE  s = Worker
  BY <1>3 DEF QuietServer, Slot
<1>4. CASE RecordObserved(p, s)
  <2>1. /\ k.pc = "querying" /\ k.answer.kind = "OBSERVED"
        /\ Conclude(p, s, ObservedCommand(k))
    BY <1>4 DEF RecordObserved, At
  <2>2. ObservedCommand(k) \in Command
        /\ ObservedCommand(k).type = "RECORD_ORDER_OBSERVATION"
    BY <1>0, <2>1, ServiceCommands DEF ObservedCommand
  <2> QED
    BY <1>0, <1>3, <2>1, <2>2, QueueConclusion
<1>5. CASE RecordAbsent(p, s)
  <2>1. k.pc = "querying" /\ Conclude(p, s, AbsentCommand(k))
    BY <1>5 DEF RecordAbsent, At
  <2>2. AbsentCommand(k) \in Command
        /\ AbsentCommand(k).type = "RECORD_ORDER_ABSENT"
    BY <1>0, <2>1, ServiceCommands DEF AbsentCommand
  <2> QED
    BY <1>0, <1>3, <2>1, <2>2, QueueConclusion
<1>6. CASE RecordUnavailable(p, s)
  <2>1. k.pc = "querying" /\ Conclude(p, s, UnavailableCommand)
    BY <1>6 DEF RecordUnavailable, At
  <2>2. UnavailableCommand.type = "RECORD_RECONCILIATION_UNAVAILABLE"
    BY DEF UnavailableCommand
  <2> QED
    BY <1>0, <1>3, <2>1, <2>2, QueueConclusion, ServiceCommands
<1>7. ASSUME Throw(p, s), k.pc \in {"querying", "placing"},
             UNCHANGED <<ops, jobs, armed>>
      PROVE  QuietServer(p)' /\ \A q \in Op : QueueAt(p, q)'
  <2>1. CASE s = Worker
    <3>1. Goto(p, Worker, "giveback") /\ k = call[p][Worker]
      BY <1>7, <2>1 DEF Throw
    <3>2. /\ call'[p][Worker].pc = "giveback" /\ call'[p][Worker].op = o
          /\ Others(p, Worker)
      BY <3>1, GotoMoves
    <3>3. o \in Op /\ jobs[o].status = "RUNNING"
      BY <1>0, <1>7, <3>1 DEF QueueAt, HasJob
    <3> QED
      BY <1>0, <1>7, <3>1, <3>2, <3>3, QueueByWorker
  <2>2. CASE s # Worker
    <3>1. s \in Requests /\ Done(p, s) /\ o \in Op /\ k.pc = "placing"
      BY <1>0, <1>3, <1>7, <2>2 DEF Slot, Throw
    <3>2. call'[p][s].pc = "idle" /\ Others(p, s) /\ ~armed'[p]
      BY <1>7, <3>1, DoneMoves DEF QuietServer
    <3> QED
      BY <1>0, <1>7, <3>1, <3>2, QueueByRequest
  <2> QED
    BY <2>1, <2>2
<1>8. CASE PassRefused(p, s) \/ ReplyUnreadable(p, s)
  BY <1>7, <1>8 DEF PassRefused, ReplyUnreadable, At
<1>9. CASE ReleaseJob(p, s)
  <2>1. k.pc = "releasing" /\ s = Worker /\ o \in Op
    BY <1>0, <1>3, <1>9 DEF ReleaseJob, At
  <2>2. /\ jobs' = [jobs EXCEPT ![o] = ReleasedJob(jobs[o], ReleaseOutcome(k))]
        /\ ops' = ops /\ armed' = armed
    BY <1>9 DEF ReleaseJob, ReleaseReconciliation
  <2>3. call'[p][Worker].pc = "idle" /\ Others(p, Worker)
    BY <1>9, <2>1, DoneMoves DEF ReleaseJob
  <2>4. QueueAt(p, o) /\ HasJob(p, o) /\ jobs \in [Op -> Job]
    BY <2>1 DEF HasJob, JournalTypeOK
  <2>5. k = call[p][Worker]
    BY <2>1
  <2>6. /\ jobs'[o].status = ReleaseOutcome(k)
        /\ \A q \in Op \ {o} : jobs'[q] = jobs[q]
    BY <2>1, <2>2, <2>4 DEF QueueAt, ReleasedJob, Job
  <2>7. jobs'[o].status # "RUNNING"
        /\ (ops[o].state = "UNKNOWN" => jobs'[o].status = "PENDING")
    BY <2>1, <2>4, <2>5, <2>6 DEF QueueAt, ReleaseOutcome, Unsettled
  <2> QED
    BY <1>0, <2>1, <2>2, <2>3, <2>5, <2>6, <2>7, QueueByWorker
<1> QED
  BY <1>2, <1>4, <1>5, <1>6, <1>8, <1>9 DEF PassNext

\* The worker keeps the queue.
LEMMA QueueWorker ==
    ASSUME TypedInv, NEW p \in Proc,
           QuietServer(p), \A o \in Op : QueueAt(p, o), WorkerNext(p)
    PROVE  QuietServer(p)' /\ \A o \in Op : QueueAt(p, o)'
<1> USE ServiceFacts DEF TypedInv
<1> DEFINE k == call[p][Worker]
           o == k.op
<1>0. /\ k \in Call /\ (k.pc # "idle" => o \in Op)
      /\ status[p] = "up" /\ UNCHANGED <<status, resuming>>
      /\ jobs \in [Op -> Job]
  BY CallsAtWork, ServingSteps DEF JournalTypeOK
<1>1. ASSUME NEW a \in Op, WorkerClaims(p, a)
      PROVE  QuietServer(p)' /\ \A q \in Op : QueueAt(p, q)'
  <2> DEFINE h == CallAt("claimed", a, jobs'[a].attempts)
  <2>1. h.pc = "claimed" /\ h.op = a
    BY DEF CallAt, IdleCall
  <2>2. /\ call' = [call EXCEPT ![p][Worker] = h] /\ k.pc = "idle"
        /\ ops' = ops /\ armed' = armed
        /\ jobs'[a].status = "RUNNING"
        /\ \A q \in Op \ {a} : jobs'[q] = jobs[q]
    BY <1>0, <1>1 DEF WorkerClaims, ClaimDueReconciliation, At
  <2> HIDE DEF h
  <2>3. call'[p][Worker] = h /\ Others(p, Worker)
    BY <2>2, SetMoves
  <2> QED
    BY <1>0, <2>1, <2>2, <2>3, QueueByWorker
<1>2. CASE WorkerBegins(p)
  <2>1. /\ k.pc = "claimed" /\ o \in Op /\ ApplyCommand(o, BeginCommand)
        /\ Goto(p, Worker, "querying") /\ armed' = armed /\ jobs' = jobs
    BY <1>0, <1>2 DEF WorkerBegins, At, ApplyCommand
  <2>2. /\ call'[p][Worker].pc = "querying" /\ call'[p][Worker].op = o
        /\ Others(p, Worker)
    BY <2>1, GotoMoves
  <2>3. /\ ops[o] \in Row /\ ops'[o] \in Decide(ops[o], BeginCommand)
        /\ \A q \in Op \ {o} : ops'[q] = ops[q]
    BY <2>1, CommandMoves, ServiceCommands
  <2>4. ops'[o].state = "RECONCILING"
    BY <2>3, DecideFlow, ServiceCommands DEF BeginCommand
  <2>5. jobs[o].status = "RUNNING"
    BY <2>1 DEF QueueAt, HasJob
  <2> QED
    BY <1>0, <2>1, <2>2, <2>3, <2>4, <2>5, QueueByWorker
<1>3. CASE WorkerRefused(p)
  <2>1. /\ k.pc = "claimed" /\ o \in Op /\ Goto(p, Worker, "giveback")
        /\ UNCHANGED <<ops, jobs, armed>>
    BY <1>0, <1>3 DEF WorkerRefused, At, Throw
  <2>2. /\ call'[p][Worker].pc = "giveback" /\ call'[p][Worker].op = o
        /\ Others(p, Worker)
    BY <2>1, GotoMoves
  <2>3. jobs[o].status = "RUNNING"
    BY <2>1 DEF QueueAt, HasJob
  <2> QED
    BY <1>0, <2>1, <2>2, <2>3, QueueByWorker
<1>4. CASE GiveBack(p)
  <2>1. /\ k.pc = "giveback" /\ o \in Op /\ ops' = ops /\ armed' = armed
        /\ jobs' = [jobs EXCEPT ![o] = ReleasedJob(jobs[o], "PENDING")]
        /\ Done(p, Worker)
    BY <1>0, <1>4 DEF GiveBack, ReleaseReconciliation, At
  <2>2. call'[p][Worker].pc = "idle" /\ Others(p, Worker)
    BY <2>1, DoneMoves
  <2>3. jobs[o].status = "RUNNING"
    BY <2>1 DEF QueueAt, HasJob
  <2>4. /\ jobs'[o].status = "PENDING"
        /\ \A q \in Op \ {o} : jobs'[q] = jobs[q]
    BY <1>0, <2>1, <2>3 DEF ReleasedJob, Job
  <2> QED
    BY <1>0, <2>1, <2>2, <2>4, QueueByWorker
<1> QED
  BY <1>1, <1>2, <1>3, <1>4 DEF WorkerNext

\* The server itself keeps the queue, if it cannot die or be told to fail.
LEMMA QueueProcess ==
    ASSUME MaxCrashes = 0, FaultLab = FALSE, TypedInv, NEW p \in Proc,
           QuietServer(p), \A o \in Op : QueueAt(p, o), ProcessNext(p)
    PROVE  QuietServer(p)' /\ \A o \in Op : QueueAt(p, o)'
<1> USE DEF TypedInv
<1>0. /\ ops \in [Op -> Row] /\ resuming \in [Proc -> [Op -> ResumeStep]]
      /\ status \in [Proc -> {"down", "resuming", "up"}]
      /\ crashes \in 0 .. MaxCrashes
  BY DEF JournalTypeOK, RestOK
<1>1. ASSUME NEW o \in Op, Confirm(p, o)
      PROVE  QuietServer(p)' /\ \A q \in Op : QueueAt(p, q)'
  <2>1. /\ ops[o] \in Row
        /\ ops'[o] \in Decide(ops[o], [type |-> "CONFIRM_INTENT"])
        /\ (\A q \in Op \ {o} : ops'[q] = ops[q])
    BY <1>1, CommandMoves, ServiceCommands DEF Confirm
  <2>2. ops[o].state = "AWAITING_CONFIRMATION" /\ ops'[o].state = "APPROVED"
    <3>1. ops[o].state = "AWAITING_CONFIRMATION"
      BY <2>1, DecideFlow, ServiceCommands
    <3>2. ops'[o] = [ops[o] EXCEPT !.state = "APPROVED"]
      BY <2>1, <3>1 DEF Decide, DecideOpen, ConfirmIntent, Move, Accept,
         Terminal
    <3> QED
      BY <2>1, <3>1, <3>2 DEF Row
  <2>3. /\ status[p] = "up" /\ UNCHANGED <<call, status, armed, jobs, resuming>>
    BY <1>1 DEF Confirm, ApplyCommand
  <2>4. QuietServer(p)'
    BY <2>3 DEF QuietServer
  <2>5. \A q \in Op : QueueAt(p, q)'
    BY <2>1, <2>2, <2>3 DEF QueueAt, HasJob, Unsettled
  <2> QED
    BY <2>4, <2>5
<1>2. ASSUME NEW o \in Op, Resume(p, o)
      PROVE  FALSE
  BY <1>2 DEF Resume, ResumeDemote, ResumeEnqueue, QuietServer
<1>3. ASSUME NEW b \in BOOLEAN, SetFault(p, b)
      PROVE  FALSE
  BY <1>3 DEF SetFault
<1>4. CASE Start(p)
  <2>1. /\ UNCHANGED <<ops, jobs, call, armed>> /\ status[p] = "down"
        /\ resuming'[p] = [o \in Op |-> ResumeFrom(ops[o].state)]
    BY <1>0, <1>4 DEF Start, ResumeScan, BesidesStartup
  <2>2. \A o \in Op : ops[o].state = "AWAITING_CONFIRMATION"
                      /\ resuming'[p][o] = "no"
    BY <2>1 DEF QuietServer, ResumeFrom
  <2>3. QuietServer(p)'
    BY <2>1, <2>2 DEF QuietServer
  <2>4. \A o \in Op : QueueAt(p, o)'
    BY <2>1 DEF QueueAt, HasJob
  <2> QED
    BY <2>3, <2>4
<1>5. CASE StartServing(p)
  <2>1. UNCHANGED <<ops, jobs, resuming, call, armed>> /\ status'[p] = "up"
    BY <1>0, <1>5 DEF StartServing, BesidesStartup
  <2> QED
    BY <2>1, QueueStill
<1>6. CASE Crash(p)
  BY <1>0, <1>6 DEF Crash
<1> QED
  BY <1>1, <1>2, <1>3, <1>4, <1>5, <1>6 DEF ProcessNext

\* No step loses an unresolved operation from the queue.
LEMMA QueueKept ==
    ASSUME OneServer, MaxCrashes = 0, FaultLab = FALSE, Operators = {}
    PROVE  ServiceInv /\ AttendInv /\ QueueInv /\ [Next]_vars => QueueInv'
<1> SUFFICES ASSUME ServiceInv, AttendInv, QueueInv, [Next]_vars,
                    NEW p \in Proc
             PROVE  QuietServer(p)' /\ \A o \in Op : QueueAt(p, o)'
  BY DEF QueueInv
<1>0. /\ TypedInv /\ QuietServer(p) /\ (\A o \in Op : QueueAt(p, o))
      /\ \A q \in Proc : q = p
  BY DEF ServiceInv, TypedInv, QueueInv, OneServer
<1>1. ASSUME NEW o \in Op,
             VenueNext(o) \/ IntentExpires(o) \/ WindowElapses(o)
      PROVE  QuietServer(p)' /\ \A q \in Op : QueueAt(p, q)'
  <2>1. UNCHANGED <<ops, jobs, resuming, status, armed>>
    BY <1>1, OutsideSteps
  <2>2. \A s \in Slot : /\ call'[p][s].pc = call[p][s].pc
                        /\ call'[p][s].op = call[p][s].op
                        /\ call'[p][s].settled = call[p][s].settled
    BY <1>0, <1>1, VenueCalls
  <2> QED
    BY <1>0, <2>1, <2>2, QueueStill
<1>2. CASE UNCHANGED vars
  BY <1>0, <1>2, QueueStill DEF vars
<1>3. ASSUME \/ \E r \in Requests : RequestNext(p, r)
             \/ \E s \in Slot : PassNext(p, s)
             \/ WorkerNext(p)
             \/ ProcessNext(p)
      PROVE  QuietServer(p)' /\ \A q \in Op : QueueAt(p, q)'
  BY <1>0, <1>3, QueueRequest, QueuePass, QueueWorker, QueueProcess
<1> QED
  BY <1>0, <1>1, <1>2, <1>3 DEF Next

\* The service starts with an empty queue and nothing to put in it.
LEMMA InitialQueue == Init => QueueInv
<1> SUFFICES ASSUME Init, NEW p \in Proc
             PROVE  QuietServer(p) /\ \A o \in Op : QueueAt(p, o)
  BY DEF QueueInv
<1>1. /\ \A s \in Slot : call[p][s].pc = "idle"
      /\ \A o \in Op : /\ ops[o].state = "AWAITING_CONFIRMATION"
                       /\ jobs[o].status = "NONE" /\ resuming[p][o] = "no"
      /\ ~armed[p]
  BY DEF Init, JournalInit, IdleCall, NewRow, NoJob, NotResuming
<1> QED
  BY <1>1, ServiceFacts DEF QuietServer, QueueAt, HasJob

\* An operation left UNKNOWN is in the queue, on its way there, or in the
\* worker's hands, for any number of operations and requests.  The hypotheses
\* are the ways in which the code does lose one: a restart leaves the job of
\* a worker that died RUNNING, an armed fault and an operator's own pass
\* queue nothing.
THEOREM UnresolvedStaysQueued ==
    ASSUME OneServer, MaxCrashes = 0, FaultLab = FALSE, Operators = {}
    PROVE  Spec => []UnresolvedIsQueued
<1>1. QueueInv => UnresolvedIsQueued
  <2> SUFFICES ASSUME QueueInv, NEW o \in Op, ops[o].state = "UNKNOWN",
                      NEW p \in Proc
               PROVE  \/ jobs[o].status = "PENDING"
                      \/ CallsOn(o, {"enqueue", "releasing"}) # {}
                      \/ /\ jobs[o].status = "RUNNING"
                         /\ \E q \in Proc : call[q][Worker].op = o
    BY DEF UnresolvedIsQueued
  <2>1. QueueAt(p, o)
    BY DEF QueueInv
  <2>2. CASE \E r \in Requests : call[p][r].pc = "enqueue"
                                 /\ call[p][r].op = o
    <3>1. PICK r \in Requests : call[p][r].pc = "enqueue" /\ call[p][r].op = o
      BY <2>2
    <3>2. <<p, r>> \in CallsOn(o, {"enqueue", "releasing"})
      BY <3>1, ServiceFacts DEF CallsOn
    <3> QED
      BY <3>2
  <2> QED
    BY <2>1, <2>2 DEF QueueAt, HasJob
<1>2. ServiceInv /\ AttendInv /\ QueueInv /\ [Next]_vars => QueueInv'
  BY QueueKept
<1>3. Spec => [](ServiceInv /\ StartupInv /\ AttendInv)
  BY InFlightAlone
<1> QED
  BY <1>1, <1>2, <1>3, InitialQueue, PTL DEF Spec
=============================================================================
