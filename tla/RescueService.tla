---------------------------- MODULE RescueService ----------------------------
(***************************************************************************)
(* The server of apps/server around one journal: HTTP handlers that        *)
(* confirm, execute and reconcile, the background reconciler, the fault    *)
(* lab, the startup sequence, and the venue at the other end of the wire.  *)
(*                                                                         *)
(* A process runs its handlers as JavaScript does: a handler is atomic up  *)
(* to its next await, so a call is a record of where it waits and what it  *)
(* holds.  Several processes may share the journal file.                   *)
(*                                                                         *)
(* Time is absent.  A reply may be late without bound, a request times out *)
(* whenever it likes, and windowOver[o] says that absenceWindowMs has      *)
(* passed since the first submission of o.                                 *)
(*                                                                         *)
(* Bounds: MaxCrashes, and absents, which saturates at MinAttempts.        *)
(***************************************************************************)
EXTENDS Journal

CONSTANTS
    Requests,          \* the HTTP requests a process serves at the same time
    Operators,         \* those of them that may be POST .../reconcile
    Worker,            \* the background reconciler's own call
    VenueIdOf,         \* the id the venue gives to an operation's order
    FullQuantity,      \* the quantity of every order
    Anomalies,         \* false observations the venue may report to a query
    MalformedReplies,  \* may the venue answer 200 with the JSON body null?
    FaultLab,          \* config.faultLabEnabled
    MaxCrashes         \* how often a process may die

ASSUME ServiceAssumption ==
    /\ Operators \subseteq Requests
    /\ Worker \notin Requests
    /\ VenueIdOf \in [Op -> VenueId]
    /\ FullQuantity \in Nat \ {0}
    /\ 0 .. FullQuantity \subseteq Quantity
    /\ Anomalies \subseteq Observation
    /\ MalformedReplies \in BOOLEAN /\ FaultLab \in BOOLEAN
    /\ MaxCrashes \in Nat

VARIABLES
    confirmed,   \* intents.confirmed_at is set
    expired,     \* intents.expires_at has passed
    windowOver,  \* absenceWindowMs has passed since first_submitted_at
    venue,       \* the order the venue holds for each client order id
    wire,        \* submissions on their way to the venue
    call,        \* per process, what each of its calls is waiting for
    armed,       \* per process, fault.dropNextAck
    status,      \* per process: down, resuming or up
    crashes,     \* crashes so far
    posts,       \* history: how many POST /order left for the operation
    absents      \* history: "no such order" answers recorded

venueVars == <<venue, wire>>
intentVars == <<confirmed, expired>>
historyVars == <<posts, absents>>
vars == <<ops, jobs, resuming, intentVars, windowOver, venueVars, call, armed,
          status, crashes, historyVars>>

-----------------------------------------------------------------------------
(* Calls. *)

Slot == Requests \cup {Worker}

NoReply == [kind |-> "NONE", observation |-> None]

Reply == [kind : {"NONE", "ABSENT", "REJECTED"}, observation : {None}]
            \cup [kind : {"OBSERVED"}, observation : Observation]

\* dispatch:  SUBMITTING is committed and the POST is about to leave
\* placing:   awaiting the POST's response
\* enqueue:   the ambiguity is recorded and its job is about to be queued
\* claimed:   the worker has taken a job
\* querying:  awaiting the GET's response
\* releasing: the outcome is recorded; the balance is read, then the job freed
\* giveback:  the worker's catch block
PC == {"idle", "dispatch", "placing", "enqueue", "claimed", "querying",
       "releasing", "giveback"}

Call == [pc : PC, op : Op \cup {None}, tries : 0 .. MinAttempts,
         answer : Reply, settled : BOOLEAN]

IdleCall == [pc |-> "idle", op |-> None, tries |-> 0, answer |-> NoReply,
             settled |-> FALSE]

At(p, s, pc) == status[p] = "up" /\ call[p][s].pc = pc

CallAt(pc, o, tries) == [IdleCall EXCEPT !.pc = pc, !.op = o, !.tries = tries]

Goto(p, s, pc) == call' = [call EXCEPT ![p][s].pc = pc]

Done(p, s) == call' = [call EXCEPT ![p][s] = IdleCall]

\* An exception leaves an HTTP handler for good and drops the worker into its
\* catch block.
Throw(p, s) == IF s = Worker THEN Goto(p, s, "giveback") ELSE Done(p, s)

VenueOrder == [status : VenueStatus \cup {"NONE"},
               executed : 0 .. FullQuantity]

NoOrder == [status |-> "NONE", executed |-> 0]

Snapshot(o) == [venueOrderId |-> VenueIdOf[o], status |-> venue[o].status,
                executed |-> venue[o].executed]

\* The type invariant: every variable keeps its shape.
ServiceTypeOK ==
    /\ JournalTypeOK
    /\ confirmed \subseteq Op /\ expired \subseteq Op
    /\ windowOver \in [Op -> BOOLEAN]
    /\ venue \in [Op -> VenueOrder] /\ wire \subseteq Op
    /\ call \in [Proc -> [Slot -> Call]]
    /\ armed \in [Proc -> BOOLEAN]
    /\ status \in [Proc -> {"down", "resuming", "up"}]
    /\ crashes \in 0 .. MaxCrashes
    /\ posts \in [Op -> Nat]
    /\ absents \in [Op -> 0 .. MinAttempts]

Init ==
    /\ JournalInit
    /\ confirmed = {} /\ expired = {}
    /\ windowOver = [o \in Op |-> FALSE]
    /\ venue = [o \in Op |-> NoOrder] /\ wire = {}
    /\ call = [p \in Proc |-> [s \in Slot |-> IdleCall]]
    /\ armed = [p \in Proc |-> FALSE]
    /\ status = [p \in Proc |-> "down"]
    /\ crashes = 0
    /\ posts = [o \in Op |-> 0]
    /\ absents = [o \in Op |-> 0]

-----------------------------------------------------------------------------
(* Intents and time. *)

Confirm(p, o) ==
    /\ status[p] = "up"
    /\ ApplyCommand(o, [type |-> "CONFIRM_INTENT"])
    /\ confirmed' = confirmed \cup {o}
    /\ UNCHANGED <<expired, windowOver, venueVars, call, armed, status,
                   crashes, historyVars>>

\* Expiry is read by executeIntent alone, so it matters before dispatch only.
IntentExpires(o) ==
    /\ ops[o].state \in {"AWAITING_CONFIRMATION", "APPROVED"}
    /\ o \notin expired
    /\ expired' = expired \cup {o}
    /\ UNCHANGED <<ops, jobs, resuming, confirmed, windowOver, venueVars,
                   call, armed, status, crashes, historyVars>>

WindowElapses(o) ==
    /\ ops[o].submits > 0 /\ ~windowOver[o]
    /\ windowOver' = [windowOver EXCEPT ![o] = TRUE]
    /\ UNCHANGED <<ops, jobs, resuming, intentVars, venueVars, call, armed,
                   status, crashes, historyVars>>

-----------------------------------------------------------------------------
(* executeIntent. *)

\* Step 1: the checks, then SUBMITTING on disk before anything is sent.
ExecuteIntent(p, r, o) ==
    /\ At(p, r, "idle")
    /\ o \notin expired /\ o \in confirmed
    /\ ApplyCommand(o, [type |-> "BEGIN_SUBMISSION"])
    /\ call' = [call EXCEPT ![p][r] = CallAt("dispatch", o, 0)]
    /\ UNCHANGED <<intentVars, windowOver, venueVars, armed, status, crashes,
                   historyVars>>

\* Step 2: placeOrder.
PlaceOrder(p, r) ==
    LET o == call[p][r].op IN
    /\ At(p, r, "dispatch")
    /\ wire' = wire \cup {o}
    /\ posts' = [posts EXCEPT ![o] = @ + 1]
    /\ Goto(p, r, "placing")
    /\ UNCHANGED <<ops, jobs, resuming, intentVars, windowOver, venue, armed,
                   status, crashes, absents>>

\* The response has arrived, or the request has failed, and no fault is armed.
Hears(p, r) == At(p, r, "placing") /\ ~armed[p]

Learn(p, r, c) ==
    /\ ApplyCommand(call[p][r].op, c)
    /\ UNCHANGED <<intentVars, windowOver, venueVars, armed, status, crashes,
                   historyVars>>

AckCommand(k) == [type |-> "RECORD_ACKNOWLEDGEMENT",
                  observation |-> k.answer.observation]

RecordAck(p, r) ==
    /\ Hears(p, r) /\ call[p][r].answer.kind = "OBSERVED"
    /\ Learn(p, r, AckCommand(call[p][r]))
    /\ Done(p, r)

RecordReject(p, r) ==
    /\ Hears(p, r) /\ call[p][r].answer.kind = "REJECTED"
    /\ Learn(p, r, [type |-> "RECORD_REJECTION"])
    /\ Done(p, r)

AmbiguousCommand == [type |-> "RECORD_AMBIGUOUS_SUBMISSION"]

\* A timeout, a reset, a 5xx, a rate limit or a body nobody can read: possible
\* at any moment, whatever the venue has done with the order.
RecordLost(p, r) ==
    /\ Hears(p, r)
    /\ Learn(p, r, AmbiguousCommand)
    /\ Goto(p, r, "enqueue")

\* A handler that forgets to queue the operation it could not resolve.
QueueNothing(p, r) ==
    /\ At(p, r, "enqueue")
    /\ Done(p, r)
    /\ UNCHANGED <<ops, jobs, resuming, intentVars, windowOver, venueVars,
                   armed, status, crashes, historyVars>>

QueueLost(p, r) ==
    /\ At(p, r, "enqueue")
    /\ EnqueueReconciliation(call[p][r].op)
    /\ Done(p, r)
    /\ UNCHANGED <<intentVars, windowOver, venueVars, armed, status, crashes,
                   historyVars>>

\* Step 3: the armed fault discards the outcome, an ambiguous one included,
\* and the operation is not queued.
FaultDropsAnswer(p, r) ==
    LET o == call[p][r].op IN
    /\ At(p, r, "placing") /\ armed[p]
    /\ armed' = [armed EXCEPT ![p] = FALSE]
    /\ ApplyCommand(o, AmbiguousCommand)
    /\ Done(p, r)
    /\ UNCHANGED <<intentVars, windowOver, venueVars, status, crashes,
                   historyVars>>

\* Whatever was learnt, the journal refuses it: another process has moved the
\* operation out of SUBMITTING, or the venue order id is taken.
PlacementRefused(p, r) ==
    LET k == call[p][r] IN
    /\ At(p, r, "placing")
    /\ \/ Applied(k.op, AmbiguousCommand) = {}
       \/ /\ k.answer.kind = "OBSERVED" /\ ~armed[p]
          /\ Applied(k.op, AckCommand(k)) = {}
    /\ armed' = [armed EXCEPT ![p] = FALSE]
    /\ Done(p, r)
    /\ UNCHANGED <<ops, jobs, resuming, intentVars, windowOver, venueVars,
                   status, crashes, historyVars>>

-----------------------------------------------------------------------------
(* The venue.  A response is a snapshot of the order when it was made. *)

\* The response to the POST, for whichever call still waits for it.
Respond(o, reply) ==
    call' = [p \in Proc |-> [s \in Slot |->
               IF call[p][s].pc = "placing" /\ call[p][s].op = o
               THEN [call[p][s] EXCEPT !.answer = reply]
               ELSE call[p][s]]]

OnTheWireOnly == <<ops, jobs, resuming, intentVars, windowOver, armed, status,
                   crashes, historyVars>>

\* RESULT responses show what became of the order at once: it rests, fills,
\* is closed with or without fills, or is an order with the status REJECTED,
\* which is not a refusal: it has an id, and queries find it.
FirstStatus ==
         {[status |-> s, executed |-> 0] : s \in {"NEW", "REJECTED"}}
    \cup {[status |-> s, executed |-> q] :
             s \in {"EXPIRED", "EXPIRED_IN_MATCH"}, q \in 0 .. FullQuantity - 1}
    \cup {[status |-> IF q = FullQuantity THEN "FILLED" ELSE "PARTIALLY_FILLED",
           executed |-> q] : q \in 1 .. FullQuantity}

VenueAccepts(o) ==
    /\ o \in wire /\ venue[o] = NoOrder
    /\ wire' = wire \ {o}
    /\ \E order \in FirstStatus :
         /\ venue' = [venue EXCEPT ![o] = order]
         /\ Respond(o, [kind |-> "OBSERVED", observation |->
                          [venueOrderId |-> VenueIdOf[o],
                           status |-> order.status,
                           executed |-> order.executed]])
    /\ UNCHANGED OnTheWireOnly

VenueRejects(o) ==
    /\ o \in wire
    /\ wire' = wire \ {o}
    /\ Respond(o, [kind |-> "REJECTED", observation |-> None])
    /\ UNCHANGED venue /\ UNCHANGED OnTheWireOnly

WireDrops(o) ==
    /\ o \in wire
    /\ wire' = wire \ {o}
    /\ UNCHANGED <<venue, call>> /\ UNCHANGED OnTheWireOnly

\* How an open order may go on: fill, close, or wait for a cancellation.
Successors(v) ==
         {[status |-> IF q = FullQuantity THEN "FILLED"
                      ELSE IF v.status = "NEW" THEN "PARTIALLY_FILLED"
                      ELSE v.status,
           executed |-> q] : q \in v.executed + 1 .. FullQuantity}
    \cup {[v EXCEPT !.status = s] : s \in {"CANCELED", "EXPIRED", "EXPIRED_IN_MATCH"}}
    \cup (IF v.status = "PENDING_CANCEL" THEN {}
          ELSE {[v EXCEPT !.status = "PENDING_CANCEL"]})

VenueMoves(o) ==
    /\ venue[o].status \in {"NEW", "PARTIALLY_FILLED", "PENDING_CANCEL"}
    /\ \E v \in Successors(venue[o]) : venue' = [venue EXCEPT ![o] = v]
    /\ UNCHANGED <<wire, call>> /\ UNCHANGED OnTheWireOnly

-----------------------------------------------------------------------------
(* reconcileOnce, called by the API and by the worker. *)

BeginCommand == [type |-> "BEGIN_RECONCILIATION"]

\* POST /v1/operations/:id/reconcile counts this try but does not store it.
ReconcileByHand(p, r, o) ==
    /\ At(p, r, "idle") /\ r \in Operators
    /\ ApplyCommand(o, BeginCommand)
    /\ call' = [call EXCEPT ![p][r] =
                  CallAt("querying", o,
                         AtMost(jobs[o].attempts + 1, MinAttempts))]
    /\ UNCHANGED <<intentVars, windowOver, venueVars, armed, status, crashes,
                   historyVars>>

WorkerClaims(p, o) ==
    /\ At(p, Worker, "idle")
    /\ ClaimDueReconciliation(o)
    /\ call' = [call EXCEPT ![p][Worker] =
                  CallAt("claimed", o, jobs'[o].attempts)]
    /\ UNCHANGED <<intentVars, windowOver, venueVars, armed, status, crashes,
                   historyVars>>

WorkerBegins(p) ==
    /\ At(p, Worker, "claimed")
    /\ ApplyCommand(call[p][Worker].op, BeginCommand)
    /\ Goto(p, Worker, "querying")
    /\ UNCHANGED <<intentVars, windowOver, venueVars, armed, status, crashes,
                   historyVars>>

WorkerRefused(p) ==
    /\ At(p, Worker, "claimed")
    /\ Applied(call[p][Worker].op, BeginCommand) = {}
    /\ Throw(p, Worker)
    /\ UNCHANGED <<ops, jobs, resuming, intentVars, windowOver, venueVars,
                   armed, status, crashes, historyVars>>

Awaits(p, s) == At(p, s, "querying") /\ call[p][s].answer = NoReply

Answer(p, s, reply) ==
    /\ call' = [call EXCEPT ![p][s].answer = reply]
    /\ UNCHANGED <<ops, jobs, resuming, intentVars, windowOver, venueVars,
                   armed, status, crashes, historyVars>>

VenueAnswers(p, s) ==
    LET o == call[p][s].op IN
    /\ Awaits(p, s)
    /\ Answer(p, s, IF venue[o].status = "NONE"
                    THEN [kind |-> "ABSENT", observation |-> None]
                    ELSE [kind |-> "OBSERVED", observation |-> Snapshot(o)])

VenueMisreports(p, s) ==
    /\ Awaits(p, s)
    /\ \E obs \in Anomalies :
         Answer(p, s, [kind |-> "OBSERVED", observation |-> obs])

\* The commands a pass may end with.  The query may fail at any moment, and
\* the window is measured when the answer has arrived.
UnavailableCommand == [type |-> "RECORD_RECONCILIATION_UNAVAILABLE"]

ObservedCommand(k) == [type |-> "RECORD_ORDER_OBSERVATION",
                       observation |-> k.answer.observation]

AbsentCommand(k) ==
    [type |-> "RECORD_ORDER_ABSENT",
     windowExhausted |-> k.tries >= MinAttempts /\ windowOver[k.op]]

\* Is the pass over once the operation is in state s?
Resolved(s) == s \notin {"UNKNOWN", "RECONCILING"}

Conclude(p, s, c) ==
    LET o == call[p][s].op IN
    /\ ApplyCommand(o, c)
    /\ call' = [call EXCEPT ![p][s] =
                  [CallAt("releasing", o, @.tries) EXCEPT
                     !.settled = Resolved(ops'[o].state)]]
    /\ UNCHANGED <<intentVars, windowOver, venueVars, armed, status, crashes,
                   posts>>

RecordObserved(p, s) ==
    /\ At(p, s, "querying") /\ call[p][s].answer.kind = "OBSERVED"
    /\ Conclude(p, s, ObservedCommand(call[p][s]))
    /\ UNCHANGED absents

RecordAbsent(p, s) ==
    LET o == call[p][s].op IN
    /\ At(p, s, "querying") /\ call[p][s].answer.kind = "ABSENT"
    /\ Conclude(p, s, AbsentCommand(call[p][s]))
    /\ absents' = [absents EXCEPT ![o] = AtMost(@ + 1, MinAttempts)]

RecordUnavailable(p, s) ==
    /\ At(p, s, "querying")
    /\ Conclude(p, s, UnavailableCommand)
    /\ UNCHANGED absents

Conclusions(k) ==
    CASE k.answer.kind = "OBSERVED" -> {UnavailableCommand, ObservedCommand(k)}
      [] k.answer.kind = "ABSENT" -> {UnavailableCommand, AbsentCommand(k)}
      [] OTHER -> {UnavailableCommand}

\* The journal refuses the outcome and reconcileOnce throws.
PassRefused(p, s) ==
    LET k == call[p][s] IN
    /\ At(p, s, "querying")
    /\ \E c \in Conclusions(k) : Applied(k.op, c) = {}
    /\ Throw(p, s)
    /\ UNCHANGED <<ops, jobs, resuming, intentVars, windowOver, venueVars,
                   armed, status, crashes, historyVars>>

\* A job released as unfinished whatever the pass found.
ReleaseOutcomeAlwaysPending(k) == "PENDING"

ReleaseOutcome(k) == IF k.settled THEN "SETTLED" ELSE "PENDING"

\* The job's counter starts again with every release.
ReleaseJobAsNew(p, s) ==
    LET k == call[p][s] IN
    /\ At(p, s, "releasing")
    /\ jobs' = [jobs EXCEPT ![k.op] = [status |-> ReleaseOutcome(k),
                                       attempts |-> 0]]
    /\ Done(p, s)
    /\ UNCHANGED <<ops, resuming, intentVars, windowOver, venueVars, armed,
                   status, crashes, historyVars>>

\* The balance is read, which changes no column modelled here, and the job is
\* released by the outcome recorded before that read.
ReleaseJob(p, s) ==
    /\ At(p, s, "releasing")
    /\ ReleaseReconciliation(call[p][s].op, ReleaseOutcome(call[p][s]))
    /\ Done(p, s)
    /\ UNCHANGED <<intentVars, windowOver, venueVars, armed, status, crashes,
                   historyVars>>

GiveBack(p) ==
    /\ At(p, Worker, "giveback")
    /\ ReleaseReconciliation(call[p][Worker].op, "PENDING")
    /\ Done(p, Worker)
    /\ UNCHANGED <<intentVars, windowOver, venueVars, armed, status, crashes,
                   historyVars>>

-----------------------------------------------------------------------------
(* Faults and processes. *)

\* HTTP 200 with the body null makes toObservation throw a TypeError, in a
\* submission and in a query alike.
ReplyUnreadable(p, s) ==
    /\ MalformedReplies
    /\ At(p, s, "placing") \/ At(p, s, "querying")
    /\ Throw(p, s)
    /\ UNCHANGED <<ops, jobs, resuming, intentVars, windowOver, venueVars,
                   armed, status, crashes, historyVars>>

\* POST and DELETE /v1/faults/drop-ack.
SetFault(p, b) ==
    /\ FaultLab /\ status[p] = "up" /\ armed[p] # b
    /\ armed' = [armed EXCEPT ![p] = b]
    /\ UNCHANGED <<ops, jobs, resuming, intentVars, windowOver, venueVars,
                   call, status, crashes, historyVars>>

\* A crash, or the SIGTERM handler, which waits for no worker.
Crash(p) ==
    /\ status[p] # "down" /\ crashes < MaxCrashes
    /\ crashes' = crashes + 1
    /\ status' = [status EXCEPT ![p] = "down"]
    /\ call' = [call EXCEPT ![p] = [s \in Slot |-> IdleCall]]
    /\ armed' = [armed EXCEPT ![p] = FALSE]
    /\ resuming' = [resuming EXCEPT ![p] = NotResuming]
    /\ UNCHANGED <<ops, jobs, intentVars, windowOver, venueVars, historyVars>>

BesidesStartup == <<intentVars, windowOver, venueVars, call, armed, crashes,
                    historyVars>>

\* main: resume, then start the worker and listen.
Start(p) ==
    /\ status[p] = "down"
    /\ ResumeScan(p)
    /\ status' = [status EXCEPT ![p] = "resuming"]
    /\ UNCHANGED BesidesStartup

Resume(p, o) ==
    /\ status[p] = "resuming"
    /\ ResumeDemote(p, o) \/ ResumeEnqueue(p, o)
    /\ UNCHANGED status /\ UNCHANGED BesidesStartup

StartServing(p) ==
    /\ status[p] = "resuming" /\ resuming[p] = NotResuming
    /\ status' = [status EXCEPT ![p] = "up"]
    /\ UNCHANGED <<ops, jobs, resuming>> /\ UNCHANGED BesidesStartup

-----------------------------------------------------------------------------
RequestNext(p, r) ==
    \/ \E o \in Op : ExecuteIntent(p, r, o) \/ ReconcileByHand(p, r, o)
    \/ PlaceOrder(p, r)
    \/ RecordAck(p, r) \/ RecordReject(p, r) \/ RecordLost(p, r)
    \/ QueueLost(p, r) \/ FaultDropsAnswer(p, r) \/ PlacementRefused(p, r)

PassNext(p, s) ==
    \/ VenueAnswers(p, s) \/ VenueMisreports(p, s)
    \/ RecordObserved(p, s) \/ RecordAbsent(p, s) \/ RecordUnavailable(p, s)
    \/ PassRefused(p, s) \/ ReleaseJob(p, s) \/ ReplyUnreadable(p, s)

WorkerNext(p) ==
    \/ \E o \in Op : WorkerClaims(p, o)
    \/ WorkerBegins(p) \/ WorkerRefused(p) \/ GiveBack(p)

ProcessNext(p) ==
    \/ \E o \in Op : Confirm(p, o) \/ Resume(p, o)
    \/ \E b \in BOOLEAN : SetFault(p, b)
    \/ Start(p) \/ StartServing(p) \/ Crash(p)

VenueNext(o) ==
    VenueAccepts(o) \/ VenueRejects(o) \/ WireDrops(o) \/ VenueMoves(o)

Next ==
    \/ \E p \in Proc :
         \/ \E r \in Requests : RequestNext(p, r)
         \/ \E s \in Slot : PassNext(p, s)
         \/ WorkerNext(p)
         \/ ProcessNext(p)
    \/ \E o \in Op : VenueNext(o) \/ IntentExpires(o) \/ WindowElapses(o)

Spec == Init /\ [][Next]_vars
-----------------------------------------------------------------------------
(* Fairness, for the liveness properties only.  A process that was started *)
(* gets through its startup; every call ends, by its timeout at the latest *)
(* (client.ts aborts the request); the worker ticks for ever and takes the *)
(* job that has been due longest, so no due job is passed over for ever;   *)
(* and a venue that is asked again and again is heard again and again.     *)
(* Nobody is obliged to confirm, execute, reconcile or crash, and the      *)
(* venue is never obliged to fill an order.                                *)

RequestProgress(p, r) ==
    PlaceOrder(p, r) \/ RecordAck(p, r) \/ RecordReject(p, r)
        \/ RecordLost(p, r) \/ QueueLost(p, r) \/ FaultDropsAnswer(p, r)
        \/ PlacementRefused(p, r)

PassProgress(p, s) ==
    RecordObserved(p, s) \/ RecordAbsent(p, s) \/ RecordUnavailable(p, s)
        \/ PassRefused(p, s) \/ ReleaseJob(p, s)

WorkerProgress(p) ==
    WorkerBegins(p) \/ WorkerRefused(p) \/ GiveBack(p)
        \/ PassProgress(p, Worker)

Fairness ==
    /\ \A p \in Proc :
         /\ WF_vars(Start(p) \/ StartServing(p) \/ \E o \in Op : Resume(p, o))
         /\ \A r \in Requests : WF_vars(RequestProgress(p, r))
                                    /\ WF_vars(PassProgress(p, r))
         /\ WF_vars(WorkerProgress(p))
         /\ \A o \in Op : SF_vars(WorkerClaims(p, o))
         /\ \A o \in Op : SF_vars(call[p][Worker].op = o
                                     /\ VenueAnswers(p, Worker))
         /\ \A o \in Op : SF_vars(call[p][Worker].op = o
                                     /\ (RecordObserved(p, Worker)
                                           \/ RecordAbsent(p, Worker)))
    /\ \A o \in Op : WF_vars(WindowElapses(o))

FairSpec == Spec /\ Fairness

-----------------------------------------------------------------------------
(* Properties of the service. *)

CallsOn(o, pcs) == {ps \in Proc \X Slot : /\ call[ps[1]][ps[2]].op = o
                                          /\ call[ps[1]][ps[2]].pc \in pcs}

\* At most one POST ever leaves for an operation, whatever the requests,
\* processes and restarts do, and it leaves only for a confirmed intent whose
\* dispatch is already recorded in the journal (executeIntent, steps 1 and 2).
OneDurableDispatch ==
    \A o \in Op :
        /\ posts[o] <= 1
        /\ posts[o] = 1 => /\ ops[o].submits = 1 /\ o \in confirmed
                           /\ ops[o].state \notin
                                {"AWAITING_CONFIRMATION", "APPROVED"}

\* What the venue says settles an operation in one of these states: an order
\* that ended, or, without an order id, a refusal to make one.
HeardVerdict == {"FILLED", "CANCELLED", "EXPIRED", "REJECTED"}

SettledByOrder(row) == row.state \in HeardVerdict /\ row.venueOrderId # None
SettledByRefusal(row) == row.state = "REJECTED" /\ row.venueOrderId = None

\* An operation settled by an observation or a rejection is settled as the
\* venue settled it, with the venue's quantity: a lost answer, a timeout or a
\* late reply never settles it otherwise (classifySubmission, STATUS_TO_STATE).
SettledTruth ==
    \A o \in Op : ops[o].state \in HeardVerdict =>
        \/ /\ SettledByOrder(ops[o])
           /\ venue[o] # NoOrder
           /\ ops[o].state = StatusToState[venue[o].status]
           /\ ops[o].executed = venue[o].executed
        \/ /\ SettledByRefusal(ops[o])
           /\ venue[o] = NoOrder /\ o \notin wire

\* The journal never claims an order or a fill the venue does not have.
NeverAheadOfVenue ==
    \A o \in Op :
        /\ ops[o].executed <= venue[o].executed
        /\ ops[o].venueOrderId # None => /\ ops[o].venueOrderId = VenueIdOf[o]
                                         /\ venue[o] # NoOrder

\* While the venue tells the truth and one process holds the journal, no
\* interleaving of passes makes an operation look contradictory
\* (detectContradiction).
NoFalseAlarm == \A o \in Op : ops[o].state # "MANUAL_REVIEW"

\* An operation whose submission or query is in flight has exactly one call
\* waiting for the answer, so it is never stranded in a state that refuses
\* every command of the console, and never queried twice at once.
InFlightAttended ==
    \A o \in Op :
        (\E p \in Proc : status[p] = "up") =>
            /\ ops[o].state = "SUBMITTING" =>
                 Cardinality(CallsOn(o, {"dispatch", "placing"})) = 1
            /\ ops[o].state = "RECONCILING" =>
                 Cardinality(CallsOn(o, {"querying"})) = 1

\* Once settled, an operation's row never changes again (decide).
SettledIsFinal ==
    [][\A o \in Op : ops[o].state \in Terminal => ops'[o] = ops[o]]_vars

\* An operation left UNKNOWN is in the queue, or on its way there, or in the
\* hands of the worker (executeIntent step 4, drainReconciliationQueue).
UnresolvedIsQueued ==
    \A o \in Op :
        ops[o].state = "UNKNOWN" /\ (\E p \in Proc : status[p] = "up") =>
            \/ jobs[o].status = "PENDING"
            \/ CallsOn(o, {"enqueue", "releasing"}) # {}
            \/ /\ jobs[o].status = "RUNNING"
               /\ \E p \in Proc : call[p][Worker].op = o

\* Absence is settled by at least MinAttempts answers saying that the order
\* does not exist, not by one.
AbsenceRepeated ==
    \A o \in Op : ops[o].state = "NOT_FOUND_SAFE" => absents[o] >= MinAttempts

\* An unresolved operation is eventually resolved by the worker alone.
UnknownResolves ==
    \A o \in Op : (ops[o].state = "UNKNOWN") ~> Resolved(ops[o].state)

\* A queued job is eventually settled: the worker does not chew on it for ever.
JobsSettle ==
    \A o \in Op : (jobs[o].status = "PENDING") ~> (jobs[o].status = "SETTLED")
=============================================================================
