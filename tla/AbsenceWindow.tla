---------------------------- MODULE AbsenceWindow ----------------------------
(***************************************************************************)
(* One submission in real time: when may "no such order" be believed?      *)
(* The operation's row is moved by decide; the clock, the request timeout, *)
(* recvWindow and the absence window are numbers, and the venue may accept *)
(* the order as long as its signed timestamp is recent enough, also after  *)
(* the client has given up, crashed or been overtaken by another process.  *)
(*                                                                         *)
(* A query is answered at one moment and its answer recorded at another.   *)
(* Several passes overlap when a starting process puts an operation that   *)
(* is being reconciled back to UNKNOWN, and a slow one may do so even when *)
(* the operation has been settled since it was read.                       *)
(*                                                                         *)
(* Bound: MaxTime.                                                         *)
(***************************************************************************)
EXTENDS OrderMachine, VenueReplies

CONSTANTS
    RecvWindow,   \* config.binance.recvWindowMs
    Timeout,      \* config.binance.timeoutMs
    Window,       \* config.absenceWindowMs
    MinAttempts,  \* config.absenceMinAttempts
    MaxCommit,    \* from the commit of SUBMITTING to the signing of the POST
    Lag,          \* clock difference, and the venue's own processing
    Query,        \* the passes that may be under way
    Orders,       \* what the venue may say of the order it has accepted
    MaxTime

ASSUME TimesAssumption ==
    /\ {RecvWindow, Timeout, Window, MaxCommit, Lag, MaxTime} \subseteq Nat
    /\ MinAttempts \in Nat \ {0}
    /\ Orders \subseteq Observation

\* What the defaults satisfy (60000 > MaxCommit + 5000 + Lag + 10000) and the
\* configuration schema does not demand.
ASSUME WindowAssumption == Window > MaxCommit + RecvWindow + Lag + Timeout

VARIABLES
    now,       \* the wall clock
    row,       \* the operation
    stamped,   \* operations.first_submitted_at
    attempts,  \* reconciliation_jobs.attempts, up to MinAttempts
    call,      \* executeIntent: no, committed, placing
    signed,    \* the timestamp parameter of the POST
    post,      \* the POST: unsent, flying, accepted, refused
    query      \* per pass: when it was sent, its try, the answer received

vars == <<now, row, stamped, attempts, call, signed, post, query>>

-----------------------------------------------------------------------------
NoQuery == [sentAt |-> None, tries |-> 0, answer |-> None]

Verdict == {"OBSERVED", "ABSENT", "UNAVAILABLE", "THROWS"}

QueryState == [sentAt : Nat \cup {None}, tries : 0 .. MinAttempts,
               answer : Verdict \cup {None}]

Active(q) == query[q].sentAt # None

\* The type invariant: the shapes, and no request outlives its timeout.
AbsenceTypeOK ==
    /\ now \in Nat /\ stamped \in Nat /\ signed \in Nat
    /\ row \in Row
    /\ attempts \in 0 .. MinAttempts
    /\ call \in {"no", "committed", "placing"}
    /\ post \in {"unsent", "flying", "accepted", "refused"}
    /\ query \in [Query -> QueryState]
    /\ call = "placing" => now <= signed + Timeout
    /\ \A q \in Query : Active(q) => now <= query[q].sentAt + Timeout

Init ==
    /\ now = 0 /\ stamped = 0 /\ signed = 0 /\ attempts = 0
    /\ row = [NewRow EXCEPT !.state = "APPROVED"]
    /\ call = "no" /\ post = "unsent"
    /\ query = [q \in Query |-> NoQuery]

-----------------------------------------------------------------------------
(* Time passes until something is due at the latest.                       *)

\* No abort timer.
DueNever(since, delay) == FALSE

Due(since, delay) == now >= since + delay

Tick ==
    /\ now < MaxTime
    /\ call = "committed" => ~Due(stamped, MaxCommit)
    /\ call = "placing" => ~Due(signed, Timeout)
    /\ \A q \in Query : Active(q) => ~Due(query[q].sentAt, Timeout)
    /\ now' = now + 1
    /\ UNCHANGED <<row, stamped, attempts, call, signed, post, query>>

-----------------------------------------------------------------------------
(* executeIntent. *)

Apply(c) == \E next \in Decide(row, c) : row' = next

\* The command is accepted, or the journal throws and leaves the row alone.
ApplyOrThrow(c) == Apply(c) \/ (Decide(row, c) = {} /\ UNCHANGED row)

BeginDispatch ==
    /\ Apply([type |-> "BEGIN_SUBMISSION"])
    /\ stamped' = now
    /\ call' = "committed"
    /\ UNCHANGED <<now, attempts, signed, post, query>>

SignAndSend ==
    /\ call = "committed"
    /\ call' = "placing" /\ signed' = now /\ post' = "flying"
    /\ UNCHANGED <<now, row, stamped, attempts, query>>

\* What each classification may have executeIntent record.
Recorded(verdict) ==
    CASE verdict = "ACKNOWLEDGED" -> [type : {"RECORD_ACKNOWLEDGEMENT"},
                                      observation : Orders]
      [] verdict = "REJECTED" -> [type : {"RECORD_REJECTION"}]
      [] verdict = "AMBIGUOUS" -> [type : {"RECORD_AMBIGUOUS_SUBMISSION"}]

EndCall(verdict) ==
    /\ call' = "no"
    /\ IF verdict = "THROWS" THEN UNCHANGED row
                             ELSE \E c \in Recorded(verdict) : ApplyOrThrow(c)
    /\ UNCHANGED <<now, stamped, attempts, signed, post, query>>

PostAnswered ==
    /\ call = "placing"
    /\ \E r \in RawResponse :
         /\ HonestToSubmission(r, post = "accepted", post = "refused")
         /\ EndCall(ClassifySubmission(r))

\* A timeout, a reset, no connection.
TransportFails == call = "placing" /\ EndCall("AMBIGUOUS")

\* The process dies before or after sending.
CallDies ==
    /\ call # "no"
    /\ call' = "no"
    /\ UNCHANGED <<now, row, stamped, attempts, signed, post, query>>

-----------------------------------------------------------------------------
(* The venue. *)

Acceptable == post = "flying" /\ now <= signed + RecvWindow + Lag

VenueAccepts ==
    /\ Acceptable
    /\ post' = "accepted"
    /\ UNCHANGED <<now, row, stamped, attempts, call, signed, query>>

VenueRefuses ==
    /\ post = "flying"
    /\ post' = "refused"
    /\ UNCHANGED <<now, row, stamped, attempts, call, signed, query>>

-----------------------------------------------------------------------------
(* Restart and reconciliation. *)

\* The loop of a starting process, while the others go on.  It had read the
\* row as SUBMITTING or RECONCILING, and the row may have become anything since.
Demote ==
    /\ row.submits > 0
    /\ row' = Demoted(row)
    /\ UNCHANGED <<now, stamped, attempts, call, signed, post, query>>

Tries == IF attempts < MinAttempts THEN attempts + 1 ELSE MinAttempts

\* By the worker, which has counted the attempt, or by hand.
BeginQuery(q, byHand) ==
    /\ ~Active(q)
    /\ Apply([type |-> "BEGIN_RECONCILIATION"])
    /\ attempts' = IF byHand THEN attempts ELSE Tries
    /\ query' = [query EXCEPT ![q] = [sentAt |-> now, tries |-> Tries,
                                      answer |-> None]]
    /\ UNCHANGED <<now, stamped, call, signed, post>>

\* The worker counts the attempt when it claims the job, so also when the
\* operation then refuses to be queried.
ClaimInVain ==
    /\ row.submits > 0
    /\ Decide(row, [type |-> "BEGIN_RECONCILIATION"]) = {}
    /\ attempts' = Tries
    /\ UNCHANGED <<now, row, stamped, call, signed, post, query>>

Answered(q, verdict) ==
    /\ Active(q) /\ query[q].answer = None
    /\ query' = [query EXCEPT ![q].answer = verdict]
    /\ UNCHANGED <<now, row, stamped, attempts, call, signed, post>>

VenueAnswers(q) ==
    \E r \in RawResponse : /\ HonestToQuery(r, post = "accepted")
                           /\ Answered(q, ClassifyStatus(r))

QueryFails(q) == Answered(q, "UNAVAILABLE")

\* The tries alone.
ExhaustedByTries(k) == k.tries >= MinAttempts

\* elapsedMs is measured when the answer is recorded.
WindowExhausted(k) == k.tries >= MinAttempts /\ now - stamped >= Window

Conclusions(k) ==
    CASE k.answer = "OBSERVED" -> [type : {"RECORD_ORDER_OBSERVATION"},
                                   observation : Orders]
      [] k.answer = "ABSENT" -> [type : {"RECORD_ORDER_ABSENT"},
                                 windowExhausted : {WindowExhausted(k)}]
      [] k.answer = "UNAVAILABLE" ->
            [type : {"RECORD_RECONCILIATION_UNAVAILABLE"}]

\* The pass ends; one that throws leaves the row alone.
Conclude(q) ==
    /\ query[q].answer # None
    /\ query' = [query EXCEPT ![q] = NoQuery]
    /\ IF query[q].answer = "THROWS"
       THEN UNCHANGED row
       ELSE \E c \in Conclusions(query[q]) : ApplyOrThrow(c)
    /\ UNCHANGED <<now, stamped, attempts, call, signed, post>>

QueryDies(q) ==
    /\ Active(q)
    /\ query' = [query EXCEPT ![q] = NoQuery]
    /\ UNCHANGED <<now, row, stamped, attempts, call, signed, post>>

-----------------------------------------------------------------------------
Next ==
    \/ Tick
    \/ BeginDispatch \/ SignAndSend
    \/ PostAnswered \/ TransportFails \/ CallDies
    \/ VenueAccepts \/ VenueRefuses
    \/ Demote \/ ClaimInVain
    \/ \E q \in Query :
         \/ \E byHand \in BOOLEAN : BeginQuery(q, byHand)
         \/ VenueAnswers(q) \/ QueryFails(q) \/ Conclude(q) \/ QueryDies(q)

AbsenceSpec == Init /\ [][Next]_vars

-----------------------------------------------------------------------------
\* An operation settled as absent has no order at the venue and never will:
\* none is held there, none is on the way in time, and none is about to be
\* sent (absenceWindowMs against timeoutMs and recvWindowMs).
AbsenceIsFinal ==
    row.state = "NOT_FOUND_SAFE" =>
        post # "accepted" /\ ~Acceptable /\ call # "committed"

\* An operation settled as rejected was refused by the venue itself, or is an
\* order the venue has made and calls REJECTED: no proxy's error page, rate
\* limit, 5xx or -1007 settles it, and no answer to an earlier moment does
\* (classifySubmission, toObservation).
RefusalIsVenues ==
    row.state = "REJECTED" =>
        post = IF row.venueOrderId = None THEN "refused" ELSE "accepted"
=============================================================================
