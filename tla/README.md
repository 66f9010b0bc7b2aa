# OrderRescue in TLA+

OrderRescue places orders on an exchange through a server that may lose the answer,
crash, or be asked twice, and promises that an economic decision is dispatched at
most once, that what it says about an order is what the exchange did, and that the
record of it all cannot be altered unnoticed. This directory models the parts of it
that keep those promises, checks them with TLC and proves the core ones with TLAPS.

Paths below are relative to the repository's root.

## Inventory

| Part | Code | State it keeps | Operations | Hard because | Correct when |
|---|---|---|---|---|---|
| Domain state machine | `packages/domain/src/machine.ts`, `states.ts` | none (pure) | `decide`, `retryBlockReason`, `allowedActions` | twelve commands by fifteen states; three tables that must agree | a row is authorised once; absence needs a clean row; fills and ids are never lost |
| Exact decimals | `decimal.ts` | none (pure) | parse, compare, multiply, format | numbers of any length at any scale | exact, to the last digit |
| Intent identity | `canonical.ts`, `schemas.ts`, `createIntent` | `intents` | create, reuse, conflict | retries of a key; the same trade written differently; a retry with another cap | one dispatch per key; the answer is for the trade that was asked for |
| Journal: operations | `packages/journal/src/journal.ts`, `schema.sql` | `operations` | `applyCommand`, `applyCommandWithin` | several processes on one file | one transaction per command; ids unique |
| Journal: queue | same | `reconciliation_jobs` | enqueue, claim, release | a claim outlives its process | what is unresolved is queued |
| Journal: recovery | `resumeUnresolvedOperations` | loop over rows read before | scan, demote, enqueue | others write between scan and update | nothing is resubmitted, nothing settled is moved |
| Journal: evidence | `appendEvidence`, `verifyChain`, `export.ts`, `redact.ts` | `evidence_events` | append, verify, export | two appends in a transaction, several writers, a damaged file, startup that writes before it verifies | what verifies is what was written |
| Execution service | `apps/server/src/service.ts` | fault flag, timer, filter cache | `createIntent`, `executeIntent`, `reconcileOnce`, the worker | every `await` is a place to crash or to be overtaken | see the properties below |
| HTTP API | `apps/server/src/api.ts` | none | intents, confirm, execute, reconcile, faults, export | concurrent requests, of a person and of an agent | as above |
| Process | `apps/server/src/main.ts` | up or not | resume, verify, serve, stop | order of startup; stop does not wait | recovery precedes service |
| Binance adapter | `packages/adapter-binance/src` | none | `placeOrder`, `getOrderByClientOrderId` | lost, late, unreadable answers, proxies | what is not clear is ambiguous |
| Binance (external) | | order book | accept, refuse, fill, close, answer | independent of us | assumed, see below |
| Console | `apps/console/src` | what is selected, displayed, pending | select, poll, submit, press | answers out of order; answers that never come | the buttons act on what is displayed; no doubt leads to a second dispatch |
| Command line tools | `apps/server/src/cli` | none | `verify-chain`, demo, probe | | success means intact |
| Configuration | `apps/server/src/config.ts` | none | parse | four times that must fit together | absence is never believed too early |

How they interact: an HTTP handler or the worker reads and writes the journal in
short synchronous transactions (`BEGIN IMMEDIATE`), then awaits the adapter, then
writes again. The journal file is the only state that processes share. At start
a process runs the resume loop, then verifies the chain, before it serves. The
venue is reached by the client order id written when the intent was created. The
console polls one operation and sends one request at a time; an agent uses the
same API beside it.

The hazards (interleavings of handlers, of the worker and of other processes;
stale reads; a crash between two transactions; lost and late answers; attempts
that count failures; the queue; the clocks; the chain) are listed with their lines
in `PROJECT.json`.

## Modules

| Module | Models | Notes |
|---|---|---|
| `OrderMachine` | `decide` and its tables | Pure. A handler is an operator that returns the set of rows that may follow: one, or none where the code throws. |
| `Journal` | operations, queue, resume loop | One action per write transaction. `JournalSpec` is the *most general client*: any command, any time. |
| `RescueService` | handlers, worker, fault lab, startup, crashes, venue, wire | Extends `Journal`; composes it with the processes and the venue. |
| `EconomicAction` | what the system promises of a decision | Abstract: no journal, request, query or process. |
| `ServiceRefinement` | the refinement mapping | `RescueService` implements `EconomicAction`. |
| `Decimals` | exact decimals | Pure, recursive functions over digit sequences, with the reference meaning `Units`: what the digits say, counted in units of a place. |
| `IntentRegistry` | `POST /v1/intents` | Extends `OrderMachine` and `Decimals`. |
| `Console` | the operator's page, the wire to the server, an agent | Extends `IntentRegistry`. |
| `EvidenceChain` | chain, verification, export, damage | Stands alone: events are opaque to it. |
| `VenueReplies` | classification of raw responses | Pure, with what an honest venue may answer. |
| `AbsenceWindow` | one submission in real time | Composes `OrderMachine`, `VenueReplies`, a clock and a venue that may be late. |
| `JournalProofs` | theorems about `Journal` | any client |
| `ServiceProofs` | theorems about `RescueService`, and of the journal against the venue | any number of servers; extends `JournalProofs` |
| `ServerProofs` | theorems for one server on the journal | extends `ServiceProofs` |
| `RefinementProofs` | `RescueService` implements `EconomicAction` | one server, an honest venue; extends `ServerProofs` and `ServiceRefinement` |
| `ChainProofs` | theorems about `EvidenceChain` | |
| `DecimalProofs` | comparison and multiplication are exact | amounts of any length |
| `ConsoleProofs` | theorems about `Console` and `IntentRegistry` | extends `DecimalProofs` |
| `AbsenceProofs` | theorems about `AbsenceWindow` | |
| `MC*` | constants for TLC | |

The product of all of these is out of reach, so the system is cut where its parts
meet in few values. `Console` meets the service in the operation's row alone: there
the service may learn anything it can record of what was dispatched
(`ServiceLearns`: every command but a person's and the two that no route sends), and
a server may start and put the row back to UNKNOWN (`ServerRestarts`).
`RescueService` has no clock: the absence window may elapse, a request may time out
and an intent may expire at any moment after it may begin to. What only a clock can
decide, whether "no such order" may be believed, is `AbsenceWindow`. The evidence
chain reads nothing of what it records.

`JournalSpec` is also an abstract specification of the server: `RescueService`
implements it (theorem `ServiceImplementsJournal`; property `JournalSpec` of run
`service_liveness`), so what is proved of every client of the journal is
inherited by the service. `EconomicAction` is the other one: it says what
the service together with the venue does to a decision.

### State and actions against the code

Journal and service:

* `ops[o]` is a row of `operations` reduced to what decisions read: `state`,
  `venueOrderId`, `executed`, `submits`. `state_version` is left out: the row is
  read and written in one `BEGIN IMMEDIATE` transaction, so its guard never
  fails. The row of an intent's operation is there from the start; how intents
  are created is `IntentRegistry`'s.
* `jobs[o]` is the row of `reconciliation_jobs`; `attempts` saturates at
  `MinAttempts`, the only value it is compared with; `next_attempt_at` is left
  open, so a PENDING job may be due at any moment.
* `resuming[p]` holds, per row read by the startup `SELECT`, which of its two
  transactions are still due. The demoting `UPDATE` in the code re-reads only the
  version and writes `UNKNOWN` whatever the state; so does `ResumeDemote`.
* `call[p][s]` is a pending handler: `s` is a request or the worker; `pc` says
  which `await`, or which gap between two transactions, it is in. `dispatch` and
  `enqueue`, `claimed`, `releasing` and `giveback` are gaps with no `await` in
  the code; in one process nothing else runs there, but another process may, and
  a crash may. The model lets the process's own other calls run there too, which
  only adds behaviours.
* `executeIntent` is `ExecuteIntent` (checks and the `SUBMITTING` commit),
  `PlaceOrder` (the POST leaves), then one of `RecordAck`, `RecordReject`,
  `RecordLost` followed by `QueueLost`, `FaultDropsAnswer`, `PlacementRefused`
  (the journal throws) and `ReplyUnreadable` (the adapter throws).
* `reconcileOnce` is `ReconcileByHand` or `WorkerClaims` and `WorkerBegins`, the
  answer (`VenueAnswers`, `VenueMisreports`), then `RecordObserved`,
  `RecordAbsent` or `RecordUnavailable`, and `ReleaseJob`. A throw ends a request
  and sends the worker to its `catch` (`GiveBack`).
* `Crash` also stands for SIGTERM, whose handler does not wait for the worker.
* The venue holds one order per client order id. A submission on the wire is
  accepted, refused with an error envelope, or lost. An order may be made
  and closed at once (filled in whole or part, expired, REJECTED) or rest, fill in
  steps, be cancelled or expire. The answer to a query is a snapshot that may be stale
  when it is recorded. A submission's answer may come after the caller gave up.

Intents and console:

* An intent and its operation are one element of `intents`. A trade stands for the
  economic fields of a request, one name for each way of writing them, and the
  digest is injective over the names: the code digests the strings as they came,
  so `"1"` and `"1.0"` under one key are a conflict, on the safe side.
* `Create` is `createIntent` as one step. The service has no `await` between the
  checks and the transaction that reads the key; symbol filters and expiry
  refuse a request without touching anything (`Unhandled`).
* `selected`, `detail` and `polls` are the React state and the fetches of the
  polling effect; `awaiting` is the busy flag, `wire` the requests the server has
  not yet handled, `reply` the answer on the way back. `GiveUp` is the network
  error that the page shows as DISCONNECTED. The request may still be handled later.
* `Press` sends what the *displayed* answer offers, which may be old: a poll's
  answer carries the buttons that `allowedActions` names (`Offers`), and the console
  reads nothing else of it.
* `TooSmall` are the decimals that the schema's `Number(v) > 0` takes for zero
  although they are not; which they are is a matter of floating point, and the
  theorems hold for any set of them.

Evidence:

* `table` is `evidence_events` by id, with the AUTOINCREMENT counter. As in
  the code, the sequence number hashed is `MAX(sequence) + 1`, not the id.
* `Commit` appends the one or two events of a command; a rolled back
  transaction leaves no trace. `ResumeWrites` and `StartupCheck` are the
  startup's order: write, then verify.
* `BeginExport` and `EndExport` are the two reads of an export. The damages are
  the three the repository's README names.

Time:

* `now` is one clock; `Lag` bounds what the venue's clock and its own
  processing add. `Tick` is disabled while an abort timer is due, which is what
  `client.ts`'s `AbortController` with its `setTimeout` does, and while a committed dispatch has
  waited `MaxCommit` for its signature.
* `post` is the POST at the venue, which may take it until `RecvWindow + Lag`
  after its timestamp, whether or not anyone still waits. `query[q]` is a pass:
  its answer is given at one moment and recorded at another. The worker counts
  its attempt when it claims the job, so also when the operation then refuses to be
  queried (`ClaimInVain`).
* `Demote` is the loop of a starting process that has read the row earlier: it
  writes UNKNOWN whatever the row has become since, settled rows included.
* The venue's order is any of `Orders`, and the row takes over whatever status it is
  reported with; REJECTED is the one that touches a property.
* Every raw response in `RawResponse` that `HonestToSubmission` and
  `HonestToQuery` allow may come, so a proxy may say anything in the venue's
  place that does not carry the venue's own signature of a refusal or of absence.

### Assumptions about the environment

SQLite commits are durable and `BEGIN IMMEDIATE` serialises writers. The venue
never holds two orders under one client order id, never reports an id it did not
give to the order except where a run allows false reports, and refuses an order
only when it does not hold it. sha256 has no collisions and whoever damages the
file does not recompute hashes.

## Runs

| Run | Instance | Shows |
|---|---|---|
| `journal_any_client` | 2 operations, 1 process, 1 venue id for both, quantities 0 and 1 | type correctness, single authorisation, absence without trace, agreement of the tables; evidence never shrinks; only a resume loop moves a settled row |
| `service_one_process` | 1 process, 2 requests that may execute or reconcile, worker, fault lab, 1 crash, orders of quantity 2 that end in every status the venue has | at most one POST, durable before it leaves; settled means settled as at the venue; never ahead of the venue; no false alarm; every operation in flight is attended to; settled is final; the whole implements `EconomicAction` |
| `service_two_processes` | 2 processes, 2 crashes, unreadable replies, false reports | one POST across processes and restarts; evidence only grows |
| `service_liveness` | 1 process, 2 requests, false reports, fairness | UNKNOWN is queued; it is resolved; jobs settle; the service implements `JournalSpec` |
| `console_intents` | 6 trades (two of equal worth, one sized in quote and one in base, two that the schema refuses: zero, and one its floating point check takes for zero), 3 caps at the boundaries, 2 intents, 2 clicks, 2 polls, an agent with one key that works on the first intent, a service that learns anything and restarts at any time | one dispatch per key; answers and conflicts are right; caps exact where the worth of an order is known beforehand; no late answer over the selected operation |
| `evidence_chain` | 2 processes, 3 events, 2 damages, payloads with and without a secret | an undamaged file verifies; what counts as verified is genuine; a loss written over is seen; an export is covered by its verdict |
| `absence_window` | window 7, commit 1, recvWindow 2, lag 1, timeout 2, 2 overlapping passes, restarts at any time, an order that is FILLED or REJECTED, clock to 10 | absence is the venue's last word; what is settled as rejected was refused by the venue or is an order it has made and calls REJECTED |

Five runs are expected to find a violation; they are the disagreements between
the code and what it says of itself (see *Findings*).

Bounds. One operation is used in the service runs, where operations share only
the worker, which handles one at a time (with several, the worker's choice among due
jobs is what the fairness below is about), and the uniqueness of venue ids: a venue
that gives two operations one id can strand the second in SUBMITTING, which is
outside these runs and is listed under *Findings*; `journal_any_client` has two
operations and one id. Two processes and two requests are the smallest
number at which calls race. Quantity 2 distinguishes no fill, a partial one and a
full one. `MinAttempts = 2` is the smallest value the configuration admits; under
the most general client, which decides itself whether the window is exhausted, it
has no influence and is 1. One
or two crashes put a restart at every point of every handler. Every
safety property of the passing runs is also proved without any of these bounds
(see *Proofs*, each with its hypotheses).

Two intents and two clicks let a lost request be followed by a second one and a
selection by another. The agent confirms and executes one of the two, which leaves
a row that only the console has touched. Three events and two damages are enough for a pair of
changes that hide each other and for a loss followed by a write. In
`absence_window` the four delays differ in what they bound and are as small as they can be
while each still has an inside; 7 is the smallest window the
assumption admits, and with 6 `AbsenceIsFinal` is violated, so the assumption is as weak
as it can be. The clock reaches a full window after the latest signature.

`CHECK_DEADLOCK FALSE` is given in the service runs because the system may
really stop: orders settled, requests done, crashes used up; and in
`absence_window` because its clock is bounded. The other runs check for deadlock.

Symmetry is used over processes, requests, venue ids, operations, polls and
passes, in runs without liveness properties only.

### Fairness (run `service_liveness` only)

* A started process gets through its startup (weak): `main` is straight-line code.
* A pending call ends (weak): `client.ts` aborts every request after `timeoutMs`,
  and what follows is synchronous.
* The worker takes each due job (strong): it ticks for ever, and the claim takes
  the job that has been due longest.
* The venue answers a query, and the answer is recorded, if queries keep being
  made (strong): without it an unreachable venue leaves the operation UNKNOWN for
  ever, as the code intends.
* The absence window elapses (weak): it is a clock.

Nobody is obliged to confirm, execute, reconcile or crash, and the venue is not
obliged to accept, fill or close anything. With no operators in this run the
worker alone must resolve what is unknown.

## Findings

| Run | What the code does | What is said |
|---|---|---|
| `finding_resume_rewrites_settled` | The resume loop writes `UNKNOWN` over a row another process has settled since the `SELECT` (`journal.ts:561`) | `states.ts:29`, `docs/architecture.md:70` |
| `finding_interrupted_job` | A job claimed by a process that died stays `RUNNING`; the startup enqueue leaves it so (`journal.ts:486`) | `journal.ts:545` |
| `finding_single_not_found` | Passes that failed count as queries, so one not-found may settle absence (`service.ts:251`) | `README.md:104` |
| `finding_unreadable_reply` | A reply `null` makes the submission throw and strands the operation in `SUBMITTING` (`spot.ts:252`) | `spot.ts:237` |
| `finding_first_event_unreported` | With the first event damaged nothing verifies, and the tool says EMPTY and exits 0 (`verify-chain.ts:26`) | `README.md:118`, `verify-chain.ts:4` |

In `service_liveness` there is no crash and in `service_one_process` no unreadable
reply, because those properties fail there for the reasons above.

Also met while modelling, without a run of their own:

* A contradicted settled operation is refused, not reviewed: `README.md:108` says
  MANUAL_REVIEW, `machine.ts:369` throws (`ReobserveTerminal`).
* The newest events can be deleted unseen until something is written again;
  `NoLossWrittenOver` says how far detection goes.
* A MARKET order sized in base quantity is held against neither cap: it has no
  estimate, and `service.ts:61` checks both caps only where there is one.
  `.env.example:24` calls the server's a "Hard ceiling on the notional of any single
  intent, in quote asset units.", and `App.tsx:334` says "A market order is checked
  against live exchange filters and the notional cap before it is written."
  `PricedCapsAreExact` leaves these orders (`Unpriced`) out by name, and so does the cap
  half of `AnswerIsAskedFor`: with them both would fail on the first creation, which
  is why no run is spent on it. The run `console_intents` has such an order (`sized`).
* `venue_order_id` is UNIQUE over all symbols (`schema.sql:41`), while the venue
  numbers orders per symbol. If two operations are given one id, recording the
  second one's acknowledgement throws and leaves it in SUBMITTING until a restart,
  and every observation after that throws again. `InFlightAttended` is checked
  with one operation and proved where every operation has an id of its own (`OwnIds`).
* The configuration admits windows for which `AbsenceIsFinal` fails; its
  defaults (60 s against 5 s and 10 s) are far from them.

## Proofs

### The journal (`JournalProofs`)

For any sets of operations, processes, venue ids and quantities, from
`MachineAssumption` (`None` is no venue id, quantities are naturals and include 0)
and `JournalAssumption` (`MinAttempts` is a positive natural; `None` is no
operation).

The invariants are not inductive as they stand: that a row was submitted at most
once says nothing of a second submission unless it is known that a row still
APPROVED was submitted never; that NOT_FOUND_SAFE carries no trace needs the same
of SUBMITTING (otherwise an acknowledgement could rebind) and of the states before
it. `JournalInv` strengthens them:

* the tables are well typed;
* `RowInv` of every row: never DRAFT; submitted at most once, and not at all
  before SUBMITTING; without id and fill before and in SUBMITTING and in
  NOT_FOUND_SAFE.

The argument: `DecideStep` shows for each command that a row moves by a `RowStep`
(row invariant kept, id kept once set, executed quantity not lower), `DemotedStep`
the same of the restart's UPDATE, which does not go through `decide`.
`JournalOpsStep` lifts this to every action of `JournalNext`, `OpsStepKeepsRows` to
the table. `InvariantStep` adds the queue and the resume loop. From it follow
`JournalTypeCorrect`, `SubmittedOnce`, `AbsenceWithoutTrace`, `ConsoleAgrees`, and
the action properties `EvidenceKept` and `SettledMovesOnlyAtResume`.

### The service (`ServiceProofs`)

For any number of operations, processes, requests and crashes, with or without
unreadable replies, false reports and the fault lab, from `ServiceAssumption`
and the assumptions above.

`TypedInv` types the variables, with one addition: a pending call works for an
operation. The lemmas follow the handlers: most steps are `Quiet` (no call comes
to be about to send, nothing is sent, no confirmation is taken back), and the two
that are not, `ExecuteIntent` and `PlaceOrder`, have lemmas of their own that say
what they do. `ServiceStep` puts them together: every step of the service is a
step of `JournalNext` or leaves the journal alone. With `InvariantStep` this gives
`ServiceTypeCorrect` and `ServiceImplementsJournal`; the journal's theorems then
hold of the service, as `ServiceAbsenceWithoutTrace` and `ServiceEvidenceKept` do
for two of them.

`OneDispatch` needs more: that an operation was posted at most once does not say
that no other call is about to post it. `DispatchInv` adds that a call about to
send is the only one for its operation, that nothing was sent yet, and that the
row already counts the dispatch. The count is what forbids a second one: a row
that lets BEGIN_SUBMISSION through is APPROVED, `RowInv` gives it no dispatch, and
no step, the restart's UPDATE included, ever lowers the count (`SubmitsKept`).

### The journal against the venue (`ServiceProofs`)

For any number of operations, servers, requests and crashes, with lost and
unreadable replies and armed faults, under the hypothesis that the venue tells
the truth (`Anomalies = {}`; a venue that lies can make the journal say
anything): `NeverAhead` and `SettledAsTheVenue`.

What a row becomes depends on the answer a call holds, and that may be old by the
time it is recorded. `VenueInv` therefore says what an answer is worth *for as
long as it is held*: an observation names the order's own id, its quantity
has at most been overtaken, and if it saw the order closed nothing has changed
since (`Faithful`); a refusal means that the one POST is used up and left no order
(`Refused`), which is where `DispatchInv` is needed: a second POST could still be
accepted. A row is backed in the same way (`RowTrue`). Each step is then
seen from three sides, the venue (`Onward`), the rows (`RowBacked`) and the
calls (`AnswerKept`), and the lemmas `FaithfulLater` and `RowLater` combine them.

`VerdictStands` and `RefusalStands` are what several servers may still rely on.
`SettledIsFinal` fails with them, since the restart of one may move a row another
has settled back to UNKNOWN (first finding). But an operation that was settled by
what the venue reported has, whenever it is settled again, the very same row, and
one settled by a refusal is never settled as having had an order. The argument is
that a row which was true of a closed order leaves something behind that no
step can undo (`Sealed`): the venue's order stays as it is, and the row keeps the
order's id, without which NOT_FOUND_SAFE could follow. REJECTED has two meanings
here, which the row tells apart: with an order id the venue has made the order and
closed it (`SettledByOrder`, part of `VerdictStands`), without one it has refused to
make any (`SettledByRefusal`, of which `RefusalStands` speaks).

### One server (`ServerProofs`)

`OneServer` says that at most one process uses the journal, the deployment of
`README.md:160`; it may crash and restart any number of times. What is proved:

* `ResumeIsFresh`, `SettledStaysSettled`: the rows that are left to demote are
  exactly those in flight, because nothing else runs during a startup
  (`StartupInv`); so the resume loop's blind UPDATE never meets a settled row.
  With two servers it does (first finding).
* `InFlightAlone`: a call that sends or queries an operation is the only one,
  and the row still says SUBMITTING or RECONCILING (`AttendInv`). No hypothesis on
  the venue.
* `InFlightHasItsCall`: conversely a row in flight has its call (`CalledInv`).
  Needs an honest venue that gives every operation its own id (`OwnIds`) and
  replies that can be read: a false id or a reply `null` makes the recording throw
  and strands the row (fourth finding).
* `NeverAFalseAlarm`: the answer a query holds is no older than the row it
  will be compared with (`FitsInv`), since the row stands still while it is
  queried and the venue only moves on.
* `UnresolvedStaysQueued`: an UNKNOWN row is queued, about to be queued, or in the
  worker's hands (`QueueInv`). Its hypotheses, no crash, no armed fault, no
  operator, are those of the run, and each is a way in which the code does leave
  an UNKNOWN operation out of the queue: the second finding, `service.ts:173`, and
  `api.ts:133`.

### The refinement (`RefinementProofs`)

`ServerImplementsAction`: one server over an honest venue implements
`EconomicAction`. The mapping is `ServiceRefinement`'s: a decision's verdict is its
row's state, what is known of it the row's quantity; a REJECTED row with an order id
is executed like any closed order, one without is refused. The lemmas go by what moves: a
confirmation approves (`ConfirmApproves`), a POST sends (`PostSends`), the venue
acts (`VenueActs`), and every other step, a restart included, moves rows only
(`OtherSteps`), which either says the same as before or reports what the venue has
done (`RowSpeaks`). `StepMaps` puts them together. It rests on `VenueInv`,
`AttendInv`, on `SettledStaysSettled` (a verdict is never taken back) and on
`ConfirmedInv`: a row that has left AWAITING_CONFIRMATION was confirmed.

### The evidence chain (`ChainProofs`)

For any payloads, operations, processes, numbers of events and of damages, from
`ChainAssumption`: `ChainTypeCorrect`, `UndamagedAlwaysVerifies`,
`CountedWasWritten`, `NoLossHidden`, `ExportsCovered`.

Of a damaged table the properties say nothing about rows that fail a check, so
`ChainInv` speaks of the hashes. A hash in the table that carries the number of a
row *still there* was computed from what was first written in that row
(`HashKnown`). It survives every damage, since damage moves hashes but makes none, and it
survives writing, because the key generator gives no id out twice: a hash computed
after a loss, numbered `MAX(sequence) + 1`, can only carry the number of a row that
is gone for good. A row that passes the check of its own hash is therefore the
event that was written (`CountedIsWritten`), and a table that verifies has no gap,
so that with the newest event there, nothing is missing (`NothingLost`). For the
undamaged table the invariant adds that every row passes its checks (`Intact`), and
for an export that its events are among those written by then.
`Prefix` and `LastExists`, about initial stretches of the naturals, stand in for
induction; they use the well-foundedness of `<`.

### Console and registry (`ConsoleProofs`)

For any number of intents, keys, clicks and polls, from `MachineAssumption`,
`RegistryAssumption` and `ConsoleAssumption`: `ConsoleTypeCorrect`,
`KeyDispatchedOnce`, `RetryIsNoConflict`, `PricedCapsExact`, `AnswerWithinCap` and the
action property `DisplayStaysSelected`.

`ConsoleInv` adds that keys are unique in `intents` and that a row not yet
dispatched has no dispatch counted (without which a late EXECUTE could be a second
one): this must survive whatever the service records (`DecideKeeps`) and the
restart's UPDATE (`DemotedKeeps`). It also says that a request on the wire is about
an operation that exists, however late it arrives, and that every poll in flight is
of what is selected now: an answer about another operation cannot reach the display.

`PricedCapsExact` says that an order whose worth is known beforehand is admitted
exactly when that worth is within its cap and the cap within the server's, and
`AnswerWithinCap` that a repeated key is answered with the trade asked for, within
the cap that this request brought where the worth is known beforehand, for every
interleaving and for amounts of any length: each stored intent passed its own
checks, and a reused one is given only to a request that passed them with its own
cap. What the checks compute is taken from `CompareExact` and `MultiplyExact` below.
`RegistryAssumption` says for this that `None`, an amount that was left out, is not
a decimal.

### Exact decimals (`DecimalProofs`)

For any two decimals, without a bound on their lengths: `compareDecimal` orders them
as their values are ordered (`CompareExact`), and `multiplyDecimal` writes out a
decimal whose value is the product of theirs (`MultiplyExact`). The reference is
`Units(a, places)`, the sum of each digit times its place, in units of any place
at least as fine as the digits. The code never computes it: it reads the digits as one
integer, scales that by a power of ten, and writes an integer out again by repeated
division, with zeros in front.

A recursive function of TLA+ is the *choice* of a function that satisfies its equation,
so each one is known by its equation only once such a function is shown to exist:
`PrefixRecursion` (each value from the one before) and `Recursion` (from a smaller
one, which `Numeral` needs for `n \div 10`). The library's induction theorems take
operators, which the installed provers cannot instantiate; `SetInduction` and
`StrongInduction` put the property as a *set* of naturals instead and rest on the
well-foundedness of `<`. With them: reading digits from the left is their weighted sum
(`WeighedSum`), zeros in front change nothing (`BigIntPadded`), writing a number and
reading it gives the number (`BigIntNumeral`), and a decimal point moved by whole
places multiplies by a power of ten (`FinerUnits`, `SplitJoins`, `FormatIs`).

### Absence in real time (`AbsenceProofs`)

For any delays and any number of overlapping passes, from `TimesAssumption` and
`WindowAssumption`: an operation settled as absent has no order at the
venue and never will, and one settled as rejected was refused by the venue or is an
order it has made (`AbsenceFinality`, `RejectionIsVenues`).

That the row says NOT_FOUND_SAFE is too late to learn anything, so `TimeInv`
carries the argument in the passes: the POST is signed at most `MaxCommit` after
the stamp and accepted at most `RecvWindow + Lag` after that; a query sent later
than that (`TooLate`) and answered "no such order" finds a venue that can accept
nothing any more (`AnswersInTime`). A pass concludes within `Timeout` of its
query, so one that finds the window elapsed when it concludes
sent its query at least `Window - Timeout` after the stamp, which
`WindowAssumption` makes too late (`AbsenceIsLate`). The rest of the invariant says
that nothing is under way for an operation still APPROVED (`Untouched`), so the
stamp is set once, that an order id in the row is the venue's (`OrderIsVenues`), and
what `decide` can make of a row (`DecideMoves`).

### Model-checked only

* Liveness (`UnknownResolves`, `JobsSettle`), which is out of the prover's reach.
* The runs that find a violation.

## Not modelled

* Request signing, capability probing, symbol filters and their cache, the
  backoff delay: they refuse or delay and change no state the properties read.
* Canonical JSON and redaction's patterns: pure functions on text, kept as an
  injective digest and as a set of secret payloads.
* The session secret and origin check, which refuse a request before anything is
  read; readiness, the operations list and static files, which are read-only.
* The console's rendering, list and readiness header.
* `demo` and `probe`, scripts over the service; the parsing of the
  configuration; schemas that only give rows their types.

## Plan

Done: every module under *Modules*, a theorem for every safety and action property
of the passing runs, both refinements, and the exactness of the decimals. Left:

1. Operators beside the worker (`api.ts:133`, `service.ts:329`) and several processes
   on one queue (`service.ts:333`): the hazards in `PROJECT.json` without a
   property. In each the code does what no document forbids or leaves work to an
   operator; a property becomes worth stating once the code promises one.
2. What several servers may rely on in flight, beside `OneDispatch`, `SettledAsTheVenue`,
   `VerdictStands` and `RefusalStands`. `InFlightAttended` and `UnresolvedIsQueued`
   are about one server. With two, a server that dies leaves its operation in
   SUBMITTING until a restart while the other one is up, and one that starts
   demotes the row another is submitting before it queues it.
