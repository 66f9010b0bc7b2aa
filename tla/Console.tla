------------------------------- MODULE Console -------------------------------
(***************************************************************************)
(* The operations console in front of the registry: what is selected, what *)
(* is displayed, the polls that refresh it, the buttons, and the requests  *)
(* they send over a connection that may lose requests or answers; beside   *)
(* it, an agent on the same API and the service that moves operations.     *)
(*                                                                         *)
(* The buttons act on what is displayed, which may be an older snapshot or *)
(* still the operation that was selected before.  A request whose answer   *)
(* was given up may reach the server later.                                *)
(*                                                                         *)
(* Bounds: PollSlot polls in flight, MaxClicks clicks; the agent works on  *)
(* AgentWork.                                                              *)
(***************************************************************************)
EXTENDS IntentRegistry

CONSTANTS
    PollSlot,    \* the polls that may be in flight at the same time
    AgentKey,    \* the agent's idempotency key
    AgentWork,   \* the intents the agent may confirm and execute
    Wanted,      \* what is really asked for, of all conceivable contents
    MaxClicks    \* how often the operator clicks

ASSUME ConsoleAssumption == /\ MaxClicks \in Nat
                            /\ Wanted \subseteq [trade : Trade, cap : Cap]
                            /\ Key = {AgentKey} \cup 1 .. MaxClicks
                            /\ AgentWork \subseteq 1 .. MaxIntents

VARIABLES
    selected,  \* selectedId
    detail,    \* the operation displayed and the actions it offers
    polls,     \* GET /v1/operations/:id in flight
    clicks,    \* clicks so far
    wire,      \* requests that have not reached the server
    awaiting,  \* the request the console is busy with
    reply      \* the server's answer to it

vars == <<intents, selected, detail, polls, clicks, wire, awaiting, reply>>

shown == <<selected, detail, polls>>
traffic == <<clicks, wire, awaiting, reply>>

-----------------------------------------------------------------------------
IdlePoll == [of |-> None, offers |-> None]
NoPolls == [s \in PollSlot |-> IdlePoll]

IntentId == 1 .. MaxIntents

Buttons == {"CONFIRM", "EXECUTE", "RECONCILE"}

Request ==
         [click : 1 .. MaxClicks, type : {"CREATE"}, creation : Creation]
    \cup [click : 1 .. MaxClicks, intent : IntentId, type : Buttons]

\* run() stays busy until the list is refreshed too.
Refreshing == [type |-> "REFRESH"]

\* The type invariant: display, polls and requests stay well formed.
ConsoleTypeOK ==
    /\ RegistryTypeOK
    /\ selected \in Ids \cup {None}
    /\ detail = None \/ detail \in [of : Ids, offers : SUBSET Buttons]
    /\ \A s \in PollSlot :
         \/ polls[s] = IdlePoll
         \/ polls[s].of = selected /\ polls[s].of \in Ids
    /\ clicks \in 0 .. MaxClicks
    /\ wire \subseteq Request
    /\ awaiting \in Request \cup {None, Refreshing}
    /\ reply = None \/ awaiting \in Request

Init ==
    /\ intents = <<>>
    /\ selected = None /\ detail = None /\ polls = NoPolls
    /\ clicks = 0 /\ wire = {} /\ awaiting = None /\ reply = None

-----------------------------------------------------------------------------
(* Selection and polling (the effect on selectedId). *)

\* Polls of the earlier selection still deliver.
KeepPolls(p) == p

\* cancelled = true: whatever they bring is dropped.
CancelPolls(p) == NoPolls

Asked(i) == [of |-> i, offers |-> None]

\* A new selection is loaded at once; what was displayed stays until then.
SelectNow(i) ==
    \/ i = selected /\ UNCHANGED shown
    \/ /\ i # selected /\ i # None
       /\ selected' = i
       /\ \E s \in PollSlot :
            polls' = [CancelPolls(polls) EXCEPT ![s] = Asked(i)]
       /\ UNCHANGED detail
    \/ /\ i # selected /\ i = None
       /\ selected' = None /\ detail' = None
       /\ polls' = CancelPolls(polls)

\* A click in the queue, or "Back"; both stay enabled while busy.
Select(i) == i # selected /\ SelectNow(i) /\ UNCHANGED <<intents, traffic>>

PollAsk(s) ==
    /\ selected # None /\ polls[s] = IdlePoll
    /\ polls' = [polls EXCEPT ![s] = Asked(selected)]
    /\ UNCHANGED <<intents, selected, detail, traffic>>

\* The server's answer names the actions that the row's state allows.
Offers(row) == AllowedActions(row.state) \cap Buttons

PollAnswer(s) ==
    /\ polls[s].of # None /\ polls[s].offers = None
    /\ polls' = [polls EXCEPT ![s].offers = Offers(intents[polls[s].of].row)]
    /\ UNCHANGED <<intents, selected, detail, traffic>>

\* In whatever order the answers arrive.
PollDeliver(s) ==
    /\ polls[s].offers # None
    /\ detail' = polls[s]
    /\ polls' = [polls EXCEPT ![s] = IdlePoll]
    /\ UNCHANGED <<intents, selected, traffic>>

PollFail(s) ==
    /\ polls[s] # IdlePoll
    /\ polls' = [polls EXCEPT ![s] = IdlePoll]
    /\ UNCHANGED <<intents, selected, detail, traffic>>

-----------------------------------------------------------------------------
(* Buttons: one request at a time. *)

Send(request) ==
    /\ awaiting = None /\ clicks < MaxClicks
    /\ clicks' = clicks + 1
    /\ wire' = wire \cup {request}
    /\ awaiting' = request
    /\ UNCHANGED <<intents, shown, reply>>

\* The form is displayed while no operation is; each click has a fresh key.
SubmitForm(w) ==
    /\ detail = None
    /\ Send([click |-> clicks + 1, type |-> "CREATE", creation |->
               [key |-> clicks + 1, trade |-> w.trade, cap |-> w.cap]])

Press(button) ==
    /\ detail # None /\ button \in detail.offers
    /\ Send([click |-> clicks + 1, type |-> button, intent |-> detail.of])

\* The answer arrives; a created operation becomes the selected one.
Receive ==
    /\ reply # None
    /\ awaiting' = Refreshing /\ reply' = None
    /\ SelectNow(IF reply.intent = None THEN selected ELSE reply.intent)
    /\ UNCHANGED <<intents, clicks, wire>>

\* DISCONNECTED: the request may be on its way, done, or lost.
GiveUp ==
    /\ awaiting \in Request
    /\ awaiting' = None /\ reply' = None
    /\ UNCHANGED <<intents, shown, clicks, wire>>

RefreshEnds ==
    /\ awaiting = Refreshing
    /\ awaiting' = None
    /\ UNCHANGED <<intents, shown, clicks, wire, reply>>

-----------------------------------------------------------------------------
(* The server. *)

CommandOf == [CONFIRM |-> [type |-> "CONFIRM_INTENT"],
              EXECUTE |-> [type |-> "BEGIN_SUBMISSION"],
              RECONCILE |-> [type |-> "BEGIN_RECONCILIATION"]]

Answered(r, i) ==
    /\ wire' = wire \ {r}
    /\ reply' = IF awaiting = r THEN [intent |-> i] ELSE reply
    /\ UNCHANGED <<shown, clicks, awaiting>>

\* A refused creation answers with an error, which selects nothing.
HandleCreate(r) ==
    /\ r.type = "CREATE"
    /\ Create(r.creation)
    /\ Answered(r, Outcome(r.creation).intent)

HandleCommand(r) ==
    /\ r.type # "CREATE"
    /\ OnOperation(r.intent, CommandOf[r.type])
    /\ Answered(r, None)

\* Lost on the way, or refused without a look at the journal: the session
\* secret, the symbol filters, an expired intent.
Unhandled(r) == Answered(r, None) /\ UNCHANGED intents

\* The agent creates, confirms and executes on the same API.
AgentCreates(w) ==
    /\ Create([key |-> AgentKey, trade |-> w.trade, cap |-> w.cap])
    /\ UNCHANGED <<shown, traffic>>

\* A command of its own that is refused changes nothing at all.
AgentCommands(i, type) ==
    /\ i \in AgentWork
    /\ Accepts(i, CommandOf[type])
    /\ UNCHANGED <<shown, traffic>>

\* What the service itself records: everything but the commands of a person
\* and the two that no route sends.
Lessons == {c \in Command : c.type \notin {"CONFIRM_INTENT", "BEGIN_SUBMISSION",
                                          "REQUEST_CANCEL",
                                          "ESCALATE_MANUAL_REVIEW"}}

\* Of an operation it has dispatched it may learn anything, at any time: the
\* answer to the submission, and whatever a pass begins with or ends in.
ServiceLearns(i) ==
    /\ intents[i].row.submits > 0
    /\ \E c \in Lessons : Accepts(i, c)
    /\ UNCHANGED <<shown, traffic>>

\* A server starts on the journal; what it has read of the row may be old.
ServerRestarts(i) ==
    /\ intents[i].row.submits > 0
    /\ intents' = [intents EXCEPT ![i].row = Demoted(@)]
    /\ UNCHANGED <<shown, traffic>>

-----------------------------------------------------------------------------
Next ==
    \/ \E i \in Ids \cup {None} : Select(i)
    \/ \E s \in PollSlot :
         PollAsk(s) \/ PollAnswer(s) \/ PollDeliver(s) \/ PollFail(s)
    \/ \E w \in Wanted : SubmitForm(w) \/ AgentCreates(w)
    \/ \E button \in DOMAIN CommandOf : Press(button)
    \/ Receive \/ GiveUp \/ RefreshEnds
    \/ \E r \in wire : HandleCreate(r) \/ HandleCommand(r) \/ Unhandled(r)
    \/ \E i \in Ids :
         \/ ServiceLearns(i) \/ ServerRestarts(i)
         \/ \E type \in {"CONFIRM", "EXECUTE"} : AgentCommands(i, type)

ConsoleSpec == Init /\ [][Next]_vars

-----------------------------------------------------------------------------
\* Once the selected operation is displayed, no late answer replaces it by
\* another one while it stays selected (the cancelled flag of the effect).
ShownStaysSelected ==
    [][detail # None /\ selected # None /\ selected' = selected
         /\ detail.of = selected => detail'.of = selected]_vars
=============================================================================
