---------------------------- MODULE EvidenceChain ----------------------------
(***************************************************************************)
(* The hash chain over the evidence_events table: appendEvidence inside    *)
(* the journal's write transactions, verifyChain, its users at startup, in *)
(* the command line tool and in the export, and a file that is damaged     *)
(* underneath them in the three ways the README names: an edited column, a *)
(* deleted row, two rows exchanged.                                        *)
(*                                                                         *)
(* sha256 over canonical JSON is an injective function: a hash IS what it  *)
(* was computed from.  Nobody recomputes hashes while damaging the file,   *)
(* and no row is moved into the place of a deleted one; edited facts stay  *)
(* parseable.                                                              *)
(*                                                                         *)
(* Bounds: MaxEvents rows ever written, MaxDamage single damages.          *)
(***************************************************************************)
EXTENDS Naturals, Sequences, FiniteSets, Functions

CONSTANTS
    Op,         \* the operations events belong to
    Payload,    \* the facts of an event
    Secret,     \* payloads that hold a credential
    Redacted,   \* what redaction leaves of those
    Proc,       \* the processes that have the file open
    None,       \* SQL NULL
    Junk,       \* an operation that no event was written with
    MaxEvents, MaxDamage

ASSUME ChainAssumption == /\ Secret \subseteq Payload
                          /\ Redacted \in Payload \ Secret
                          /\ MaxEvents \in Nat /\ MaxDamage \in Nat

VARIABLES
    table,    \* evidence_events, and the counter of its AUTOINCREMENT key
    status,   \* per process: down, starting, serving or exporting
    bundle,   \* per process, the parts of its latest export
    written,  \* history: the events that were committed, oldest first
    damage,   \* how often the file was damaged
    fresh     \* history: was anything written since the last damage?

vars == <<table, status, bundle, written, damage, fresh>>

-----------------------------------------------------------------------------
(* Rows and hashes. *)

\* Facts stored as they came.
Unredacted(f) == f

Redact(f) == IF f \in Secret THEN Redacted ELSE f

Digest(facts) == [digestOf |-> facts]

\* The operation stands for all columns that only describe the event.
Hash(k, op, digest, facts, prev) == <<k, op, digest, facts, prev>>

Ids == DOMAIN table.rows

LastId(rows) == CHOOSE k \in DOMAIN rows : \A i \in DOMAIN rows : i <= k

\* ORDER BY sequence without DESC.
FirstHash(rows) ==
    IF DOMAIN rows = {} THEN None
    ELSE rows[CHOOSE k \in DOMAIN rows : \A i \in DOMAIN rows : k <= i].hash

PreviousHash(rows) ==
    IF DOMAIN rows = {} THEN None ELSE rows[LastId(rows)].hash

NextSequence(rows) == IF DOMAIN rows = {} THEN 1 ELSE LastId(rows) + 1

\* A key without AUTOINCREMENT is reused once the row that had it is gone.
ReusedId(t) == NextSequence(t.rows)

\* AUTOINCREMENT: never an id that was given out before.
InsertedId(t) == t.counter + 1

\* The sequence number in the hash is MAX(sequence) + 1; the id the row gets
\* is the key generator's.
AppendEvidence(t, event) ==
    LET facts == Redact(event.facts)
        prev == PreviousHash(t.rows)
        row == [op |-> event.op, digest |-> Digest(facts), facts |-> facts,
                prev |-> prev,
                hash |-> Hash(NextSequence(t.rows), event.op, Digest(facts),
                              facts, prev)]
    IN [rows |-> [k \in DOMAIN t.rows \cup {InsertedId(t)} |->
                    IF k = InsertedId(t) THEN row ELSE t.rows[k]],
        counter |-> InsertedId(t)]

-----------------------------------------------------------------------------
(* verifyChain, and what its users make of it. *)

\* The links are compared, the event hash is never recomputed.
SoundByLinks(rows, k) ==
    /\ k \in DOMAIN rows
    /\ rows[k].prev = IF k = 1 THEN None ELSE rows[k - 1].hash
    /\ rows[k].digest = Digest(rows[k].facts)

\* The four checks of row k, its predecessors having passed them.
Sound(rows, k) ==
    /\ k \in DOMAIN rows
    /\ rows[k].prev = IF k = 1 THEN None ELSE rows[k - 1].hash
    /\ rows[k].digest = Digest(rows[k].facts)
    /\ rows[k].hash = Hash(k, rows[k].op, rows[k].digest, rows[k].facts,
                           rows[k].prev)

\* The scan stops at the first row that fails.
Verified(rows) == {k \in DOMAIN rows : \A i \in 1 .. k : Sound(rows, i)}

VerifyChain(rows) == [ok |-> Verified(rows) = DOMAIN rows,
                      checked |-> Cardinality(Verified(rows))]

\* verify-chain: "EMPTY" whenever nothing was verified.
CliExitCode ==
    LET result == VerifyChain(table.rows) IN
    IF result.checked = 0 \/ result.ok THEN 0 ELSE 1

-----------------------------------------------------------------------------
NoBundle == [op |-> None, events |-> None, checked |-> None]

\* The type invariant: the table keeps its shape, ids are the key generator's,
\* and no payload that holds a credential is ever at rest (redactValue).
ChainTypeOK ==
    /\ table.counter \in Nat /\ Ids \subseteq 1 .. table.counter
    /\ \A k \in Ids : /\ table.rows[k].op \in Op \cup {Junk}
                      /\ table.rows[k].facts \in Payload \ Secret
    /\ status \in [Proc -> {"down", "starting", "serving", "exporting"}]
    /\ written \in Seq([op : Op, facts : Payload \ Secret])
    /\ damage \in 0 .. MaxDamage /\ fresh \in BOOLEAN

Init ==
    /\ table = [rows |-> <<>>, counter |-> 0]
    /\ status = [p \in Proc |-> "down"]
    /\ bundle = [p \in Proc |-> NoBundle]
    /\ written = <<>>
    /\ damage = 0 /\ fresh = TRUE

-----------------------------------------------------------------------------
(* Writing.  A command appends one or two events in its transaction; one   *)
(* that is rolled back takes its rows and the key generator back with it.  *)

Event == [op : Op, facts : Payload]

Appended(t, events) ==
    IF Len(events) = 1
    THEN AppendEvidence(t, events[1])
    ELSE AppendEvidence(AppendEvidence(t, events[1]), events[2])

Recorded(event) == [event EXCEPT !.facts = Redact(@)]

Transaction(events) ==
    /\ Len(written) + Len(events) <= MaxEvents
    /\ table' = Appended(table, events)
    /\ written' = written \o [i \in DOMAIN events |-> Recorded(events[i])]
    /\ fresh' = TRUE

Commit(p) ==
    /\ status[p] = "serving"
    /\ \E first \in Event :
         \/ Transaction(<<first>>)
         \/ \E second \in {e \in Event : e.op = first.op} :
              Transaction(<<first, second>>)
    /\ UNCHANGED <<status, bundle, damage>>

-----------------------------------------------------------------------------
(* A process.  The startup writes before it verifies.                      *)

Start(p) ==
    /\ status[p] = "down"
    /\ status' = [status EXCEPT ![p] = "starting"]
    /\ UNCHANGED <<table, bundle, written, damage, fresh>>

\* One event for an operation that was left SUBMITTING or RECONCILING.
ResumeWrites(p) ==
    /\ status[p] = "starting" /\ written # <<>>
    /\ \E event \in {e \in Event : e.facts \notin Secret} :
          Transaction(<<event>>)
    /\ UNCHANGED <<status, bundle, damage>>

\* main: a broken chain ends the process.
StartupCheck(p) ==
    /\ status[p] = "starting"
    /\ status' = [status EXCEPT
                    ![p] = IF VerifyChain(table.rows).ok THEN "serving"
                                                         ELSE "down"]
    /\ UNCHANGED <<table, bundle, written, damage, fresh>>

Stop(p) ==
    /\ status[p] # "down"
    /\ status' = [status EXCEPT ![p] = "down"]
    /\ bundle' = [bundle EXCEPT ![p] = NoBundle]
    /\ UNCHANGED <<table, written, damage, fresh>>

ReadEvents(b) ==
    [b EXCEPT !.events = {k \in Ids : table.rows[k].op = b.op}]

ReadChain(b) == [b EXCEPT !.checked = VerifyChain(table.rows).checked]

\* The chain is verified before the events are read.
ReadChainFirst(b) == IF b.checked = None THEN ReadChain(b) ELSE ReadEvents(b)

ReadNext(b) == IF b.events = None THEN ReadEvents(b) ELSE ReadChain(b)

\* exportEvidence is one synchronous call, but each of its SELECTs is a
\* snapshot of its own: another process may write in between.
BeginExport(p) ==
    /\ status[p] = "serving"
    /\ status' = [status EXCEPT ![p] = "exporting"]
    /\ \E o \in Op :
         bundle' = [bundle EXCEPT ![p] = ReadNext([NoBundle EXCEPT !.op = o])]
    /\ UNCHANGED <<table, written, damage, fresh>>

EndExport(p) ==
    /\ status[p] = "exporting"
    /\ status' = [status EXCEPT ![p] = "serving"]
    /\ bundle' = [bundle EXCEPT ![p] = ReadNext(@)]
    /\ UNCHANGED <<table, written, damage, fresh>>

-----------------------------------------------------------------------------
(* Damage to the file. *)

Hashes == {table.rows[k].hash : k \in Ids}

\* A hash of none of the rows: they are numbered from 1.
JunkHash == Hash(0, Junk, None, None, None)

EditedRows(row) ==
         {[row EXCEPT !.op = o] : o \in Op \cup {Junk}}
    \cup {[row EXCEPT !.facts = f] : f \in Payload \ Secret}
    \cup {[row EXCEPT !.digest = Digest(f)] : f \in Payload \ Secret}
    \cup {[row EXCEPT !.prev = h] : h \in Hashes \cup {None, JunkHash}}
    \cup {[row EXCEPT !.hash = h] : h \in Hashes \cup {JunkHash}}

Damages(rows) ==
    /\ damage < MaxDamage
    /\ damage' = damage + 1
    /\ table' = [table EXCEPT !.rows = rows]
    /\ fresh' = FALSE
    /\ UNCHANGED <<status, bundle, written>>

EditColumn(k) ==
    \E row \in EditedRows(table.rows[k]) \ {table.rows[k]} :
        Damages([table.rows EXCEPT ![k] = row])

DeleteRow(k) == Damages(Restrict(table.rows, Ids \ {k}))

ExchangeRows(k, i) ==
    /\ k < i
    /\ Damages([table.rows EXCEPT ![k] = table.rows[i],
                                  ![i] = table.rows[k]])

-----------------------------------------------------------------------------
Next ==
    \/ \E p \in Proc :
         \/ Commit(p)
         \/ Start(p) \/ ResumeWrites(p) \/ StartupCheck(p) \/ Stop(p)
         \/ BeginExport(p) \/ EndExport(p)
    \/ \E k \in Ids :
         \/ EditColumn(k) \/ DeleteRow(k)
         \/ \E i \in Ids : ExchangeRows(k, i)

ChainSpec == Init /\ [][Next]_vars

-----------------------------------------------------------------------------
(* Properties. *)

\* A file nobody has damaged always verifies, through every transaction of one
\* or two events, rollback and restart, by any number of processes
\* (appendEvidence against verifyChain).
UndamagedVerifies ==
    damage = 0 =>
        VerifyChain(table.rows) = [ok |-> TRUE, checked |-> Len(written)]

\* The events verifyChain counts are the first that were committed, in order
\* and unaltered, whatever happened to the file: an edit, a deletion or an
\* exchange is never counted as verified.
CheckedIsGenuine ==
    \A k \in 1 .. VerifyChain(table.rows).checked :
        /\ table.rows[k].op = written[k].op
        /\ table.rows[k].facts = written[k].facts

\* A verdict "ok" may overlook that the newest events are gone, but no longer
\* once anything has been written after the loss (the AUTOINCREMENT key of
\* evidence_events).
NoLossWrittenOver ==
    VerifyChain(table.rows).ok /\ fresh =>
        VerifyChain(table.rows).checked = Len(written)

\* The events of an exported bundle are covered by the chain check the bundle
\* carries, however other processes write while it is assembled
\* (exportEvidence reads the events first).
ExportIsCovered ==
    damage = 0 =>
        \A p \in Proc : bundle[p].checked # None /\ status[p] # "exporting" =>
            bundle[p].events \subseteq 1 .. bundle[p].checked

\* The command line tool reports success only for a chain that verifies
\* (verify-chain.ts).
SuccessIsIntact == CliExitCode = 0 => VerifyChain(table.rows).ok
=============================================================================
