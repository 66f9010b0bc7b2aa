----------------------------- MODULE ChainProofs -----------------------------
(***************************************************************************)
(* The evidence chain, proved for any number of events, operations,        *)
(* payloads, processes and damages: a file nobody damaged verifies, what   *)
(* counts as verified was written, no loss is written over unnoticed, and  *)
(* an export is covered by the check it carries.                           *)
(*                                                                         *)
(* The heart of the invariant is HashKnown: a hash in the table whose      *)
(* sequence number is that of a row still there was computed from what was *)
(* first written in that row.  The key generator never gives an id out     *)
(* twice, so an id that is gone stays gone, and a hash computed after a    *)
(* loss, whose number is that of a lost row, can vouch for no row.         *)
(***************************************************************************)
EXTENDS EvidenceChain, FiniteSetTheorems, WellFoundedInduction, TLAPS

-----------------------------------------------------------------------------
(* The invariant. *)

\* What is written: an event without credentials.
Evidence == [op : Op, facts : Payload \ Secret]

\* A row of the table, whatever its columns hold.
Shaped(row) == row = [op |-> row.op, digest |-> row.digest,
                      facts |-> row.facts, prev |-> row.prev,
                      hash |-> row.hash]

\* A hash with the number of a row that is still there was computed from the
\* event w has in that place.
HashKnown(rows, w, h) ==
    /\ h[1] \in 0 .. Len(w)
    /\ h[1] \in DOMAIN rows => h[2] = w[h[1]].op /\ h[4] = w[h[1]].facts

\* The table t, in which the events w were written.
TableOK(t, w) ==
    /\ t = [rows |-> t.rows, counter |-> t.counter]
    /\ t.rows = [k \in DOMAIN t.rows |-> t.rows[k]]
    /\ w \in Seq(Evidence)
    /\ t.counter = Len(w)
    /\ DOMAIN t.rows \subseteq 1 .. Len(w)
    /\ \A k \in DOMAIN t.rows :
         /\ Shaped(t.rows[k])
         /\ t.rows[k].op \in Op \cup {Junk}
         /\ t.rows[k].facts \in Payload \ Secret
         /\ HashKnown(t.rows, w, t.rows[k].hash)

\* The last event is there.
Newest(t, w) == Len(w) > 0 => Len(w) \in DOMAIN t.rows

\* Every event is there, and every row passes the four checks.
Intact(t, w) ==
    /\ DOMAIN t.rows = 1 .. Len(w)
    /\ \A k \in DOMAIN t.rows : Sound(t.rows, k)

\* An export, assembled or not.
Bundle == [op : Op \cup {None}, events : {None} \cup SUBSET Nat,
           checked : {None} \cup Nat]

\* While an export is assembled, and once it is.
BundleOK(p) ==
    IF status[p] = "exporting"
    THEN /\ bundle[p].checked = None
         /\ \/ bundle[p].events = None
            \/ bundle[p].events \subseteq 1 .. Len(written)
    ELSE bundle[p].checked # None =>
           bundle[p].events \subseteq 1 .. bundle[p].checked

ChainInv ==
    /\ TableOK(table, written)
    /\ fresh => Newest(table, written)
    /\ damage = 0 => /\ fresh /\ Intact(table, written)
                     /\ \A p \in Proc : BundleOK(p)
    /\ bundle \in [Proc -> Bundle]
    /\ status \in [Proc -> {"down", "starting", "serving", "exporting"}]
    /\ damage \in 0 .. MaxDamage /\ fresh \in BOOLEAN

-----------------------------------------------------------------------------
(* Ids and counting. *)

\* A table that is not empty has a last row.
LEMMA LastExists ==
    ASSUME NEW n \in Nat, NEW S \in SUBSET (1 .. n), S # {}
    PROVE  \E m \in S : \A i \in S : i <= m
<1> DEFINE T == {x \in Nat : \A i \in S : i <= x}
           Less == OpToRel(<, Nat)
<1>1. T \subseteq Nat /\ n \in T
  OBVIOUS
<1>2. PICK m \in T : \A y \in T : ~ (<<y, m>> \in Less)
  <2> HIDE DEF T, Less
  <2>1. IsWellFoundedOn(Less, Nat)
    BY NatLessThanWellFounded DEF Less
  <2> QED
    BY <1>1, <2>1, WFMin
<1>3. ASSUME m \notin S
      PROVE  FALSE
  <2>1. m \in Nat /\ \A i \in S : i \in Nat \ {0} /\ i <= m /\ i # m
    BY <1>3
  <2>2. PICK i \in S : TRUE
    OBVIOUS
  <2>3. m - 1 \in Nat
    BY <2>1, <2>2
  <2>4. m - 1 \in T
    BY <2>1, <2>3
  <2>5. <<m - 1, m>> \in Less
    BY <2>4 DEF OpToRel
  <2> QED
    BY <1>2, <2>4, <2>5
<1> QED
  BY <1>3

\* A set of ids that has with each id all smaller ones is as long as it is
\* large.
LEMMA Prefix ==
    ASSUME NEW n \in Nat, NEW S \in SUBSET (1 .. n),
           \A k \in S : 1 .. k \subseteq S
    PROVE  Cardinality(S) \in Nat /\ S = 1 .. Cardinality(S)
<1>1. CASE S = {}
  <2>1. S = 1 .. 0
    BY <1>1
  <2>2. Cardinality(1 .. 0) = 0
    BY FS_Interval
  <2> QED
    BY <2>1, <2>2
<1>2. CASE S # {}
  <2>1. PICK m \in S : \A i \in S : i <= m
    BY <1>2, LastExists
  <2>2. 1 .. m \subseteq S /\ m \in Nat \ {0}
    BY <2>1
  <2>3. S \subseteq 1 .. m
    BY <2>1, <2>2
  <2>4. S = 1 .. m
    BY <2>2, <2>3
  <2>5. Cardinality(1 .. m) = m
    BY <2>2, FS_Interval
  <2> QED
    BY <2>2, <2>4, <2>5
<1> QED
  BY <1>1, <1>2

\* verifyChain counts an initial stretch of the ids, and is satisfied when
\* that is all of them.
LEMMA Counted ==
    ASSUME NEW n \in Nat, NEW rows, DOMAIN rows \subseteq 1 .. n
    PROVE  /\ VerifyChain(rows).checked \in Nat
           /\ Verified(rows) = 1 .. VerifyChain(rows).checked
           /\ VerifyChain(rows).ok <=> DOMAIN rows = Verified(rows)
           /\ \A k \in 1 .. VerifyChain(rows).checked :
                k \in DOMAIN rows /\ Sound(rows, k)
<1>1. Verified(rows) \in SUBSET (1 .. n)
  BY DEF Verified
<1>2. ASSUME NEW k \in Verified(rows), NEW i \in 1 .. k
      PROVE  i \in Verified(rows)
  <2>1. k \in 1 .. n /\ \A a \in 1 .. k : Sound(rows, a)
    BY <1>1 DEF Verified
  <2>2. i \in DOMAIN rows
    BY <2>1 DEF Sound
  <2>3. \A a \in 1 .. i : a \in 1 .. k
    BY <2>1
  <2> QED
    BY <2>1, <2>2, <2>3 DEF Verified
<1>3. /\ Cardinality(Verified(rows)) \in Nat
      /\ Verified(rows) = 1 .. Cardinality(Verified(rows))
  BY <1>1, <1>2, Prefix
<1>4. VerifyChain(rows).checked = Cardinality(Verified(rows))
      /\ (VerifyChain(rows).ok <=> DOMAIN rows = Verified(rows))
  BY DEF VerifyChain
<1>5. ASSUME NEW k \in Verified(rows)
      PROVE  k \in DOMAIN rows /\ Sound(rows, k)
  <2>1. k \in DOMAIN rows /\ \A i \in 1 .. k : Sound(rows, i)
    BY DEF Verified
  <2>2. k \in 1 .. k
    BY <1>1
  <2> QED
    BY <2>1, <2>2
<1> QED
  BY <1>3, <1>4, <1>5

-----------------------------------------------------------------------------
(* Appending. *)

\* The last id, of a table that has one.
LEMMA LastIdIs ==
    ASSUME NEW n \in Nat, NEW rows, DOMAIN rows \subseteq 1 .. n,
           DOMAIN rows # {}
    PROVE  LastId(rows) \in DOMAIN rows /\ \A i \in DOMAIN rows : i <= LastId(rows)
BY LastExists DEF LastId

\* The number in a new hash: beyond every row, and no higher than the new id.
LEMMA NextIs ==
    ASSUME NEW t, NEW w, TableOK(t, w)
    PROVE  /\ Len(w) \in Nat
           /\ NextSequence(t.rows) \in 1 .. Len(w) + 1
           /\ NextSequence(t.rows) \notin DOMAIN t.rows
           /\ InsertedId(t) = Len(w) + 1
           /\ InsertedId(t) \notin DOMAIN t.rows
           /\ DOMAIN t.rows = 1 .. Len(w) =>
                /\ NextSequence(t.rows) = Len(w) + 1
                /\ PreviousHash(t.rows) =
                     IF Len(w) = 0 THEN None ELSE t.rows[Len(w)].hash
<1>1. Len(w) \in Nat /\ DOMAIN t.rows \subseteq 1 .. Len(w)
      /\ t.counter = Len(w)
  BY DEF TableOK
<1>2. CASE DOMAIN t.rows = {}
  BY <1>1, <1>2 DEF NextSequence, PreviousHash, InsertedId
<1>3. CASE DOMAIN t.rows # {}
  <2>1. LastId(t.rows) \in DOMAIN t.rows
        /\ \A i \in DOMAIN t.rows : i <= LastId(t.rows)
    BY <1>1, <1>3, LastIdIs
  <2>2. NextSequence(t.rows) = LastId(t.rows) + 1
        /\ PreviousHash(t.rows) = t.rows[LastId(t.rows)].hash
    BY <1>3 DEF NextSequence, PreviousHash
  <2>3. InsertedId(t) = Len(w) + 1
    BY <1>1 DEF InsertedId
  <2>4. DOMAIN t.rows = 1 .. Len(w) => LastId(t.rows) = Len(w) /\ Len(w) # 0
    BY <1>1, <1>3, <2>1
  <2> QED
    BY <1>1, <2>1, <2>2, <2>3, <2>4
<1> QED
  BY <1>2, <1>3

\* What is written holds no credential.
LEMMA NothingSecret ==
    ASSUME NEW event \in Event
    PROVE  /\ Recorded(event) \in Evidence
           /\ Recorded(event).op = event.op
           /\ Recorded(event).facts = Redact(event.facts)
           /\ event.op \in Op /\ Redact(event.facts) \in Payload \ Secret
BY ChainAssumption DEF ChainAssumption, Event, Recorded, Redact, Evidence

\* The row and the table appendEvidence makes.
LEMMA AppendMakes ==
    ASSUME NEW t, NEW w, TableOK(t, w), NEW event \in Event,
           NEW n, n = Len(w) + 1, NEW f, f = Redact(event.facts)
    PROVE  LET u == AppendEvidence(t, event)
           IN  /\ u = [rows |-> u.rows, counter |-> u.counter]
               /\ u.rows = [k \in DOMAIN u.rows |-> u.rows[k]]
               /\ u.counter = n
               /\ DOMAIN u.rows = DOMAIN t.rows \cup {n}
               /\ \A k \in DOMAIN t.rows : k # n /\ u.rows[k] = t.rows[k]
               /\ Shaped(u.rows[n])
               /\ u.rows[n].op = event.op /\ u.rows[n].facts = f
               /\ u.rows[n].digest = Digest(f)
               /\ u.rows[n].prev = PreviousHash(t.rows)
               /\ u.rows[n].hash = Hash(NextSequence(t.rows), event.op,
                                        Digest(f), f, PreviousHash(t.rows))
<1>1. InsertedId(t) = n /\ n \notin DOMAIN t.rows
  BY NextIs
<1> DEFINE prev == PreviousHash(t.rows)
           hash == Hash(NextSequence(t.rows), event.op, Digest(f), f, prev)
           row == [op |-> event.op, digest |-> Digest(f), facts |-> f,
                   prev |-> prev, hash |-> hash]
           rows == [k \in DOMAIN t.rows \cup {n} |->
                      IF k = n THEN row ELSE t.rows[k]]
<1>2. AppendEvidence(t, event) = [rows |-> rows, counter |-> n]
  BY <1>1 DEF AppendEvidence
<1>3. Shaped(row)
  BY DEF Shaped
<1>4. rows[n] = row /\ \A k \in DOMAIN t.rows : k # n /\ rows[k] = t.rows[k]
  BY <1>1
<1>5. rows = [k \in DOMAIN rows |-> rows[k]]
      /\ DOMAIN rows = DOMAIN t.rows \cup {n}
  OBVIOUS
<1>6. /\ row.op = event.op /\ row.facts = f /\ row.digest = Digest(f)
      /\ row.prev = prev /\ row.hash = hash
  OBVIOUS
<1> HIDE DEF rows, row, hash, prev
<1>7. PICK u : u = AppendEvidence(t, event)
  OBVIOUS
<1>8. u = [rows |-> rows, counter |-> n] /\ u.rows = rows /\ u.counter = n
  BY <1>2, <1>7
<1>9. /\ u = [rows |-> u.rows, counter |-> u.counter]
      /\ u.rows = [k \in DOMAIN u.rows |-> u.rows[k]]
      /\ DOMAIN u.rows = DOMAIN t.rows \cup {n}
      /\ \A k \in DOMAIN t.rows : k # n /\ u.rows[k] = t.rows[k]
      /\ u.rows[n] = row
  BY <1>4, <1>5, <1>8
<1> QED
  BY <1>3, <1>6, <1>7, <1>8, <1>9 DEF hash, prev

\* One event appended to what was written.
LEMMA OneMore ==
    ASSUME NEW w \in Seq(Evidence), NEW r \in Evidence, NEW v,
           v = Append(w, r)
    PROVE  /\ v \in Seq(Evidence) /\ Len(w) \in Nat /\ Len(v) = Len(w) + 1
           /\ \A i \in 1 .. Len(w) : v[i] = w[i]
           /\ v[Len(w) + 1] = r
OBVIOUS

\* appendEvidence keeps the table: hashes that were known stay known, because
\* none of them has the new id as its number, and the new hash is known,
\* because its number is the new id or one that no row has.
LEMMA AppendKeeps ==
    ASSUME NEW t, NEW w, TableOK(t, w), NEW event \in Event,
           NEW u, u = AppendEvidence(t, event),
           NEW v, v = Append(w, Recorded(event))
    PROVE  /\ TableOK(u, v) /\ Newest(u, v)
           /\ Intact(t, w) => Intact(u, v)
<1> DEFINE r == Recorded(event)
           n == Len(w) + 1
           f == Redact(event.facts)
           j == NextSequence(t.rows)
<1>1. /\ r \in Evidence /\ r.op = event.op /\ r.facts = f
      /\ event.op \in Op /\ f \in Payload \ Secret
  BY NothingSecret
<1>2. /\ v \in Seq(Evidence) /\ Len(w) \in Nat /\ Len(v) = n
      /\ \A i \in 1 .. Len(w) : v[i] = w[i]
      /\ v[n] = r
  BY <1>1, OneMore DEF TableOK
<1>3. /\ u = [rows |-> u.rows, counter |-> u.counter]
      /\ u.rows = [k \in DOMAIN u.rows |-> u.rows[k]]
      /\ u.counter = n
      /\ DOMAIN u.rows = DOMAIN t.rows \cup {n}
      /\ \A k \in DOMAIN t.rows : k # n /\ u.rows[k] = t.rows[k]
      /\ Shaped(u.rows[n])
      /\ u.rows[n].op = event.op /\ u.rows[n].facts = f
      /\ u.rows[n].digest = Digest(f)
      /\ u.rows[n].prev = PreviousHash(t.rows)
      /\ u.rows[n].hash = Hash(j, event.op, Digest(f), f,
                               PreviousHash(t.rows))
  BY AppendMakes
<1>4. /\ j \in 1 .. n /\ j \notin DOMAIN t.rows
      /\ DOMAIN t.rows = 1 .. Len(w) =>
           /\ j = n
           /\ PreviousHash(t.rows) =
                IF Len(w) = 0 THEN None ELSE t.rows[Len(w)].hash
  BY NextIs
<1>5. DOMAIN t.rows \subseteq 1 .. Len(w)
  BY DEF TableOK
<1>6. /\ u.rows[n].hash[1] = j /\ u.rows[n].hash[2] = event.op
      /\ u.rows[n].hash[4] = f
  BY <1>3 DEF Hash
<1> HIDE DEF r, f, j
<1>7. HashKnown(u.rows, v, u.rows[n].hash)
  BY <1>1, <1>2, <1>3, <1>4, <1>6 DEF HashKnown
<1>8. ASSUME NEW k \in DOMAIN t.rows
      PROVE  HashKnown(u.rows, v, u.rows[k].hash)
  <2>1. HashKnown(t.rows, w, t.rows[k].hash) /\ u.rows[k] = t.rows[k]
    BY <1>3 DEF TableOK
  <2> QED
    BY <1>2, <1>3, <1>5, <2>1 DEF HashKnown
<1>9. TableOK(u, v)
  <2>1. DOMAIN u.rows \subseteq 1 .. Len(v)
    BY <1>2, <1>3, <1>5
  <2>2. ASSUME NEW k \in DOMAIN u.rows
        PROVE  /\ Shaped(u.rows[k])
               /\ u.rows[k].op \in Op \cup {Junk}
               /\ u.rows[k].facts \in Payload \ Secret
               /\ HashKnown(u.rows, v, u.rows[k].hash)
    <3>1. CASE k = n
      BY <1>1, <1>3, <1>7, <3>1
    <3>2. CASE k \in DOMAIN t.rows
      BY <1>3, <1>8, <3>2 DEF TableOK
    <3> QED
      BY <1>3, <3>1, <3>2
  <2> QED
    BY <1>2, <1>3, <2>1, <2>2 DEF TableOK
<1>10. Newest(u, v)
  BY <1>2, <1>3 DEF Newest
<1>11. ASSUME Intact(t, w)
       PROVE  Intact(u, v)
  <2>1. DOMAIN t.rows = 1 .. Len(w) /\ DOMAIN u.rows = 1 .. Len(v)
    BY <1>2, <1>3, <1>11 DEF Intact
  <2>2. ASSUME NEW k \in 1 .. Len(w)
        PROVE  Sound(u.rows, k)
    <3>1. Sound(t.rows, k) /\ u.rows[k] = t.rows[k]
      BY <1>3, <1>11, <2>1 DEF Intact
    <3>2. k # 1 => k - 1 \in DOMAIN t.rows
      BY <1>2, <2>1
    <3>3. k # 1 => u.rows[k - 1] = t.rows[k - 1]
      BY <1>3, <3>2
    <3> QED
      BY <1>3, <2>1, <3>1, <3>3 DEF Sound
  <2>3. Sound(u.rows, n)
    <3>1. j = n /\ PreviousHash(t.rows) =
                     IF Len(w) = 0 THEN None ELSE t.rows[Len(w)].hash
      BY <1>4, <2>1
    <3>2. Len(w) # 0 => u.rows[Len(w)] = t.rows[Len(w)]
      BY <1>2, <1>3, <2>1
    <3>3. u.rows[n].prev = IF n = 1 THEN None ELSE u.rows[n - 1].hash
      BY <1>2, <1>3, <3>1, <3>2
    <3> QED
      BY <1>3, <3>1, <3>3 DEF Sound
  <2> QED
    BY <1>2, <2>1, <2>2, <2>3 DEF Intact
<1> QED
  BY <1>9, <1>10, <1>11

\* The events of a transaction, one or two, are appended one after the other.
LEMMA Concatenated ==
    ASSUME NEW w \in Seq(Evidence), NEW a \in Event
    PROVE  /\ w \o [i \in DOMAIN <<a>> |-> Recorded(<<a>>[i])]
                = Append(w, Recorded(a))
           /\ \A b \in Event :
                w \o [i \in DOMAIN <<a, b>> |-> Recorded(<<a, b>>[i])]
                   = Append(Append(w, Recorded(a)), Recorded(b))
<1>1. Recorded(a) \in Evidence /\ \A b \in Event : Recorded(b) \in Evidence
  BY NothingSecret
<1>2. [i \in DOMAIN <<a>> |-> Recorded(<<a>>[i])] = <<Recorded(a)>>
  OBVIOUS
<1>3. w \o <<Recorded(a)>> = Append(w, Recorded(a))
  BY <1>1
<1>4. ASSUME NEW b \in Event
      PROVE  w \o [i \in DOMAIN <<a, b>> |-> Recorded(<<a, b>>[i])]
                = Append(Append(w, Recorded(a)), Recorded(b))
  <2>1. [i \in DOMAIN <<a, b>> |-> Recorded(<<a, b>>[i])]
           = <<Recorded(a), Recorded(b)>>
    OBVIOUS
  <2>2. PICK x \in Evidence, y \in Evidence : x = Recorded(a) /\ y = Recorded(b)
    BY <1>1
  <2>3. w \o <<x, y>> = Append(Append(w, x), y)
    OBVIOUS
  <2> QED
    BY <2>1, <2>2, <2>3
<1> QED
  BY <1>2, <1>3, <1>4

\* A transaction keeps the table, and an intact one intact.
LEMMA TransactionKeeps ==
    ASSUME TableOK(table, written), NEW a \in Event, NEW b \in Event,
           Transaction(<<a>>) \/ Transaction(<<a, b>>)
    PROVE  /\ TableOK(table', written') /\ Newest(table', written')
           /\ Intact(table, written) => Intact(table', written')
           /\ Len(written) <= Len(written') /\ Len(written) \in Nat
           /\ Len(written') \in Nat /\ fresh'
<1>0. written \in Seq(Evidence)
  BY DEF TableOK
<1> DEFINE v == Append(written, Recorded(a))
           u == AppendEvidence(table, a)
<1>1. TableOK(u, v) /\ Newest(u, v)
      /\ (Intact(table, written) => Intact(u, v))
  BY AppendKeeps
<1>2. Recorded(a) \in Evidence /\ Recorded(b) \in Evidence
  BY NothingSecret
<1>3. v \in Seq(Evidence) /\ Len(v) = Len(written) + 1 /\ Len(written) \in Nat
  BY <1>0, <1>2, OneMore
<1>4. CASE Transaction(<<a>>)
  <2>1. table' = u
    BY <1>4 DEF Transaction, Appended
  <2>2. written' = v
    BY <1>0, <1>4, Concatenated DEF Transaction
  <2>3. fresh'
    BY <1>4 DEF Transaction
  <2> HIDE DEF u, v
  <2> QED
    BY <1>1, <1>3, <2>1, <2>2, <2>3
<1>5. CASE Transaction(<<a, b>>)
  <2>1. table' = AppendEvidence(u, b)
    BY <1>5 DEF Transaction, Appended
  <2>2. written' = Append(v, Recorded(b))
    BY <1>0, <1>5, Concatenated DEF Transaction
  <2>3. fresh'
    BY <1>5 DEF Transaction
  <2> HIDE DEF u, v
  <2>4. /\ TableOK(table', written') /\ Newest(table', written')
        /\ Intact(u, v) => Intact(table', written')
    BY <1>1, <2>1, <2>2, AppendKeeps
  <2>5. Len(written') = Len(v) + 1
    BY <1>2, <1>3, <2>2, OneMore
  <2> QED
    BY <1>1, <1>3, <2>3, <2>4, <2>5
<1> QED
  BY <1>4, <1>5

-----------------------------------------------------------------------------
(* Damage. *)

\* A row that holds nothing but what an edit can leave in it: a hash it found
\* in the table, or one of no row.
Possible(row) ==
    /\ Shaped(row)
    /\ row.op \in Op \cup {Junk} /\ row.facts \in Payload \ Secret
    /\ row.hash \in Hashes \cup {JunkHash}

\* Rows made of such rows, in places that were taken, keep the table: a hash
\* is known by its number, wherever it is put.
LEMMA DamageKeeps ==
    ASSUME TableOK(table, written), NEW rows, Damages(rows),
           rows = [k \in DOMAIN rows |-> rows[k]],
           DOMAIN rows \subseteq Ids,
           \A k \in DOMAIN rows : Possible(rows[k])
    PROVE  TableOK(table, written)'
<1> DEFINE w == written
<1>1. /\ table' = [rows |-> rows, counter |-> table.counter]
      /\ table'.rows = rows /\ table'.counter = table.counter
      /\ written' = w
  BY DEF Damages, TableOK
<1>2. /\ w \in Seq(Evidence) /\ table.counter = Len(w) /\ Len(w) \in Nat
      /\ Ids \subseteq 1 .. Len(w)
      /\ \A i \in Ids : HashKnown(table.rows, w, table.rows[i].hash)
  BY DEF TableOK, Ids
<1>3. ASSUME NEW h \in Hashes \cup {JunkHash}
      PROVE  HashKnown(rows, w, h)
  <2>1. CASE h = JunkHash
    <3>1. h[1] = 0
      BY <2>1 DEF JunkHash, Hash
    <3> QED
      BY <1>2, <3>1 DEF HashKnown
  <2>2. CASE h \in Hashes
    <3>1. HashKnown(table.rows, w, h)
      BY <1>2, <2>2 DEF Hashes
    <3> QED
      BY <3>1 DEF HashKnown, Ids
  <2> QED
    BY <2>1, <2>2
<1> HIDE DEF w
<1>4. TableOK(table', w)
  BY <1>1, <1>2, <1>3 DEF TableOK, Possible
<1> QED
  BY <1>1, <1>4

\* The rows of the table are possible rows.
LEMMA RowsArePossible ==
    ASSUME TableOK(table, written)
    PROVE  \A k \in Ids : Possible(table.rows[k])
BY DEF TableOK, Possible, Ids, Hashes

\* An edited column leaves a possible row.
LEMMA EditedIsPossible ==
    ASSUME TableOK(table, written), NEW k \in Ids,
           NEW row \in EditedRows(table.rows[k])
    PROVE  Possible(row)
<1> DEFINE r == table.rows[k]
<1>1. Possible(r)
  BY RowsArePossible
<1>2. r = [op |-> r.op, digest |-> r.digest, facts |-> r.facts,
           prev |-> r.prev, hash |-> r.hash]
  BY <1>1 DEF Possible, Shaped
<1>3. /\ r.op \in Op \cup {Junk} /\ r.facts \in Payload \ Secret
      /\ r.hash \in Hashes \cup {JunkHash}
  BY <1>1 DEF Possible
<1>4. \/ \E o \in Op \cup {Junk} : row = [r EXCEPT !.op = o]
      \/ \E f \in Payload \ Secret : row = [r EXCEPT !.facts = f]
      \/ \E f \in Payload \ Secret : row = [r EXCEPT !.digest = Digest(f)]
      \/ \E h : row = [r EXCEPT !.prev = h]
      \/ \E h \in Hashes \cup {JunkHash} : row = [r EXCEPT !.hash = h]
  BY DEF EditedRows
<1> HIDE DEF r
<1>5. PICK o, d, f, v, h : r = [op |-> o, digest |-> d, facts |-> f,
                                prev |-> v, hash |-> h]
  BY <1>2
<1> QED
  BY <1>3, <1>4, <1>5 DEF Possible, Shaped

\* No damage makes an unknown hash known.
LEMMA DamagedTable ==
    ASSUME TableOK(table, written), NEW k \in Ids,
           \/ EditColumn(k) \/ DeleteRow(k)
           \/ \E i \in Ids : ExchangeRows(k, i)
    PROVE  TableOK(table, written)'
<1> USE DEF Ids
<1>0. table.rows = [i \in Ids |-> table.rows[i]]
  BY DEF TableOK
<1>1. \A i \in Ids : Possible(table.rows[i])
  BY RowsArePossible
<1>2. CASE EditColumn(k)
  <2>1. PICK row \in EditedRows(table.rows[k]) :
                Damages([table.rows EXCEPT ![k] = row])
    BY <1>2 DEF EditColumn
  <2>2. Possible(row)
    BY EditedIsPossible
  <2> DEFINE rows == [table.rows EXCEPT ![k] = row]
  <2>3. /\ rows = [i \in DOMAIN rows |-> rows[i]] /\ DOMAIN rows = Ids
        /\ \A i \in Ids : rows[i] = row \/ rows[i] = table.rows[i]
    OBVIOUS
  <2> HIDE DEF rows
  <2>4. \A i \in DOMAIN rows : Possible(rows[i])
    BY <1>1, <2>2, <2>3
  <2> QED
    BY <2>1, <2>3, <2>4, DamageKeeps DEF rows
<1>3. CASE DeleteRow(k)
  <2> DEFINE rows == [i \in Ids \ {k} |-> table.rows[i]]
  <2>1. Damages(rows)
    BY <1>3 DEF DeleteRow, Restrict
  <2>2. /\ rows = [i \in DOMAIN rows |-> rows[i]]
        /\ DOMAIN rows \subseteq Ids
        /\ \A i \in DOMAIN rows : rows[i] = table.rows[i]
    OBVIOUS
  <2> HIDE DEF rows
  <2>3. \A i \in DOMAIN rows : Possible(rows[i])
    BY <1>1, <2>2
  <2> QED
    BY <2>1, <2>2, <2>3, DamageKeeps
<1>4. ASSUME NEW i \in Ids, ExchangeRows(k, i)
      PROVE  TableOK(table, written)'
  <2> DEFINE rows == [table.rows EXCEPT ![k] = table.rows[i],
                                        ![i] = table.rows[k]]
  <2>1. Damages(rows)
    BY <1>4 DEF ExchangeRows
  <2>2. /\ rows = [j \in DOMAIN rows |-> rows[j]] /\ DOMAIN rows = Ids
        /\ \A j \in Ids : \E m \in Ids : rows[j] = table.rows[m]
    OBVIOUS
  <2> HIDE DEF rows
  <2>3. \A j \in DOMAIN rows : Possible(rows[j])
    BY <1>1, <2>2
  <2> QED
    BY <2>1, <2>2, <2>3, DamageKeeps
<1> QED
  BY <1>2, <1>3, <1>4

-----------------------------------------------------------------------------
(* What verifyChain says of a table. *)

\* An intact table verifies to the last event.
LEMMA IntactVerifies ==
    ASSUME NEW t, NEW w, TableOK(t, w), Intact(t, w)
    PROVE  VerifyChain(t.rows) = [ok |-> TRUE, checked |-> Len(w)]
<1>1. Len(w) \in Nat /\ DOMAIN t.rows = 1 .. Len(w)
      /\ \A k \in 1 .. Len(w) : Sound(t.rows, k)
  BY DEF TableOK, Intact
<1>2. Verified(t.rows) = 1 .. Len(w)
  BY <1>1 DEF Verified
<1>3. Cardinality(1 .. Len(w)) = Len(w)
  BY <1>1, FS_Interval
<1> QED
  BY <1>1, <1>2, <1>3 DEF VerifyChain

\* What verifyChain counts is what was written.
LEMMA CountedIsWritten ==
    ASSUME TableOK(table, written)
    PROVE  CheckedIsGenuine
<1> SUFFICES ASSUME NEW k \in 1 .. VerifyChain(table.rows).checked
             PROVE  /\ table.rows[k].op = written[k].op
                    /\ table.rows[k].facts = written[k].facts
  BY DEF CheckedIsGenuine
<1>1. Len(written) \in Nat /\ DOMAIN table.rows \subseteq 1 .. Len(written)
  BY DEF TableOK
<1>2. k \in DOMAIN table.rows /\ Sound(table.rows, k)
  BY <1>1, Counted
<1>3. HashKnown(table.rows, written, table.rows[k].hash)
  BY <1>2 DEF TableOK
<1>4. /\ table.rows[k].hash[1] = k
      /\ table.rows[k].hash[2] = table.rows[k].op
      /\ table.rows[k].hash[4] = table.rows[k].facts
  BY <1>2 DEF Sound, Hash
<1> QED
  BY <1>2, <1>3, <1>4 DEF HashKnown

\* With the newest event there, a satisfied verifyChain has counted them all.
LEMMA NothingLost ==
    ASSUME TableOK(table, written), Newest(table, written),
           VerifyChain(table.rows).ok
    PROVE  VerifyChain(table.rows).checked = Len(written)
<1> DEFINE n == VerifyChain(table.rows).checked
<1>1. Len(written) \in Nat /\ DOMAIN table.rows \subseteq 1 .. Len(written)
  BY DEF TableOK
<1>2. n \in Nat /\ DOMAIN table.rows = 1 .. n
  BY <1>1, Counted
<1> HIDE DEF n
<1>3. n <= Len(written)
  BY <1>1, <1>2
<1>4. Len(written) <= n
  BY <1>1, <1>2 DEF Newest
<1> QED
  BY <1>1, <1>2, <1>3, <1>4 DEF n

-----------------------------------------------------------------------------
(* The invariant, step by step. *)

\* An empty table is an intact one.
LEMMA InitialChain == Init => ChainInv
<1> SUFFICES ASSUME Init PROVE ChainInv
  OBVIOUS
<1> USE ChainAssumption DEF ChainAssumption
<1>1. /\ table = [rows |-> <<>>, counter |-> 0] /\ written = <<>>
      /\ bundle = [p \in Proc |-> NoBundle] /\ fresh = TRUE /\ damage = 0
      /\ status = [p \in Proc |-> "down"]
  BY DEF Init
<1>2. table.rows = <<>> /\ table.counter = 0 /\ DOMAIN table.rows = {}
  BY <1>1
<1>3. written \in Seq(Evidence) /\ Len(written) = 0
  BY <1>1
<1>4. table.rows = [k \in DOMAIN table.rows |-> table.rows[k]]
  BY <1>2
<1>5. TableOK(table, written)
  BY <1>1, <1>2, <1>3, <1>4 DEF TableOK
<1>6. Newest(table, written) /\ Intact(table, written)
  BY <1>2, <1>3 DEF Newest, Intact
<1>7. \A p \in Proc : BundleOK(p)
  BY <1>1 DEF BundleOK, NoBundle
<1>8. bundle \in [Proc -> Bundle]
  BY <1>1 DEF NoBundle, Bundle
<1> QED
  BY <1>1, <1>5, <1>6, <1>7, <1>8 DEF ChainInv

\* Written events are never taken back, so an export in progress stays good.
LEMMA WritingStep ==
    ASSUME ChainInv, NEW p \in Proc, Commit(p) \/ ResumeWrites(p)
    PROVE  ChainInv'
<1>1. PICK a \in Event, b \in Event : Transaction(<<a>>) \/ Transaction(<<a, b>>)
  BY DEF Commit, ResumeWrites
<1>2. /\ TableOK(table', written') /\ Newest(table', written')
      /\ Intact(table, written) => Intact(table', written')
      /\ Len(written) <= Len(written') /\ Len(written) \in Nat
      /\ Len(written') \in Nat /\ fresh'
  BY <1>1, TransactionKeeps DEF ChainInv
<1>3. /\ UNCHANGED <<status, bundle, damage>>
      /\ fresh' = TRUE
  BY <1>1 DEF Commit, ResumeWrites, Transaction
<1>4. ASSUME NEW q \in Proc, BundleOK(q)
      PROVE  BundleOK(q)'
  BY <1>2, <1>3, <1>4 DEF BundleOK
<1>5. damage' = 0 => Intact(table', written') /\ \A q \in Proc : BundleOK(q)'
  BY <1>2, <1>3, <1>4 DEF ChainInv
<1>6. /\ bundle' \in [Proc -> Bundle] /\ damage' \in 0 .. MaxDamage
      /\ status' \in [Proc -> {"down", "starting", "serving", "exporting"}]
  BY <1>3 DEF ChainInv
<1> QED
  BY <1>2, <1>3, <1>5, <1>6 DEF ChainInv

\* Damage ends what is promised of an undamaged file only.
LEMMA DamageStep ==
    ASSUME ChainInv, NEW k \in Ids,
           \/ EditColumn(k) \/ DeleteRow(k)
           \/ \E i \in Ids : ExchangeRows(k, i)
    PROVE  ChainInv'
<1>1. TableOK(table, written)'
  BY DamagedTable DEF ChainInv
<1>2. PICK rows : Damages(rows)
  BY DEF EditColumn, DeleteRow, ExchangeRows
<1>3. /\ damage' = damage + 1 /\ damage < MaxDamage /\ fresh' = FALSE
      /\ UNCHANGED <<status, bundle, written>>
  BY <1>2 DEF Damages
<1>4. damage' \in 0 .. MaxDamage /\ damage' # 0
  BY <1>3, ChainAssumption DEF ChainAssumption, ChainInv
<1> QED
  BY <1>1, <1>3, <1>4 DEF ChainInv

\* Starting, checking and stopping end or keep a bundle.
LEMMA LifecycleStep ==
    ASSUME ChainInv, NEW p \in Proc, Start(p) \/ StartupCheck(p) \/ Stop(p)
    PROVE  ChainInv'
<1>1. UNCHANGED <<table, written, damage, fresh>>
  BY DEF Start, StartupCheck, Stop
<1>2. /\ status' \in [Proc -> {"down", "starting", "serving", "exporting"}]
      /\ bundle' \in [Proc -> Bundle]
      /\ \A q \in Proc \ {p} : status'[q] = status[q] /\ bundle'[q] = bundle[q]
      /\ status'[p] # "exporting"
      /\ \/ bundle'[p] = NoBundle
         \/ bundle'[p] = bundle[p] /\ status[p] # "exporting"
  <2>1. NoBundle \in Bundle
    BY DEF NoBundle, Bundle
  <2>2. /\ bundle \in [Proc -> Bundle]
        /\ status \in [Proc -> {"down", "starting", "serving", "exporting"}]
    BY DEF ChainInv
  <2> DEFINE next == IF VerifyChain(table.rows).ok THEN "serving" ELSE "down"
  <2>3. next \in {"serving", "down"}
    OBVIOUS
  <2>4. StartupCheck(p) => status[p] = "starting" /\ bundle' = bundle
                           /\ status' = [status EXCEPT ![p] = next]
    BY DEF StartupCheck
  <2> HIDE DEF next
  <2>5. CASE Start(p)
    <3>1. /\ bundle' = bundle /\ status[p] = "down"
          /\ status' = [status EXCEPT ![p] = "starting"]
      BY <2>5 DEF Start
    <3> QED
      BY <2>2, <3>1
  <2>6. CASE StartupCheck(p)
    BY <2>2, <2>3, <2>4, <2>6
  <2>7. CASE Stop(p)
    <3>1. /\ status' = [status EXCEPT ![p] = "down"]
          /\ bundle' = [bundle EXCEPT ![p] = NoBundle]
      BY <2>7 DEF Stop
    <3>2. /\ bundle' \in [Proc -> Bundle]
          /\ bundle'[p] = NoBundle
          /\ \A q \in Proc \ {p} : bundle'[q] = bundle[q]
      BY <2>1, <2>2, <3>1
    <3>3. /\ status' \in [Proc -> {"down", "starting", "serving", "exporting"}]
          /\ status'[p] # "exporting"
          /\ \A q \in Proc \ {p} : status'[q] = status[q]
      BY <2>2, <3>1
    <3> QED
      BY <3>2, <3>3
  <2> QED
    BY <2>5, <2>6, <2>7
<1>3. ASSUME NEW q \in Proc, BundleOK(q)
      PROVE  BundleOK(q)'
  BY <1>1, <1>2, <1>3 DEF BundleOK, NoBundle
<1> QED
  BY <1>1, <1>2, <1>3 DEF ChainInv

\* The events are read before the chain is verified, and by then there can
\* only be more.
LEMMA ExportStep ==
    ASSUME ChainInv, NEW p \in Proc, BeginExport(p) \/ EndExport(p)
    PROVE  ChainInv'
<1>1. UNCHANGED <<table, written, damage, fresh>>
  BY DEF BeginExport, EndExport
<1>2. /\ Len(written) \in Nat /\ Ids \subseteq 1 .. Len(written)
      /\ VerifyChain(table.rows).checked \in Nat
      /\ damage = 0 => VerifyChain(table.rows).checked = Len(written)
  <2>1. /\ Len(written) \in Nat /\ DOMAIN table.rows \subseteq 1 .. Len(written)
        /\ TableOK(table, written) /\ (damage = 0 => Intact(table, written))
    BY DEF ChainInv, TableOK
  <2>2. VerifyChain(table.rows).checked \in Nat
    BY <2>1, Counted
  <2>3. damage = 0 => VerifyChain(table.rows).checked = Len(written)
    <3>1. ASSUME damage = 0
          PROVE  VerifyChain(table.rows) = [ok |-> TRUE, checked |-> Len(written)]
      BY <2>1, <3>1, IntactVerifies
    <3> QED
      BY <3>1
  <2> QED
    BY <2>1, <2>2, <2>3 DEF Ids
<1>3. ASSUME NEW b \in Bundle
      PROVE  ReadNext(b) =
               IF b.events = None
               THEN [b EXCEPT !.events = {k \in Ids : table.rows[k].op = b.op}]
               ELSE [b EXCEPT !.checked = VerifyChain(table.rows).checked]
  BY DEF ReadNext, ReadEvents, ReadChain
<1>4. CASE BeginExport(p)
  <2>1. PICK o \in Op :
          bundle' = [bundle EXCEPT ![p] = ReadNext([NoBundle EXCEPT !.op = o])]
    BY <1>4 DEF BeginExport
  <2> DEFINE E == {k \in Ids : table.rows[k].op = o}
             b == [op |-> o, events |-> None, checked |-> None]
             c == [op |-> o, events |-> E, checked |-> None]
  <2>2. [NoBundle EXCEPT !.op = o] = b /\ b \in Bundle
    BY DEF NoBundle, Bundle
  <2>3. E \subseteq 1 .. Len(written)
    BY <1>2
  <2>4. ReadNext(b) = c
    <3>1. ReadNext(b) = [b EXCEPT !.events = {k \in Ids : table.rows[k].op = b.op}]
      BY <2>2 DEF ReadNext, ReadEvents
    <3>2. {k \in Ids : table.rows[k].op = b.op} = E
      OBVIOUS
    <3> HIDE DEF E
    <3> QED
      BY <3>1, <3>2
  <2>5. c \in Bundle
    BY <1>2, <2>3 DEF Bundle
  <2>6. /\ bundle' = [bundle EXCEPT ![p] = c]
        /\ status' = [status EXCEPT ![p] = "exporting"]
    BY <1>4, <2>1, <2>2, <2>4 DEF BeginExport
  <2>7. c.checked = None /\ c.events \subseteq 1 .. Len(written)
    BY <2>3
  <2> HIDE DEF c
  <2>8. /\ status' \in [Proc -> {"down", "starting", "serving", "exporting"}]
        /\ bundle' \in [Proc -> Bundle]
        /\ \A q \in Proc \ {p} : status'[q] = status[q] /\ bundle'[q] = bundle[q]
        /\ status'[p] = "exporting" /\ bundle'[p] = c
    BY <2>5, <2>6 DEF ChainInv
  <2>9. ASSUME NEW q \in Proc, BundleOK(q)
        PROVE  BundleOK(q)'
    BY <1>1, <2>7, <2>8, <2>9 DEF BundleOK
  <2> QED
    BY <1>1, <2>8, <2>9 DEF ChainInv
<1>5. CASE EndExport(p)
  <2> DEFINE b == bundle[p]
             c == ReadNext(b)
  <2>1. /\ status[p] = "exporting"
        /\ status' = [status EXCEPT ![p] = "serving"]
        /\ bundle' = [bundle EXCEPT ![p] = c]
    BY <1>5 DEF EndExport
  <2>2. b \in Bundle
    BY DEF ChainInv
  <2>3. c \in Bundle
    BY <1>2, <1>3, <2>2 DEF Bundle
  <2>4. ASSUME damage = 0, BundleOK(p)
        PROVE  c.checked # None => c.events \subseteq 1 .. c.checked
    <3>1. b.checked = None
          /\ (b.events = None \/ b.events \subseteq 1 .. Len(written))
      BY <2>1, <2>4 DEF BundleOK
    <3> QED
      BY <1>2, <1>3, <2>2, <2>4, <3>1 DEF Bundle
  <2> HIDE DEF c
  <2>5. /\ status' \in [Proc -> {"down", "starting", "serving", "exporting"}]
        /\ bundle' \in [Proc -> Bundle]
        /\ \A q \in Proc \ {p} : status'[q] = status[q] /\ bundle'[q] = bundle[q]
        /\ status'[p] = "serving" /\ bundle'[p] = c
    BY <2>1, <2>3 DEF ChainInv
  <2>6. ASSUME NEW q \in Proc, damage = 0, BundleOK(q)
        PROVE  BundleOK(q)'
    BY <1>1, <2>4, <2>5, <2>6 DEF BundleOK
  <2> QED
    BY <1>1, <2>5, <2>6 DEF ChainInv
<1> QED
  BY <1>4, <1>5

\* Every step of the chain keeps its invariant.
LEMMA ChainStep == ChainInv /\ [Next]_vars => ChainInv'
<1> SUFFICES ASSUME ChainInv, [Next]_vars PROVE ChainInv'
  OBVIOUS
<1>1. CASE UNCHANGED vars
  BY <1>1 DEF vars, ChainInv, BundleOK
<1> QED
  BY <1>1, WritingStep, DamageStep, LifecycleStep, ExportStep DEF Next

-----------------------------------------------------------------------------
(* The properties. *)

\* The invariant holds in every state: whatever is written, by however many
\* processes, and however the file is damaged in between.
THEOREM ChainInvariant == ChainSpec => []ChainInv
BY InitialChain, ChainStep, PTL DEF ChainSpec

\* The table keeps its shape and its ids, and no payload that holds a
\* credential is ever at rest (redactValue).
THEOREM ChainTypeCorrect == ChainSpec => []ChainTypeOK
<1>1. ASSUME ChainInv PROVE ChainTypeOK
  <2>1. /\ table.counter \in Nat /\ Ids \subseteq 1 .. table.counter
        /\ \A k \in Ids : /\ table.rows[k].op \in Op \cup {Junk}
                          /\ table.rows[k].facts \in Payload \ Secret
        /\ written \in Seq([op : Op, facts : Payload \ Secret])
    BY <1>1 DEF ChainInv, TableOK, Ids, Evidence
  <2> QED
    BY <1>1, <2>1 DEF ChainInv, ChainTypeOK
<1> QED
  BY <1>1, ChainInvariant, PTL

\* A file nobody has damaged always verifies: transactions of one or two
\* events, restarts and several processes leave no gap, no broken link and no
\* wrong number (appendEvidence against verifyChain).
THEOREM UndamagedAlwaysVerifies == ChainSpec => []UndamagedVerifies
<1>1. ASSUME ChainInv PROVE UndamagedVerifies
  <2>1. TableOK(table, written) /\ (damage = 0 => Intact(table, written))
    BY <1>1 DEF ChainInv
  <2>2. ASSUME damage = 0
        PROVE  VerifyChain(table.rows) = [ok |-> TRUE, checked |-> Len(written)]
    BY <2>1, <2>2, IntactVerifies
  <2> QED
    BY <2>2 DEF UndamagedVerifies
<1> QED
  BY <1>1, ChainInvariant, PTL

\* What verifyChain counts was written, in that place and unaltered, whatever
\* was done to the file and however it was written on afterwards.
THEOREM CountedWasWritten == ChainSpec => []CheckedIsGenuine
<1>1. ASSUME ChainInv PROVE CheckedIsGenuine
  <2>1. TableOK(table, written)
    BY <1>1 DEF ChainInv
  <2> QED
    BY <2>1, CountedIsWritten
<1> QED
  BY <1>1, ChainInvariant, PTL

\* Once anything has been written after a loss, no verdict "ok" hides it: the
\* key generator left a gap that appendEvidence's own numbering does not have.
THEOREM NoLossHidden == ChainSpec => []NoLossWrittenOver
<1>1. ASSUME ChainInv PROVE NoLossWrittenOver
  <2> SUFFICES ASSUME VerifyChain(table.rows).ok, fresh
               PROVE  VerifyChain(table.rows).checked = Len(written)
    BY DEF NoLossWrittenOver
  <2>1. TableOK(table, written) /\ Newest(table, written)
    BY <1>1 DEF ChainInv
  <2> QED
    BY <2>1, NothingLost
<1> QED
  BY <1>1, ChainInvariant, PTL

\* An exported bundle's events are covered by the check it carries, whoever
\* writes between exportEvidence's two SELECTs.
THEOREM ExportsCovered == ChainSpec => []ExportIsCovered
<1>1. ASSUME ChainInv PROVE ExportIsCovered
  BY <1>1 DEF ChainInv, ExportIsCovered, BundleOK
<1> QED
  BY <1>1, ChainInvariant, PTL
=============================================================================
