---------------------------- MODULE IntentRegistry ----------------------------
(***************************************************************************)
(* Intent identity: what POST /v1/intents answers, given the intents that  *)
(* are stored.  An intent and its operation are one row here, as they are  *)
(* created together and never separated.                                   *)
(*                                                                         *)
(* A trade is the name of the economic fields a request asks for, one name *)
(* for each way of writing them; account, symbol and time in force, which  *)
(* nothing here reads, are not spelt out.                                  *)
(*                                                                         *)
(* Bound: MaxIntents rows.                                                 *)
(***************************************************************************)
EXTENDS OrderMachine, Decimals

CONSTANTS
    Key,        \* idempotency keys, trimmed
    Trade,      \* economic contents of a request
    Fields,     \* what each of them says
    Cap,        \* the maxNotional a request may carry
    TooSmall,   \* the decimals that Number() rounds to zero
    ServerCap,  \* config.maxNotional
    MaxIntents

Amount == Decimal \cup {None}

ASSUME RegistryAssumption ==
    /\ \A t \in Trade :
         Fields[t] \in [side : {"BUY", "SELL"}, orderType : {"MARKET", "LIMIT"},
                       quantity : Amount, quoteQuantity : Amount,
                       limitPrice : Amount]
    /\ \A s, t \in Trade : Fields[s] = Fields[t] => s = t
    /\ Cap \subseteq Decimal /\ ServerCap \in Decimal /\ None \notin Decimal
    /\ MaxIntents \in Nat

VARIABLE intents   \* the intents table, oldest first, with its operations

Creation == [key : Key, trade : Trade, cap : Cap]

Intent == [key : Key, trade : Trade, cap : Cap, row : Row]

Ids == DOMAIN intents

RegistryTypeOK == intents \in Seq(Intent) /\ Len(intents) <= MaxIntents

-----------------------------------------------------------------------------
(* What a request is checked for before the journal is asked.              *)

ProperAmount(a) ==
    a = None \/ (~a.negative /\ IsPositive(a) /\ a \notin TooSmall)

\* createIntentRequestSchema.
WellFormed(t, cap) ==
    LET f == Fields[t] IN
    /\ ProperAmount(cap)
    /\ \A a \in {f.quantity, f.quoteQuantity, f.limitPrice} : ProperAmount(a)
    /\ (f.quantity = None) # (f.quoteQuantity = None)
    /\ f.orderType = "LIMIT" => f.limitPrice # None /\ f.quoteQuantity = None
    /\ f.orderType = "MARKET" => f.limitPrice = None

\* None for a MARKET order sized in base quantity.
EstimateNotional(t) ==
    LET f == Fields[t] IN
    CASE f.quoteQuantity # None -> f.quoteQuantity
      [] f.quoteQuantity = None /\ f.quantity # None /\ f.limitPrice # None
            -> MultiplyDecimal(f.quantity, f.limitPrice)
      [] OTHER -> None

WithinCaps(t, cap) ==
    EstimateNotional(t) # None => /\ CompareDecimal(EstimateNotional(t), cap) <= 0
                                  /\ CompareDecimal(cap, ServerCap) <= 0

Valid == [t \in Trade |-> {cap \in Cap : WellFormed(t, cap)}]

Affordable == [t \in Trade |-> {cap \in Valid[t] : WithinCaps(t, cap)}]

-----------------------------------------------------------------------------
\* A digest of the amounts only.
DigestOfNotional(r) == EstimateNotional(r.trade)

\* A digest that takes in the cap.
DigestWithCap(r) == <<r.trade, r.cap>>

\* intentDigest: the economic fields as written, neither cap nor expiry.
IntentDigest(r) == r.trade

WithKey(key) == {i \in Ids : intents[i].key = key}

\* What the request is answered: the row it gets, or a refusal.
Outcome(r) ==
    LET existing == WithKey(r.key)
        valid == r.cap \in Valid[r.trade]
        allowed == r.cap \in Affordable[r.trade]
        conflict == \E i \in existing :
                        IntentDigest(intents[i]) # IntentDigest(r)
        kind == CASE ~valid -> "VALIDATION_FAILED"
                  [] valid /\ ~allowed -> "NOTIONAL_CAP_EXCEEDED"
                  [] allowed /\ existing = {} -> "CREATED"
                  [] allowed /\ conflict -> "IDEMPOTENCY_CONFLICT"
                  [] allowed /\ existing # {} /\ ~conflict -> "REUSED"
    IN [kind |-> kind,
        intent |-> CASE kind = "CREATED" -> Len(intents) + 1
                     [] kind = "REUSED" -> CHOOSE i \in existing : TRUE
                     [] OTHER -> None]

\* The transaction of journal.createIntent.
Create(r) ==
    IF Outcome(r).kind = "CREATED"
    THEN /\ Len(intents) < MaxIntents
         /\ intents' = Append(intents, [key |-> r.key, trade |-> r.trade,
                                        cap |-> r.cap, row |-> NewRow])
    ELSE UNCHANGED intents

\* A command that the operation of intent i accepts.
Accepts(i, c) ==
    \E row \in Decide(intents[i].row, c) :
        intents' = [intents EXCEPT ![i].row = row]

\* Any command; a refused one changes nothing.
OnOperation(i, c) ==
    Accepts(i, c) \/ (Decide(intents[i].row, c) = {} /\ UNCHANGED intents)

-----------------------------------------------------------------------------
\* By the meaning of the decimals, a is at most b: at a place that is fine
\* enough for both.
AtMost(a, b) ==
    LET places == Len(a.fraction) + Len(b.fraction)
    IN Units(a, places) <= Units(b, places)

\* Likewise a times b is at most c.
ProductAtMost(a, b, c) ==
    LET left == Len(a.fraction) + Len(c.fraction)
        right == Len(b.fraction)
    IN Units(a, left) * Units(b, right) <= Units(c, left + right)

\* The notional of t, if it can be known beforehand, is at most cap.
WorthAtMost(t, cap) ==
    LET f == Fields[t] IN
    /\ f.quoteQuantity # None => AtMost(f.quoteQuantity, cap)
    /\ f.limitPrice # None => ProductAtMost(f.quantity, f.limitPrice, cap)

\* What each trade may be asked for with, by the meaning of the decimals.
TrueCaps == [t \in Trade |-> {cap \in Cap : WorthAtMost(t, cap)}]

CapsBelowServers == {cap \in Cap : AtMost(cap, ServerCap)}

Unpriced == {t \in Trade : Fields[t].orderType = "MARKET"
                             /\ Fields[t].quoteQuantity = None}

\* Where the worth of an order is known beforehand its caps hold exactly, to
\* the last digit and however the amounts are written: it is stored only if it
\* is worth no more than its cap and the cap no more than the server's, and is
\* never refused for a cap that it does not exceed (createIntent).  A MARKET
\* order sized in base quantity is no such order: the code holds it against
\* neither cap, although .env.example:24 speaks of "any single intent".
PricedCapsAreExact ==
    LET exact(t) == TrueCaps[t] \cap CapsBelowServers
    IN /\ \A t \in Trade \ Unpriced : Affordable[t] = Valid[t] \cap exact(t)
       /\ \A i \in Ids : intents[i].trade \notin Unpriced
                             => intents[i].cap \in exact(intents[i].trade)

\* Whoever repeats a key is given an operation for the trade that was asked
\* for, within the cap that was asked for where its worth is known beforehand,
\* even when the operation was created by an earlier request that carried
\* another cap (createIntent's digest check).
AnswerIsAskedFor ==
    \A i \in Ids, t \in Trade, cap \in Cap :
        LET answer == Outcome([key |-> intents[i].key, trade |-> t,
                               cap |-> cap])
        IN answer.kind = "REUSED" =>
             intents[answer.intent].trade = t /\ cap \in TrueCaps[t]

\* A request that is repeated with its key and trade is never refused as a
\* conflict, whatever cap the retry carries and whatever commands its operation
\* has been given since: it is given the operation it already has.
ConflictIsReal ==
    \A i \in Ids, cap \in Cap :
        LET retry == [intents[i] EXCEPT !.cap = cap]
        IN Outcome(retry).kind # "IDEMPOTENCY_CONFLICT"

\* However often an order is created, confirmed and executed under one key, by
\* the console, an agent or a late retry, it is dispatched once.
OneDispatchPerKey ==
    \A i \in Ids :
        intents[i].row.submits > 0 =>
            intents[i].row.submits = 1 /\ WithKey(intents[i].key) = {i}
=============================================================================
