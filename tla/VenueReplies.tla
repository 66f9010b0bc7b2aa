---------------------------- MODULE VenueReplies ----------------------------
(***************************************************************************)
(* What the Binance adapter makes of a raw HTTP response, for a submission *)
(* and for a status query, and which responses an honest venue, behind     *)
(* proxies that may answer in its place, can give.                         *)
(*                                                                         *)
(* A response is its status class and the shape of its body; JSON that is  *)
(* neither null nor recognisable is PARTIAL.  Error codes are kept apart   *)
(* as far as the adapter does.                                             *)
(***************************************************************************)

Http == {"200", "LIMITED", "409", "5XX", "OTHER"}

\* -1007, -2013, and all others.
VenueCode == {"TIMEOUT", "NOT_FOUND", "REFUSAL"}

RawResponse == [status : Http, body : {"UNPARSED", "NULL", "PARTIAL", "ORDER"}]
                 \cup [status : Http, body : {"ERROR"}, code : VenueCode]

HasVenueError(r) == r.body = "ERROR"

-----------------------------------------------------------------------------
\* toObservation on a body that parsed; null is dereferenced.
ToObservation(body) == CASE body = "ORDER" -> "OBSERVED"
                         [] body = "NULL" -> "THROWS"
                         [] OTHER -> "NOTHING"

\* Any error envelope taken for the venue's refusal, whatever the status.
ClassifyByEnvelope(r) ==
    CASE r.status = "200" /\ r.body = "ORDER" -> "ACKNOWLEDGED"
      [] r.status = "200" /\ r.body = "NULL" -> "THROWS"
      [] r.status # "200" /\ HasVenueError(r) -> "REJECTED"
      [] OTHER -> "AMBIGUOUS"

ClassifySubmission(r) ==
    CASE r.status = "200" /\ r.body = "UNPARSED" -> "AMBIGUOUS"
      [] r.status = "200" /\ r.body # "UNPARSED" ->
            [OBSERVED |-> "ACKNOWLEDGED", THROWS |-> "THROWS",
             NOTHING |-> "AMBIGUOUS"][ToObservation(r.body)]
      [] /\ r.status = "OTHER" /\ HasVenueError(r)
         /\ r.code # "TIMEOUT" -> "REJECTED"
      [] OTHER -> "AMBIGUOUS"

\* statusCall.
ClassifyStatus(r) ==
    CASE r.status = "200" /\ r.body # "UNPARSED" ->
            [OBSERVED |-> "OBSERVED", THROWS |-> "THROWS",
             NOTHING |-> "UNAVAILABLE"][ToObservation(r.body)]
      [] /\ r.status # "200" /\ HasVenueError(r)
         /\ r.code = "NOT_FOUND" -> "ABSENT"
      [] OTHER -> "UNAVAILABLE"

-----------------------------------------------------------------------------
(* The venue's honesty.  It describes an order only if there is one; it    *)
(* identifies itself with a plain refusal only if it will never take the   *)
(* order; and it says -2013 to a query only while it has no such order.    *)
(* A 5xx, a 409, a rate limit and whatever a proxy makes up may come       *)
(* whatever has happened.                                                  *)

HonestToSubmission(r, accepted, refused) ==
    /\ r.status = "200" /\ r.body = "ORDER" => accepted
    /\ r.status = "OTHER" /\ HasVenueError(r) => r.code = "TIMEOUT" \/ refused

HonestToQuery(r, accepted) ==
    /\ r.body = "ORDER" => accepted
    /\ HasVenueError(r) => (r.code = "NOT_FOUND" => ~accepted)
=============================================================================
