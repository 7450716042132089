---------------------------- MODULE ApiExchange ----------------------------
(***************************************************************************)
(* The conversation with a provider for one reservation                    *)
(* (Service::execute_reserved_api_request_at): requests are sent one at a  *)
(* time, a reply that is not a success may be tried again while requests   *)
(* are left in the reservation, and whatever follows a success is either   *)
(* read as a whole answer and paid for, or left uncertain for an operator. *)
(* The provider and the network are the environment: a request may be lost *)
(* before or after the provider carried it out, a reply may come through a *)
(* gateway, and a stream may be cut after any event or hold any event.     *)
(***************************************************************************)
EXTENDS ResponseStream

CONSTANTS Requests,      \* requests reserved
          MaxEvents,     \* events of a body: a bound of the model
          ReplyStatus,   \* status codes of replies that are not successes
          ErrorCode,     \* error codes of their bodies
          Value,         \* response objects
          Event,         \* stream events
          Price,         \* [input, cached, created, output]: per Denominator
          Denominator,   \* TOKEN_RATE_DENOMINATOR
          Tokens         \* [input, output]: tokens reserved

\* What an event of each type carries, beside what a parser does not look at.
IsBlockEvent(e) ==
    e.type \in {"content_block_start", "content_block_delta", "content_block_stop"}
Carries(e) ==
    /\ IsBlockEvent(e) => e.index \in Index
    /\ e.type = "content_block_start" => e.kind \in STRING
    /\ e.type = "content_block_delta" => e.kind \in STRING /\ e.piece \in STRING
    /\ e.type = "message_start" => e.usage \in Usage /\ e.model \in STRING
    /\ e.type = "message_delta" => e.status \in STRING /\ e.output \in Count
    /\ e.type = "response.completed" => e.value \in Response

ASSUME ExchangeAssumption ==
    /\ Requests \in Nat \ {0} /\ MaxEvents \in Nat
    /\ ReplyStatus \subseteq (100..599) \ (200..299)
    /\ Denominator \in Nat \ {0}
    /\ Value \subseteq Response
    /\ \A e \in Event : e.type \in STRING /\ Carries(e)
    /\ Price \in [input: Nat, cached: Nat, created: Nat, output: Nat]
    /\ Tokens \in [input: Nat, output: Nat]

VARIABLES
    provider,   \* "openai" or "anthropic"
    streamed,   \* the request asked for a stream
    at,         \* "ready", "sending", "reading" or "ended"
    journal,    \* outcomes of the attempts, in order
    carriedOut, \* requests the provider carried out
    body,       \* what the provider sent of its answer
    parser,     \* what was read of it
    result      \* the answer that was settled, or None

vars == <<provider, streamed, at, journal, carriedOut, body, parser, result>>

-----------------------------------------------------------------------------
(* Costs: whole micros, rounded up once. *)

CostOf(u, output) ==
    LET micros == (u.input - u.cached - u.created) * Price.input
                    + u.cached * Price.cached + u.created * Price.created
                    + output * Price.output
    IN (micros + Denominator - 1) \div Denominator

\* Fault: the plain input is taken for the category that costs most.
PlainInput(input) == [input |-> input, cached |-> 0, created |-> 0]

\* All of the input in the category that costs most.
Dearest(input) ==
    LET rate == Max({Price.input, Price.cached, Price.created}) IN
    [input |-> input,
     cached |-> IF rate # Price.input /\ rate = Price.cached THEN input ELSE 0,
     created |-> IF rate \notin {Price.input, Price.cached} THEN input ELSE 0]

ReservedMicros == CostOf(Dearest(Tokens.input), Tokens.output)

-----------------------------------------------------------------------------
(* Replies that are not successes. *)

OutOfFunds(code) ==
    \/ provider = "openai" /\ code \in {"insufficient_quota", "billing_hard_limit_reached"}
    \/ provider = "anthropic" /\ code = "billing_error"

Invalid == {400, 404, 405, 409, 422}

ApiFailureKind(status, code) ==
    CASE status = 401 -> "authentication"
      [] status = 403 -> "permission"
      [] status = 429 -> IF OutOfFunds(code) THEN "usage_exhausted" ELSE "rate_limited"
      [] status \in Invalid -> "invalid_request"
      [] status = 408 \/ status \in 500..599 -> "transient"
      [] status \in (400..499) \ (Invalid \cup {401, 403, 408, 429}) -> "provider"
      [] OTHER -> "unknown"

Retryable(status, code) == ApiFailureKind(status, code) \in {"rate_limited", "transient"}

-----------------------------------------------------------------------------
(* The exchange. *)

Outcome == {"retryable_failure", "terminal_failure", "uncertain", "settled", "started"}

Attempt(outcome) == journal' = Append(journal, outcome)

\* An attempt is journalled before its request leaves.
Send ==
    /\ at = "ready"
    /\ at' = "sending"
    /\ body' = <<>>
    /\ parser' = Nothing
    /\ UNCHANGED <<provider, streamed, journal, carriedOut, result>>

\* What was received of an answer that is not read is dropped.
Uncertain ==
    /\ Attempt("uncertain")
    /\ at' = "ended"
    /\ body' = <<>>
    /\ parser' = Nothing
    /\ UNCHANGED <<provider, streamed, result>>

\* Fault: a transport that failed is tried again like a reply.
LostAndResent ==
    /\ at = "sending"
    /\ IF Len(journal) + 1 < Requests
       THEN Attempt("retryable_failure") /\ at' = "ready"
       ELSE Attempt("uncertain") /\ at' = "ended"
    /\ carriedOut' \in {carriedOut, carriedOut + 1}
    /\ UNCHANGED <<provider, streamed, result, body, parser>>

\* The connection fails, or the reply has no request id, another content type
\* or an empty body, or is too long: the provider may have done the work.
Lost ==
    /\ at = "sending"
    /\ Uncertain
    /\ carriedOut' \in {carriedOut, carriedOut + 1}

\* A reply that is no success: the provider did not carry out the request.
Refuse(status, code) ==
    LET again == Retryable(status, code) /\ Len(journal) + 1 < Requests IN
    /\ at = "sending"
    /\ Attempt(IF again THEN "retryable_failure" ELSE "terminal_failure")
    /\ at' = IF again THEN "ready" ELSE "ended"
    /\ UNCHANGED <<provider, streamed, carriedOut, body, parser, result>>

Accept ==
    /\ at = "sending"
    /\ carriedOut' = carriedOut + 1
    /\ at' = "reading"
    /\ UNCHANGED <<provider, streamed, journal, body, parser, result>>

\* What arrives next, and whether the parser of this provider takes it.
Takes(e) ==
    IF provider = "openai" THEN OpenAiTakes(parser, e) ELSE AnthropicTakes(parser, e)
After(e) ==
    IF provider = "openai" THEN AfterOpenAi(parser, e) ELSE AfterAnthropic(parser, e)

\* The first event a parser refuses decides the answer, whatever follows.
Receive(e) ==
    /\ at = "reading" /\ streamed
    /\ Len(body) < MaxEvents
    /\ UNCHANGED carriedOut
    /\ IF Takes(e)
       THEN /\ body' = Append(body, e)
            /\ parser' = After(e)
            /\ UNCHANGED <<provider, streamed, at, journal, result>>
       ELSE Uncertain

Settle(answer, received) ==
    /\ at' = "ended"
    /\ body' = received
    /\ UNCHANGED parser
    /\ result' = answer
    /\ Attempt(IF /\ answer.usage.input <= Tokens.input
                  /\ answer.output <= Tokens.output
                  /\ CostOf(answer.usage, answer.output) <= ReservedMicros
               THEN "settled" ELSE "started")
    /\ UNCHANGED <<provider, streamed>>

\* The whole body is there: an answer of the model that was asked is settled,
\* which a usage beyond the reservation refuses, leaving the attempt started.
Read(answer, received) ==
    IF answer # None /\ answer.model = "asked" THEN Settle(answer, received) ELSE Uncertain

\* The stream ends, or is cut between two events.
EndOfStream ==
    /\ at = "reading" /\ streamed /\ body # <<>>
    /\ Read(IF provider = "anthropic" THEN Assembled(parser) ELSE parser.finish, body)
    /\ UNCHANGED carriedOut

\* A body that is not streamed is one value.
WholeValue(v) == [type |-> "value", value |-> v]

WholeBody(v) ==
    /\ at = "reading" /\ ~streamed
    /\ Read(IF provider = "anthropic" THEN ParseAnthropicValue(v) ELSE ParseOpenAiValue(v),
            <<WholeValue(v)>>)
    /\ UNCHANGED carriedOut

Init ==
    /\ provider \in {"openai", "anthropic"}
    /\ streamed \in BOOLEAN
    /\ at = "ready"
    /\ journal = <<>>
    /\ carriedOut = 0
    /\ body = <<>>
    /\ parser = Nothing
    /\ result = None

Next ==
    \/ Send \/ Lost \/ Accept \/ EndOfStream
    \/ \E status \in ReplyStatus, code \in ErrorCode : Refuse(status, code)
    \/ \E e \in Event : Receive(e)
    \/ \E v \in Value : WholeBody(v)

Spec == Init /\ [][Next]_vars

ExchangeTypeOK ==
    /\ provider \in {"openai", "anthropic"} /\ streamed \in BOOLEAN
    /\ at \in {"ready", "sending", "reading", "ended"}
    /\ journal \in Seq(Outcome)
    /\ carriedOut \in Nat
    /\ body \in Seq(Event \cup {WholeValue(v) : v \in Value})
    /\ parser \in ParserRow
    /\ parser.finish \in (IF provider = "openai" THEN AnswerRow ELSE FinishRow) \cup {None}
    /\ result \in AnswerRow \cup {None}

-----------------------------------------------------------------------------
(* What a whole answer is, said of the events alone. *)

At(type)      == {n \in DOMAIN body : body[n].type = type}
AtBlock(t, i) == {n \in At(t) : body[n].index = i}
Told(i) == {n \in DOMAIN body : IsBlockEvent(body[n]) /\ body[n].index = i}

\* Each piece is where it was said, and nothing else is.
IsSaid(pieces, i) ==
    LET said == AtBlock("content_block_delta", i) IN
    /\ Len(pieces) = Cardinality(said)
    /\ \A n \in said : pieces[Rank(n, said)] = body[n].piece

\* One start, one end and one stop, in that order and around all the rest but
\* the end's marker; each block told of has one start and one stop around its
\* pieces; nothing is an error.
WholeStream ==
    /\ At("error") = {} /\ At("garbage") = {}
    /\ \E first \in At("message_start"), end \in At("message_delta"),
         last \in At("message_stop") :
        /\ At("message_start") = {first} /\ At("message_delta") = {end}
        /\ At("message_stop") = {last}
        /\ first < end /\ end < last
        /\ \A n \in DOMAIN body : n > last => body[n].type = "done"
        /\ \A i \in Index : Told(i) # {} =>
            \E s \in AtBlock("content_block_start", i), t \in AtBlock("content_block_stop", i) :
                /\ first < s
                /\ AtBlock("content_block_start", i) = {s}
                /\ AtBlock("content_block_stop", i) = {t}
                /\ \A n \in Told(i) : s <= n /\ n <= t
    /\ At("content_block_start") # {}

\* An answer that is settled is the whole of what the provider sent, block by
\* block and piece by piece, and its counters are the provider's: no cut, no
\* event out of place and no error is ever read as an answer
\* (api_providers.rs, parse_anthropic_response_stream, parse_openai_value).
AnswerIsWhole ==
    result # None =>
        /\ result.usage.cached + result.usage.created <= result.usage.input
        /\ result.usage.input <= MaxCount
        /\ streamed /\ provider = "anthropic" =>
            /\ WholeStream
            /\ LET told == {i \in Index : Told(i) # {}} IN
                /\ Len(result.items) = Cardinality(told)
                /\ \A i \in told : IsSaid(result.items[Rank(i, told)].pieces, i)
            /\ \A n \in DOMAIN result.items :
                result.items[n].kind = "tool" => WholeInput(result.items[n].pieces)
        /\ provider = "openai" =>
            \E n \in DOMAIN body :
                /\ body[n].type \in {"value", "response.completed"}
                /\ \A k \in DOMAIN body : k > n => body[k].type = "done"
                /\ At("error") = {} /\ At("garbage") = {}
                /\ body[n].value.items = result.items
                /\ result.usage.input + result.output = body[n].value.total

\* A request is carried out at most once: it is sent again only after a reply
\* that says it was not, and whatever else happens to it, a lost connection,
\* a cut or a malformed answer, ends the exchange (service.rs:774-850).
CarriedOutOnce == carriedOut <= 1

\* An answer within the reserved tokens is never refused for its cost: the
\* reservation was made at the dearest mix of the same price, and one rounding
\* of either does not change that (service.rs, worst_case_api_cost_micros).
CostIsCovered ==
    result # None /\ result.usage.input <= Tokens.input /\ result.output <= Tokens.output
        => journal[Len(journal)] = "settled"

=============================================================================
