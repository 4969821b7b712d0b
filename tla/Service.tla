------------------------------- MODULE Service --------------------------------
(***************************************************************************)
(* The HTTP service: a request goes in through the middlewares of its      *)
(* service, to the core handler, and out again, as a return or as a panic. *)
(*                                                                         *)
(* Routes models which handler a path has, RateLimiter what a rate limit   *)
(* admits; here both are any.  Bodies and headers are left out, but for    *)
(* what decides where a request goes.                                      *)
(***************************************************************************)
EXTENDS Naturals, Sequences, FiniteSetsExt

CONSTANTS
    Names,      \* of middlewares a service may declare, known or not
    MaxChain    \* bound: middlewares declared

Known == {"Logger", "CORS", "Recover", "RequestID", "JWT", "RateLimit"}

ASSUME ServiceAssumption == MaxChain \in Nat

VARIABLES
    declared,   \* the middlewares of the service, as declared
    chain,      \* those of the handler, outermost first
    request,    \* the request, NotYet before it comes
    phase,      \* "building"; then "in", "out" (a return), "panic"; in the end "sent" or "dropped"
    at,         \* the declared middleware to wrap next; then the layer the request
                \* enters, or leaves to: 0 is net/http, the last the core
    written,    \* the status codes written: by which layer, and the code
    logged,     \* what each layer that is a Logger passed to its log function
    claims,     \* the token whose claims req.context holds
    ran         \* whether the handler was called

svVars == <<declared, chain, request, phase, at, written, logged, claims, ran>>

Codes == {200, 401, 404, 429, 500}

Request == [
    preflight : BOOLEAN,                      \* an OPTIONS request
    origin    : {"allowed", "other"},         \* the Origin header, other if none
    token     : {"bad", "expired", "valid"},  \* the bearer token, bad if none
    limited   : BOOLEAN,                      \* over the rate, when it asks
    target    : {"/openapi.json", "no route", "not a function", "handler"},
    result    : {"value", "no value", "panic"}]           \* of the handler

\* A path has a target for its method: /openapi.json is served on GET; a
\* result is the handler's.  A body that ends in a declaration has no value at
\* all: Go's nil, of which valueToJSON makes a panic.
PossibleRequest(r) ==
    /\ r.preflight => r.target # "/openapi.json"
    /\ r.target # "handler" => r.result = "value"

NotYet == [target |-> "none"]

SvTypeOK ==
    /\ declared \in Seq(Names) /\ chain \in Seq(Known)
    /\ request \in Request \cup {NotYet}
    /\ phase \in {"building", "in", "out", "panic", "sent", "dropped"}
    /\ at \in 0..(IF phase = "building" THEN Len(declared) ELSE Len(chain) + 1)
    /\ written \in Seq([by : 1..Len(chain) + 1, code : Codes])
    /\ \A i \in DOMAIN logged : chain[i] = "Logger" /\ logged[i] \in Codes
    /\ claims \in {"none", "valid"} /\ ran \in BOOLEAN

-----------------------------------------------------------------------------
(* The chain, when the service is built. *)

SvInit ==
    /\ declared \in UNION {[1..n -> Names] : n \in 0..MaxChain}
    /\ phase = "building" /\ at = Len(declared)
    /\ chain = <<>> /\ request = NotYet
    /\ written = <<>> /\ logged = <<>>
    /\ claims = "none" /\ ran = FALSE

Building == phase = "building" /\ at # 0

\* What Wrap could be: the last middleware outermost.
WrapInOrder ==
    /\ Building
    /\ chain' = IF declared[at] \in Known THEN Append(chain, declared[at]) ELSE chain
    /\ at' = at - 1
    /\ UNCHANGED <<declared, request, phase, written, logged, claims, ran>>

\* resolveMiddlewares and Chain, of one name: names without a middleware are
\* left out, the others wrap from the last backward, so that the first is outermost.
Wrap ==
    /\ Building
    /\ chain' = IF declared[at] \in Known THEN <<declared[at]>> \o chain ELSE chain
    /\ at' = at - 1
    /\ UNCHANGED <<declared, request, phase, written, logged, claims, ran>>

\* The server serves: any request, to the outermost layer.
Arrive ==
    /\ phase = "building" /\ at = 0
    /\ request' \in {r \in Request : PossibleRequest(r)}
    /\ phase' = "in" /\ at' = 1
    /\ UNCHANGED <<declared, chain, written, logged, claims, ran>>

-----------------------------------------------------------------------------
(* On the way in. *)

Entering(kind) == phase = "in" /\ at \in DOMAIN chain /\ chain[at] = kind

Pass ==
    /\ at' = at + 1
    /\ UNCHANGED <<declared, chain, request, phase, written, logged, ran>>

\* The layer answers, without the ones it wraps.
Respond(code) ==
    /\ written' = Append(written, [by |-> at, code |-> code])
    /\ phase' = "out" /\ at' = at - 1
    /\ UNCHANGED <<declared, chain, request, logged>>

\* LoggerMiddleware, RecoverMiddleware, RequestIDMiddleware.
EnterPlain ==
    /\ \E kind \in {"Logger", "Recover", "RequestID"} : Entering(kind)
    /\ Pass /\ UNCHANGED claims

Preflight == request.origin = "allowed" /\ request.preflight

\* CORSMiddleware: answers the preflight of an allowed origin, passes all else.
EnterCORS ==
    /\ Entering("CORS")
    /\ IF Preflight THEN Respond(200) /\ UNCHANGED ran ELSE Pass
    /\ UNCHANGED claims

\* What verifyJWT could accept: a token whose time is over.
EnterJWTUndated ==
    /\ Entering("JWT")
    /\ IF request.token \in {"expired", "valid"} THEN Pass /\ claims' = request.token
       ELSE Respond(401) /\ UNCHANGED <<claims, ran>>

\* JWTMiddleware: a verified token in date, or a 401.
EnterJWT ==
    /\ Entering("JWT")
    /\ IF request.token = "valid" THEN Pass /\ claims' = request.token
       ELSE Respond(401) /\ UNCHANGED <<claims, ran>>

EnterRateLimit ==
    /\ Entering("RateLimit")
    /\ IF request.limited THEN Respond(429) /\ UNCHANGED ran ELSE Pass
    /\ UNCHANGED claims

\* coreHandler: the document, no route, a handler that is none, or the call,
\* which nothing here recovers from.  The status of the result is written
\* before its JSON is made; 200 stands for the status of any result.
Core ==
    /\ phase = "in" /\ at = Len(chain) + 1
    /\ ran' = (request.target = "handler")
    /\ \/ request.target = "/openapi.json" /\ Respond(200)
       \/ request.target = "no route" /\ Respond(404)
       \/ request.target = "not a function" /\ Respond(500)
       \/ request.target = "handler" /\ request.result = "value" /\ Respond(200)
       \/ /\ request.target = "handler" /\ request.result # "value"
          /\ phase' = "panic" /\ at' = at - 1
          /\ written' = IF request.result = "panic" THEN written
                        ELSE Append(written, [by |-> at, code |-> 200])
          /\ UNCHANGED <<declared, chain, request, logged>>
    /\ UNCHANGED claims

-----------------------------------------------------------------------------
(* On the way out. *)

Leaving == phase \in {"out", "panic"} /\ at \in DOMAIN chain

Below(i) == {k \in DOMAIN written : written[k].by > i}

\* What responseWriter could keep: the first status code it sees.
FirstStatus(i) == IF Below(i) = {} THEN 200 ELSE written[Min(Below(i))].code

\* responseWriter.status, of the Logger at a layer: the last code written below.
Status(i) == IF Below(i) = {} THEN 200 ELSE written[Max(Below(i))].code

\* A Logger logs what returns, and nothing of what panics.
LeaveLogger ==
    /\ Leaving /\ chain[at] = "Logger"
    /\ logged' = IF phase = "panic" THEN logged
                 ELSE [i \in DOMAIN logged \cup {at} |-> IF i = at THEN Status(at) ELSE logged[i]]
    /\ at' = at - 1
    /\ UNCHANGED <<declared, chain, request, phase, written, claims, ran>>

\* Recover makes a panic return, and writes a 500.
LeaveRecover ==
    /\ Leaving /\ chain[at] = "Recover"
    /\ IF phase = "panic" THEN Respond(500)
       ELSE at' = at - 1 /\ UNCHANGED <<declared, chain, request, phase, written, logged>>
    /\ UNCHANGED <<claims, ran>>

LeavePlain ==
    /\ Leaving /\ chain[at] \notin {"Logger", "Recover"}
    /\ at' = at - 1
    /\ UNCHANGED <<declared, chain, request, phase, written, logged, claims, ran>>

\* net/http sends the answer, or drops the connection.
Finish ==
    /\ phase \in {"out", "panic"} /\ at = 0
    /\ phase' = IF phase = "out" THEN "sent" ELSE "dropped"
    /\ UNCHANGED <<declared, chain, request, at, written, logged, claims, ran>>

SvNext ==
    \/ Wrap \/ Arrive
    \/ EnterPlain \/ EnterCORS \/ EnterJWT \/ EnterRateLimit \/ Core
    \/ LeaveLogger \/ LeaveRecover \/ LeavePlain \/ Finish

SvSpec == SvInit /\ [][SvNext]_svVars
-----------------------------------------------------------------------------
(* Properties. *)

\* The code the client gets: net/http takes the first and ignores the others.
Sent == IF written = <<>> THEN 200 ELSE written[1].code

\* The code with which a middleware refuses the request, 0 if it lets it in.
Refusal(name) ==
    CASE name = "CORS" /\ Preflight               -> 200
      [] name = "JWT" /\ request.token # "valid"  -> 401
      [] name = "RateLimit" /\ request.limited    -> 429
      [] OTHER                                    -> 0

Refusing == {i \in DOMAIN declared : Refusal(declared[i]) # 0}

\* Middlewares act in declaration order: the first declared that refuses
\* decides the answer, alone; the handler runs when none does, with the claims
\* of the token if a JWT is declared.
DeclarationOrder ==
    phase \in {"sent", "dropped"} =>
        IF Refusing # {}
        THEN /\ \E i \in Refusing : (\A j \in Refusing : i <= j) /\ Sent = Refusal(declared[i])
             /\ ~ran /\ phase = "sent"
        ELSE /\ ran <=> request.target = "handler"
             /\ (\E i \in DOMAIN declared : declared[i] = "JWT") => claims = "valid"

\* The handler ended, and what it ended with made the writer panic after the
\* status was written.
Late == ran = TRUE /\ request.result = "no value"

\* What a Logger logs, wherever it stands, is what the client gets, also when
\* a panic was turned into an answer below it; but of a panic that came after
\* the status a Logger outside Recover logs the 500 the client never saw.
LoggedIsSent == phase = "sent" => \A i \in DOMAIN logged : logged[i] = IF Late THEN 500 ELSE Sent

\* A handler that panics is a 500 behind Recover, wherever it stands, and no
\* answer without one; but behind Recover a late panic keeps the status that
\* was written, and the error Recover writes is its body.
PanicsAreAnswered ==
    phase \in {"sent", "dropped"} /\ ran /\ request.result # "value"
        => IF \E i \in DOMAIN declared : declared[i] = "Recover"
           THEN phase = "sent" /\ Sent = IF Late THEN 200 ELSE 500
           ELSE phase = "dropped"

\* However a request ends, client and log agree on how, but for late panics;
\* and what becomes of those.
PanicsAreCaught == PanicsAreAnswered /\ LoggedIsSent
=============================================================================
