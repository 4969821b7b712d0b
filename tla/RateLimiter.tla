----------------------------- MODULE RateLimiter ------------------------------
(***************************************************************************)
(* The RateLimit middleware: token buckets, one for the service (rps) or   *)
(* one per client address (per_ip), each behind its lock, refilled by the  *)
(* time that has passed whenever a request asks.                           *)
(*                                                                         *)
(* Tokens are counted in parts of one Second-th, so that a tick refills    *)
(* Rate of them and a request costs Second: the floating point of the code *)
(* without its rounding.  A rate of zero or less builds no bucket and      *)
(* refuses nothing; the assumption leaves it out.                          *)
(***************************************************************************)
EXTENDS Integers, Sequences

CONSTANTS
    Addresses,      \* client addresses, as clientIP takes them from a request
    Shared,         \* the key of the bucket all share
    NoFlow,
    Requests,
    Rate,           \* rps
    Second,         \* ticks of the clock in a second
    MaxTime         \* bound: ticks ever

ASSUME RateLimiterAssumption ==
    /\ Shared \notin Addresses /\ NoFlow \notin Addresses \cup {Shared}
    /\ Rate \in Nat \ {0} /\ Second \in Nat \ {0} /\ MaxTime \in Nat

VARIABLES
    perIP,          \* which of the two middlewares
    now,            \* the clock
    buckets,        \* of the keys that have one: its tokens and its last refill
    asking,         \* per request: the key whose bucket it holds
    answers,        \* per request: "none", "pass" (to the next handler) or "429"
    admitted        \* per key: when requests were admitted (history)

rlVars == <<perIP, now, buckets, asking, answers, admitted>>

Flows == Addresses \cup {Shared}

Capacity == Rate * Second
Bucket == [tokens : 0..Capacity, last : 0..MaxTime]

RLTypeOK ==
    /\ perIP \in BOOLEAN
    /\ now \in 0..MaxTime
    /\ DOMAIN buckets \subseteq Flows
    /\ \A k \in DOMAIN buckets : buckets[k] \in Bucket /\ buckets[k].last <= now
    /\ asking \in [Requests -> Flows \cup {NoFlow}]
    /\ \A r \in Requests : asking[r] # NoFlow => asking[r] \in DOMAIN buckets
    /\ answers \in [Requests -> {"none", "pass", "429"}]
    /\ admitted \in [Flows -> Seq(0..MaxTime)]

\* newBucket: full, as of now.
Fresh == [tokens |-> Capacity, last |-> now]

\* RateLimitMiddleware makes its bucket when the service is built.
RLInit ==
    /\ perIP \in BOOLEAN
    /\ now = 0
    /\ buckets = [k \in IF perIP THEN {} ELSE {Shared} |-> Fresh]
    /\ asking = [r \in Requests |-> NoFlow]
    /\ answers = [r \in Requests |-> "none"]
    /\ admitted = [k \in Flows |-> <<>>]

RLTick ==
    /\ now < MaxTime
    /\ now' = now + 1
    /\ UNCHANGED <<perIP, buckets, asking, answers, admitted>>

FlowsOf == IF perIP THEN Addresses ELSE {Shared}

\* getBucket, under the map's lock: the bucket of the key, new if there is none.
GetBucket(r) ==
    /\ answers[r] = "none" /\ asking[r] = NoFlow
    /\ \E k \in FlowsOf :
         /\ asking' = [asking EXCEPT ![r] = k]
         /\ buckets' = [q \in DOMAIN buckets \cup {k} |->
                            IF q \in DOMAIN buckets THEN buckets[q] ELSE Fresh]
    /\ UNCHANGED <<perIP, now, answers, admitted>>

\* What the bucket of a key holds once it is refilled.
Refilled(b) ==
    LET tokens == b.tokens + (now - b.last) * Rate IN
    IF tokens < Capacity THEN tokens ELSE Capacity

Answer(r, tokens, answer) ==
    /\ buckets' = [buckets EXCEPT ![asking[r]] = [tokens |-> tokens, last |-> now]]
    /\ answers' = [answers EXCEPT ![r] = answer]
    /\ asking' = [asking EXCEPT ![r] = NoFlow]
    /\ UNCHANGED <<perIP, now>>

\* What Allow could be: the time of a refused request counted again by the next.
AllowRecounting(r) ==
    /\ asking[r] # NoFlow
    /\ LET b == buckets[asking[r]] IN
       IF Refilled(b) >= Second
       THEN /\ Answer(r, Refilled(b) - Second, "pass")
            /\ admitted' = [admitted EXCEPT ![asking[r]] = Append(@, now)]
       ELSE /\ buckets' = [buckets EXCEPT ![asking[r]].tokens = Refilled(b)]
            /\ answers' = [answers EXCEPT ![r] = "429"]
            /\ asking' = [asking EXCEPT ![r] = NoFlow]
            /\ UNCHANGED <<perIP, now, admitted>>

\* tokenBucket.Allow, under the bucket's lock, which it takes again: others
\* may have asked in between.
Allow(r) ==
    /\ asking[r] # NoFlow
    /\ LET tokens == Refilled(buckets[asking[r]]) IN
       IF tokens >= Second
       THEN /\ Answer(r, tokens - Second, "pass")
            /\ admitted' = [admitted EXCEPT ![asking[r]] = Append(@, now)]
       ELSE Answer(r, tokens, "429") /\ UNCHANGED admitted

RLNext == RLTick \/ \E r \in Requests : GetBucket(r) \/ Allow(r)

RLSpec == RLInit /\ [][RLNext]_rlVars
-----------------------------------------------------------------------------
(* Properties. *)

Abstract == INSTANCE Limiter

\* However the requests of a key interleave, between any two that were
\* admitted there are no more than a second's burst and the rate allow.
RateBound ==
    \A k \in Flows : \A i, j \in DOMAIN admitted[k] :
        i <= j => Abstract!Within(j - i + 1, admitted[k][j] - admitted[k][i])

\* And none is refused without need: the buckets admit exactly what the
\* sliding windows of Limiter admit, though they keep two numbers per key.
ImplementsLimiter == Abstract!Spec
=============================================================================
