------------------------------- MODULE Limiter --------------------------------
(***************************************************************************)
(* What a rate limit promises: a request is admitted exactly when, with    *)
(* it, no stretch of time up to now has seen more than its share: one      *)
(* second's worth at once, and the rate after it.                          *)
(***************************************************************************)
EXTENDS Integers, Sequences

CONSTANTS
    Flows,           \* whose requests are counted together
    Requests,
    Rate,           \* requests per second
    Second          \* ticks of the clock in a second

VARIABLES
    now,            \* the clock
    admitted,       \* per key: when its requests were admitted
    answers         \* per request: "none", "pass" or "429"

\* n requests in w ticks are within the rate.
Within(n, w) == Second * n <= Rate * Second + Rate * w

\* No stretch that ends with the last of these times is over the rate.
Conforms(times) ==
    \A i \in DOMAIN times :
        Within(Len(times) - i + 1, times[Len(times)] - times[i])

Init ==
    /\ now = 0
    /\ admitted = [k \in Flows |-> <<>>]
    /\ answers = [r \in Requests |-> "none"]

Tick == now' = now + 1 /\ UNCHANGED <<admitted, answers>>

Admit(r, k) ==
    /\ answers[r] = "none"
    /\ Conforms(Append(admitted[k], now))
    /\ admitted' = [admitted EXCEPT ![k] = Append(@, now)]
    /\ answers' = [answers EXCEPT ![r] = "pass"]
    /\ UNCHANGED now

Refuse(r, k) ==
    /\ answers[r] = "none"
    /\ ~Conforms(Append(admitted[k], now))
    /\ answers' = [answers EXCEPT ![r] = "429"]
    /\ UNCHANGED <<now, admitted>>

Next == Tick \/ \E r \in Requests, k \in Flows : Admit(r, k) \/ Refuse(r, k)

Spec == Init /\ [][Next]_<<now, admitted, answers>>
=============================================================================
