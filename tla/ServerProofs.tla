----------------------------- MODULE ServerProofs -----------------------------
(***************************************************************************)
(* What a server built by Yoru keeps, for every value of the constants.    *)
(*                                                                         *)
(* The rate limiter: the bound on what is admitted, and that its token     *)
(* buckets admit exactly what the sliding windows of Limiter admit.  A     *)
(* bucket forgets when its requests came; the inductive invariant ties it  *)
(* to them: a bucket misses, of its capacity, what the worst of the        *)
(* windows that end with its last refill has used and not got back.        *)
(*                                                                         *)
(* The chain of middlewares: the layers are those declared, in the order   *)
(* declared, and a panic ends as the answer of Recover, or of the status    *)
(* it came after.                                                          *)
(*                                                                         *)
(* The routes: the OpenAPI document has what the router serves behind its  *)
(* prefix, of the patterns that both read alike.                           *)
(*                                                                         *)
(* The MCP server: what is read is answered, once and in order, and what   *)
(* is to wait for the handshake or the key waits.                          *)
(*                                                                         *)
(* A service and its stores (StoreProofs) in one, as MCBackend has them.   *)
(***************************************************************************)
EXTENDS MCBackend, MCPServer, StoreProofs

-----------------------------------------------------------------------------
(* The rate limiter.                                                        *)

\* What n requests cost, what w ticks give back.
Cost(n) == Second * n
Gain(w) == Rate * w

Spent(k, i)     == Cost(Len(admitted[k]) - i + 1)
Regained(k, i) == Gain(buckets[k].last - admitted[k][i])

Covers(k, i) == buckets[k].tokens + Spent(k, i) <= Capacity + Regained(k, i)
Meets(k, i)  == buckets[k].tokens + Spent(k, i) = Capacity + Regained(k, i)

\* A bucket is full or met by a window, and covers them all.
Balanced(k) ==
    /\ \A i \in DOMAIN admitted[k] : admitted[k][i] <= buckets[k].last /\ Covers(k, i)
    /\ buckets[k].tokens = Capacity \/ \E i \in DOMAIN admitted[k] : Meets(k, i)

Ledger ==
    \A k \in Flows : IF k \in DOMAIN buckets THEN Balanced(k) ELSE admitted[k] = <<>>

AsksOnce == \A r \in Requests : asking[r] # NoFlow => answers[r] = "none"

RLInv == RLTypeOK /\ AsksOnce /\ Ledger /\ RateBound

USE RateLimiterAssumption

LEMMA Distribute == \A a, b, c \in Int : a * (b + c) = a * b + a * c
  BY SMT

LEMMA Products == \A a, b \in Nat : a * b \in Nat
  BY SMT

\* What time passing gives back is the sum of what its parts give back.
LEMMA RegainAdds ==
    ASSUME NEW t \in Int, NEW u \in Int, NEW v \in Int
    PROVE  Gain(v - t) = Gain(v - u) + Gain(u - t) /\ Gain(v - t) \in Int
<1>1. v - t = (v - u) + (u - t) /\ Rate \in Int
  OBVIOUS
<1>2. QED
  BY <1>1, Distribute DEF Gain

LEMMA NoTimeNoGain == Gain(0) = 0
  BY DEF Gain

\* One request more costs a Second more.
LEMMA OneMore ==
    ASSUME NEW n \in Int
    PROVE  Cost(n + 1) = Cost(n) + Second /\ Cost(n) \in Int
  BY Distribute DEF Cost

LEMMA OneCosts == Cost(1) = Second
  BY DEF Cost

LEMMA CapacityIsNat == Capacity \in Nat /\ Second <= Capacity
<1>1. Rate * Second = Second + (Rate - 1) * Second
  OBVIOUS
<1>2. (Rate - 1) * Second \in Nat
  BY Products
<1>3. QED
  BY <1>1, <1>2 DEF Capacity

-----------------------------------------------------------------------------
(* The refill of a bucket keeps its balance, as of now. *)

\* What the bucket of a key would cover and meet, had it these tokens now.
CoversNow(k, i, tokens) == tokens + Spent(k, i) <= Capacity + Gain(now - admitted[k][i])
MeetsNow(k, i, tokens)  == tokens + Spent(k, i) = Capacity + Gain(now - admitted[k][i])

LEMMA RefillBalances ==
    ASSUME RLTypeOK, NEW k \in Flows, k \in DOMAIN buckets, Balanced(k)
    PROVE  LET tokens == Refilled(buckets[k]) IN
           /\ tokens \in 0..Capacity
           /\ \A i \in DOMAIN admitted[k] :
                /\ admitted[k][i] \in 0..now
                /\ CoversNow(k, i, tokens)
           /\ tokens = Capacity \/ \E i \in DOMAIN admitted[k] : MeetsNow(k, i, tokens)
<1> DEFINE b == buckets[k]
           tokens == Refilled(b)
           gain == Gain(now - b.last)
<1>1. /\ b.tokens \in 0..Capacity /\ b.last \in Nat /\ b.last <= now /\ now \in Nat
      /\ admitted[k] \in Seq(0..MaxTime)
  BY DEF RLTypeOK, Bucket
<1>2. gain \in Nat
  BY <1>1, Products DEF Gain
<1>3. tokens = IF b.tokens + gain < Capacity THEN b.tokens + gain ELSE Capacity
  BY <1>1 DEF Refilled, Gain
<1> HIDE DEF tokens, gain
<1>4. tokens \in 0..Capacity /\ tokens <= b.tokens + gain
  BY <1>1, <1>2, <1>3, CapacityIsNat
<1>5. ASSUME NEW i \in DOMAIN admitted[k]
      PROVE  /\ admitted[k][i] \in Nat /\ admitted[k][i] <= b.last
             /\ Spent(k, i) \in Int /\ Regained(k, i) \in Int
             /\ CoversNow(k, i, tokens) <=> tokens + Spent(k, i) <= Capacity + gain + Regained(k, i)
             /\ MeetsNow(k, i, tokens) <=> tokens + Spent(k, i) = Capacity + gain + Regained(k, i)
  <2>1. admitted[k][i] \in Nat /\ admitted[k][i] <= b.last
    BY <1>1 DEF Balanced
  <2>2. Spent(k, i) \in Int
    <3>1. Len(admitted[k]) - i + 1 \in Int
      BY <1>1
    <3>2. QED
      BY <3>1, OneMore DEF Spent
  <2>3. /\ Gain(now - admitted[k][i]) = gain + Regained(k, i)
        /\ Regained(k, i) \in Int
    <3>1. now \in Int /\ b.last \in Int /\ admitted[k][i] \in Int
      BY <1>1, <2>1
    <3>2. QED
      BY <3>1, RegainAdds, Zenon DEF Regained, gain
  <2>4. Capacity + (gain + Regained(k, i)) = Capacity + gain + Regained(k, i)
    BY <1>2, <2>3, CapacityIsNat
  <2>5. QED
    BY <2>1, <2>2, <2>3, <2>4 DEF CoversNow, MeetsNow
<1>6. \A i \in DOMAIN admitted[k] :
        /\ admitted[k][i] \in 0..now
        /\ CoversNow(k, i, tokens)
  <2>1. ASSUME NEW i \in DOMAIN admitted[k]
        PROVE  admitted[k][i] \in 0..now /\ CoversNow(k, i, tokens)
    <3>1. b.tokens + Spent(k, i) <= Capacity + Regained(k, i)
      BY DEF Balanced, Covers
    <3>2. PICK u \in Int, x \in Int : u = Spent(k, i) /\ x = Regained(k, i)
      BY <1>5
    <3>3. tokens \in Int /\ tokens <= b.tokens + gain
          /\ b.tokens \in Int /\ gain \in Int /\ Capacity \in Int
      BY <1>1, <1>2, <1>4, CapacityIsNat
    <3>4. tokens + u <= Capacity + gain + x
      BY <3>1, <3>2, <3>3
    <3>5. CoversNow(k, i, tokens)
      BY <3>2, <3>4, <1>5
    <3>6. QED
      BY <3>5, <1>1, <1>5
  <2>2. QED
    BY <2>1
<1>7. tokens = Capacity \/ \E i \in DOMAIN admitted[k] : MeetsNow(k, i, tokens)
  <2>1. CASE b.tokens + gain >= Capacity
    BY <2>1, <1>1, <1>2, <1>3, CapacityIsNat
  <2>2. CASE b.tokens + gain < Capacity
    <3>1. b.tokens # Capacity /\ tokens = b.tokens + gain
      BY <2>2, <1>1, <1>2, <1>3, CapacityIsNat
    <3>2. PICK i \in DOMAIN admitted[k] : Meets(k, i)
      BY <3>1 DEF Balanced
    <3>3. b.tokens + Spent(k, i) = Capacity + Regained(k, i)
      BY <3>2 DEF Meets
    <3>4. /\ b.tokens \in Int /\ gain \in Int /\ Capacity \in Int
          /\ Spent(k, i) \in Int /\ Regained(k, i) \in Int
      BY <1>1, <1>2, <1>5, CapacityIsNat
    <3>5. tokens + Spent(k, i) = Capacity + gain + Regained(k, i)
      BY <3>1, <3>3, <3>4
    <3>6. QED
      BY <3>5, <1>5
  <2>3. QED
    BY <2>1, <2>2, <1>1, <1>2, CapacityIsNat
<1>8. QED
  BY <1>4, <1>6, <1>7 DEF tokens

-----------------------------------------------------------------------------
(* The invariant. *)

LEMMA InitInv == RLInit => RLInv
<1> SUFFICES ASSUME RLInit PROVE RLInv
  OBVIOUS
<1>1. Capacity \in Nat
  BY CapacityIsNat
<1>2. \A k \in Flows : admitted[k] = <<>>
  BY DEF RLInit
<1>3. RLTypeOK
  BY <1>1 DEF RLInit, RLTypeOK, Bucket, Fresh, Flows
<1>4. AsksOnce
  BY DEF RLInit, AsksOnce
<1>5. Ledger
  BY <1>2 DEF RLInit, Ledger, Balanced, Fresh
<1>6. RateBound
  BY <1>2 DEF RateBound
<1>7. QED
  BY <1>3, <1>4, <1>5, <1>6 DEF RLInv

LEMMA TickInv == RLInv /\ RLTick => RLInv'
<1> SUFFICES ASSUME RLInv, RLTick PROVE RLInv'
  OBVIOUS
<1> USE DEF RLInv, RLTick
<1>1. RLTypeOK'
  BY DEF RLTypeOK, Bucket
<1>2. AsksOnce'
  BY DEF AsksOnce
<1>3. Ledger'
  BY DEF Ledger, Balanced, Covers, Meets, Spent, Regained
<1>4. RateBound'
  BY DEF RateBound
<1>5. QED
  BY <1>1, <1>2, <1>3, <1>4

LEMMA GetBucketInv == ASSUME RLInv, NEW r \in Requests, GetBucket(r) PROVE RLInv'
<1> USE DEF RLInv
<1>1. PICK k \in FlowsOf :
        /\ asking' = [asking EXCEPT ![r] = k]
        /\ buckets' = [q \in DOMAIN buckets \cup {k} |->
                           IF q \in DOMAIN buckets THEN buckets[q] ELSE Fresh]
  BY DEF GetBucket
<1>2. k \in Flows
  BY DEF FlowsOf, Flows
<1>3. RLTypeOK'
  <2>1. Fresh \in Bucket /\ Fresh.last = now
    BY CapacityIsNat DEF Fresh, Bucket, RLTypeOK
  <2>2. /\ DOMAIN buckets' = DOMAIN buckets \cup {k}
        /\ \A q \in DOMAIN buckets' : buckets'[q] \in Bucket /\ buckets'[q].last <= now
    BY <1>1, <2>1 DEF RLTypeOK
  <2>3. QED
    BY <1>1, <1>2, <2>2 DEF GetBucket, RLTypeOK
<1>4. AsksOnce'
  BY <1>1 DEF AsksOnce, GetBucket, RLTypeOK
<1>5. Ledger'
  <2> SUFFICES ASSUME NEW q \in Flows
               PROVE  (IF q \in DOMAIN buckets THEN Balanced(q) ELSE admitted[q] = <<>>)'
    BY DEF Ledger
  <2>1. CASE q \in DOMAIN buckets
    <3>1. q \in DOMAIN buckets' /\ buckets'[q] = buckets[q] /\ admitted' = admitted
      BY <2>1, <1>1 DEF GetBucket
    <3>2. QED
      BY <2>1, <3>1 DEF Ledger, Balanced, Covers, Meets, Spent, Regained
  <2>2. CASE q \notin DOMAIN buckets
    <3>1. admitted'[q] = <<>>
      BY <2>2 DEF Ledger, GetBucket
    <3>2. q \in DOMAIN buckets' => buckets'[q].tokens = Capacity
      BY <2>2, <1>1 DEF Fresh
    <3>3. QED
      BY <3>1, <3>2 DEF Balanced
  <2>3. QED
    BY <2>1, <2>2
<1>6. RateBound'
  BY DEF RateBound, GetBucket
<1>7. QED
  BY <1>3, <1>4, <1>5, <1>6

\* The pass and the refusal, apart.
Passes(r) ==
    LET tokens == Refilled(buckets[asking[r]]) IN
    /\ tokens >= Second
    /\ Answer(r, tokens - Second, "pass")
    /\ admitted' = [admitted EXCEPT ![asking[r]] = Append(@, now)]

Refuses(r) ==
    LET tokens == Refilled(buckets[asking[r]]) IN
    /\ ~(tokens >= Second)
    /\ Answer(r, tokens, "429")
    /\ UNCHANGED admitted

LEMMA AllowCases ==
    ASSUME RLInv, NEW r \in Requests, Allow(r)
    PROVE  /\ asking[r] \in DOMAIN buckets /\ asking[r] \in Flows
           /\ Balanced(asking[r])
           /\ Passes(r) \/ Refuses(r)
  BY DEF RLInv, RLTypeOK, Allow, Passes, Refuses, Ledger

\* What an answer with these tokens leaves in place.
LEMMA AnswerFrame ==
    ASSUME RLInv, NEW r \in Requests, asking[r] # NoFlow,
           NEW tokens \in 0..Capacity, NEW answer \in {"pass", "429"},
           Answer(r, tokens, answer)
    PROVE  /\ (perIP \in BOOLEAN /\ now \in 0..MaxTime)'
           /\ (DOMAIN buckets \subseteq Flows)'
           /\ (\A k \in DOMAIN buckets : buckets[k] \in Bucket /\ buckets[k].last <= now)'
           /\ (asking \in [Requests -> Flows \cup {NoFlow}])'
           /\ (\A q \in Requests : asking[q] # NoFlow => asking[q] \in DOMAIN buckets)'
           /\ (answers \in [Requests -> {"none", "pass", "429"}])'
           /\ AsksOnce'
           /\ DOMAIN buckets' = DOMAIN buckets
           /\ buckets'[asking[r]] = [tokens |-> tokens, last |-> now]
           /\ \A k \in DOMAIN buckets : k # asking[r] => buckets'[k] = buckets[k]
           /\ now' = now
<1> USE DEF RLInv, RLTypeOK
<1>1. asking[r] \in DOMAIN buckets
  OBVIOUS
<1>2. [tokens |-> tokens, last |-> now] \in Bucket
  BY DEF Bucket
<1>3. /\ DOMAIN buckets' = DOMAIN buckets /\ now' = now /\ perIP' = perIP
      /\ buckets'[asking[r]] = [tokens |-> tokens, last |-> now]
      /\ \A k \in DOMAIN buckets : k # asking[r] => buckets'[k] = buckets[k]
  BY <1>1 DEF Answer
<1>4. \A k \in DOMAIN buckets' : buckets'[k] \in Bucket /\ buckets'[k].last <= now
  <2>1. ASSUME NEW k \in DOMAIN buckets PROVE buckets'[k] \in Bucket /\ buckets'[k].last <= now
    <3>1. CASE k = asking[r]
      BY <3>1, <1>2, <1>3
    <3>2. CASE k # asking[r]
      BY <3>2, <1>3
    <3>3. QED
      BY <3>1, <3>2
  <2>2. QED
    BY <2>1, <1>3
<1>5. /\ asking' \in [Requests -> Flows \cup {NoFlow}]
      /\ \A q \in Requests : asking'[q] # NoFlow => q # r /\ asking'[q] = asking[q]
      /\ answers' \in [Requests -> {"none", "pass", "429"}]
      /\ \A q \in Requests : q # r => answers'[q] = answers[q]
  BY DEF Answer
<1>6. AsksOnce'
  BY <1>5 DEF AsksOnce
<1>7. QED
  BY <1>3, <1>4, <1>5, <1>6

LEMMA RefusalInv ==
    ASSUME RLInv, NEW r \in Requests, Allow(r), Refuses(r),
           NEW k, k = asking[r], NEW tokens, tokens = Refilled(buckets[k])
    PROVE  RLInv'
<1>1. k \in DOMAIN buckets /\ k \in Flows /\ Balanced(k) /\ k # NoFlow
  BY AllowCases DEF Allow
<1>2. /\ tokens \in 0..Capacity
      /\ \A i \in DOMAIN admitted[k] : admitted[k][i] \in 0..now /\ CoversNow(k, i, tokens)
      /\ tokens = Capacity \/ \E i \in DOMAIN admitted[k] : MeetsNow(k, i, tokens)
  BY <1>1, RefillBalances DEF RLInv
<1>3. Answer(r, tokens, "429") /\ admitted' = admitted
  BY DEF Refuses
<1>4. /\ DOMAIN buckets' = DOMAIN buckets
      /\ buckets'[k] = [tokens |-> tokens, last |-> now]
      /\ \A q \in DOMAIN buckets : q # k => buckets'[q] = buckets[q]
      /\ now' = now
  BY <1>1, <1>2, <1>3, AnswerFrame
<1>5. RLTypeOK' /\ AsksOnce'
  BY <1>1, <1>2, <1>3, AnswerFrame DEF RLTypeOK, RLInv
<1>6. Ledger'
  <2> SUFFICES ASSUME NEW q \in Flows
               PROVE  (IF q \in DOMAIN buckets THEN Balanced(q) ELSE admitted[q] = <<>>)'
    BY DEF Ledger
  <2>1. CASE q = k
    <3>1. /\ \A i \in DOMAIN admitted[k] :
                (Covers(k, i))' /\ admitted[k][i] <= now
          /\ tokens = Capacity \/ \E i \in DOMAIN admitted[k] : Meets(k, i)'
      BY <1>2, <1>3, <1>4 DEF Covers, Meets, CoversNow, MeetsNow, Spent, Regained
    <3>2. Balanced(k)'
      BY <3>1, <1>3, <1>4 DEF Balanced
    <3>3. QED
      BY <2>1, <3>2, <1>1, <1>4
  <2>2. CASE q # k /\ q \in DOMAIN buckets
    BY <2>2, <1>3, <1>4 DEF RLInv, Ledger, Balanced, Covers, Meets, Spent, Regained
  <2>3. CASE q # k /\ q \notin DOMAIN buckets
    BY <2>3, <1>3, <1>4 DEF RLInv, Ledger
  <2>4. QED
    BY <2>1, <2>2, <2>3
<1>7. RateBound'
  BY <1>3 DEF RLInv, RateBound
<1>8. QED
  BY <1>5, <1>6, <1>7 DEF RLInv

\* A request costs every window one more, and opens one of its own.
LEMMA AppendUses ==
    ASSUME NEW n \in Nat
    PROVE  /\ \A i \in 1..n : /\ Cost((n + 1) - i + 1) = Cost(n - i + 1) + Second
                             /\ Cost(n - i + 1) \in Int
           /\ Cost((n + 1) - (n + 1) + 1) = Second
<1>1. ASSUME NEW i \in 1..n
      PROVE  /\ Cost((n + 1) - i + 1) = Cost(n - i + 1) + Second
             /\ Cost(n - i + 1) \in Int
  <2>1. n - i + 1 \in Int /\ (n + 1) - i + 1 = (n - i + 1) + 1
    OBVIOUS
  <2>2. QED
    BY <2>1, OneMore
<1>2. Cost((n + 1) - (n + 1) + 1) = Second
  <2>1. (n + 1) - (n + 1) + 1 = 1
    OBVIOUS
  <2>2. QED
    BY <2>1, OneCosts
<1>3. QED
  BY <1>1, <1>2

LEMMA PassInv ==
    ASSUME RLInv, NEW r \in Requests, Allow(r), Passes(r),
           NEW k, k = asking[r], NEW tokens, tokens = Refilled(buckets[k]),
           NEW old, old = admitted[k], NEW new, new = Append(old, now)
    PROVE  RLInv'
<1>1. k \in DOMAIN buckets /\ k \in Flows /\ Balanced(k) /\ k # NoFlow
  BY AllowCases DEF Allow
<1>2. /\ tokens \in 0..Capacity
      /\ \A i \in DOMAIN admitted[k] : admitted[k][i] \in 0..now /\ CoversNow(k, i, tokens)
      /\ tokens = Capacity \/ \E i \in DOMAIN admitted[k] : MeetsNow(k, i, tokens)
  BY <1>1, RefillBalances DEF RLInv
<1>3. /\ tokens >= Second
      /\ Answer(r, tokens - Second, "pass")
      /\ admitted' = [admitted EXCEPT ![k] = Append(@, now)]
  BY DEF Passes
<1>4. tokens - Second \in 0..Capacity
  BY <1>2, <1>3, CapacityIsNat
<1>5. /\ DOMAIN buckets' = DOMAIN buckets
      /\ buckets'[k] = [tokens |-> tokens - Second, last |-> now]
      /\ \A q \in DOMAIN buckets : q # k => buckets'[q] = buckets[q]
      /\ now' = now
  BY <1>1, <1>3, <1>4, AnswerFrame
<1>6. now \in 0..MaxTime /\ admitted \in [Flows -> Seq(0..MaxTime)]
  BY DEF RLInv, RLTypeOK
<1>7. /\ admitted'[k] = new /\ \A q \in Flows : q # k => admitted'[q] = admitted[q]
      /\ admitted' \in [Flows -> Seq(0..MaxTime)]
      /\ old \in Seq(Nat) /\ now \in Nat
  BY <1>1, <1>3, <1>6
<1>8. RLTypeOK' /\ AsksOnce'
  BY <1>1, <1>3, <1>4, <1>7, AnswerFrame DEF RLTypeOK, RLInv
<1>9. /\ Len(new) = Len(old) + 1 /\ Len(old) \in Nat
      /\ DOMAIN new = 1..(Len(old) + 1) /\ DOMAIN old = 1..Len(old)
      /\ new[Len(new)] = now
      /\ \A i \in DOMAIN old :
            /\ new[i] = old[i]
            /\ Cost(Len(new) - i + 1) = Spent(k, i) + Second
            /\ Spent(k, i) \in Int
      /\ Cost(Len(new) - Len(new) + 1) = Second
  <2>1. \A i \in DOMAIN old : Spent(k, i) = Cost(Len(old) - i + 1)
    BY DEF Spent
  <2>2. /\ Len(new) = Len(old) + 1 /\ Len(old) \in Nat
        /\ DOMAIN new = 1..(Len(old) + 1) /\ DOMAIN old = 1..Len(old)
        /\ new[Len(new)] = now
        /\ \A i \in DOMAIN old :
              /\ new[i] = old[i]
              /\ Cost(Len(new) - i + 1) = Cost(Len(old) - i + 1) + Second
              /\ Cost(Len(old) - i + 1) \in Int
        /\ Cost(Len(new) - Len(new) + 1) = Second
    <3>1. /\ Len(new) = Len(old) + 1 /\ Len(old) \in Nat
          /\ DOMAIN new = 1..(Len(old) + 1) /\ DOMAIN old = 1..Len(old)
          /\ new[Len(new)] = now
          /\ \A i \in DOMAIN old : new[i] = old[i]
      BY <1>7
    <3>2. /\ \A i \in 1..Len(old) :
                /\ Cost((Len(old) + 1) - i + 1) = Cost(Len(old) - i + 1) + Second
                /\ Cost(Len(old) - i + 1) \in Int
          /\ Cost((Len(old) + 1) - (Len(old) + 1) + 1) = Second
      BY <3>1, AppendUses, Zenon
    <3>3. QED
      BY <3>1, <3>2
  <2>3. QED
    BY <2>1, <2>2
<1>10. /\ \A i \in DOMAIN old : old[i] \in 0..now /\ Gain(now - old[i]) \in Int
       /\ Gain(now - now) = 0
  <2>1. ASSUME NEW i \in DOMAIN old PROVE Gain(now - old[i]) \in Int
    <3>1. now \in Int /\ old[i] \in Int
      BY <1>2, <1>7
    <3>2. QED
      BY <3>1, RegainAdds
  <2>2. Gain(now - now) = 0
    <3>1. now - now = 0
      BY <1>7
    <3>2. QED
      BY <3>1, NoTimeNoGain
  <2>3. QED
    BY <1>2, <2>1, <2>2
\* With the request, every window is within what the tokens left allow.
<1>11. ASSUME NEW i \in DOMAIN new
       PROVE  /\ new[i] \in 0..now
              /\ Cost(Len(new) - i + 1) \in Int /\ Gain(now - new[i]) \in Int
              /\ (tokens - Second) + Cost(Len(new) - i + 1)
                    <= Capacity + Gain(now - new[i])
  <2>1. CASE i \in DOMAIN old
    <3>1. new[i] = old[i] /\ old[i] \in 0..now /\ Gain(now - old[i]) \in Int
      BY <2>1, <1>9, <1>10
    <3>2. tokens + Spent(k, i) <= Capacity + Gain(now - old[i])
      BY <2>1, <1>2 DEF CoversNow
    <3>3. Cost(Len(new) - i + 1) = Spent(k, i) + Second /\ Spent(k, i) \in Int
      BY <2>1, <1>9
    <3>4. PICK u \in Int, x \in Int : u = Spent(k, i) /\ x = Gain(now - old[i])
      BY <3>1, <3>3
    <3>5. (tokens - Second) + (u + Second) <= Capacity + x
      BY <3>2, <3>4, <1>2, CapacityIsNat
    <3>6. u + Second \in Int
      OBVIOUS
    <3>7. QED
      BY <3>1, <3>3, <3>4, <3>5, <3>6
  <2>2. CASE i = Len(new)
    BY <2>2, <1>2, <1>7, <1>9, <1>10, CapacityIsNat
  <2>3. QED
    BY <2>1, <2>2, <1>9
<1>12. Ledger'
  <2> SUFFICES ASSUME NEW q \in Flows
               PROVE  (IF q \in DOMAIN buckets THEN Balanced(q) ELSE admitted[q] = <<>>)'
    BY DEF Ledger
  <2>1. CASE q = k
    <3> /\ buckets'[k].tokens = tokens - Second /\ buckets'[k].last = now
        /\ admitted'[k] = new
      BY <1>5, <1>7
    <3>1. \A i \in DOMAIN new : Covers(k, i)' /\ new[i] <= now
      BY <1>11 DEF Covers, Spent, Regained
    <3>2. \E i \in DOMAIN new : Meets(k, i)'
      <4>1. CASE tokens = Capacity
        <5>1. Len(new) \in DOMAIN new
          BY <1>9
        <5>2. Meets(k, Len(new))'
          BY <4>1, <1>5, <1>7, <1>9, <1>10, CapacityIsNat DEF Meets, Spent, Regained
        <5>3. QED
          BY <5>1, <5>2
      <4>2. CASE tokens # Capacity
        <5>1. PICK i \in DOMAIN old : MeetsNow(k, i, tokens)
          BY <4>2, <1>2
        <5>2. tokens + Spent(k, i) = Capacity + Gain(now - old[i])
          BY <5>1 DEF MeetsNow
        <5>3. /\ i \in DOMAIN new /\ new[i] = old[i]
              /\ Cost(Len(new) - i + 1) = Spent(k, i) + Second
              /\ Spent(k, i) \in Int /\ Gain(now - old[i]) \in Int
          BY <1>9, <1>10
        <5>4. (tokens - Second) + Cost(Len(new) - i + 1) = Capacity + Gain(now - new[i])
          BY <5>2, <5>3, <1>2, CapacityIsNat
        <5>5. Meets(k, i)'
          BY <5>4 DEF Meets, Spent, Regained
        <5>6. QED
          BY <5>3, <5>5
      <4>3. QED
        BY <4>1, <4>2
    <3>3. Balanced(k)'
      BY <3>1, <3>2, <1>5, <1>7 DEF Balanced
    <3>4. QED
      BY <2>1, <3>3, <1>1, <1>5
  <2>2. CASE q # k /\ q \in DOMAIN buckets
    BY <2>2, <1>5, <1>7 DEF RLInv, Ledger, Balanced, Covers, Meets, Spent, Regained
  <2>3. CASE q # k /\ q \notin DOMAIN buckets
    BY <2>3, <1>5, <1>7 DEF RLInv, Ledger
  <2>4. QED
    BY <2>1, <2>2, <2>3
<1>13. RateBound'
  <2> SUFFICES ASSUME NEW q \in Flows, NEW i \in DOMAIN admitted'[q],
                      NEW j \in DOMAIN admitted'[q], i <= j
               PROVE  Abstract!Within(j - i + 1, admitted'[q][j] - admitted'[q][i])
    BY DEF RateBound, Abstract!Within
  <2>1. CASE q # k
    BY <2>1, <1>7 DEF RLInv, RateBound
  <2>2. CASE q = k /\ j \in DOMAIN old
    <3>1. i \in DOMAIN old
      BY <2>2, <1>7, <1>9
    <3>2. new[i] = old[i] /\ new[j] = old[j] /\ admitted'[q] = new
      BY <2>2, <3>1, <1>7, <1>9
    <3>3. Abstract!Within(j - i + 1, old[j] - old[i])
      BY <2>2, <3>1, <1>1 DEF RLInv, RateBound
    <3>4. QED
      BY <3>2, <3>3
  <2>3. CASE q = k /\ j \notin DOMAIN old
    <3>1. j = Len(new) /\ i \in DOMAIN new /\ new[j] = now /\ admitted'[q] = new
      BY <2>3, <1>7, <1>9
    <3>2. /\ (tokens - Second) + Cost(Len(new) - i + 1) <= Capacity + Gain(now - new[i])
          /\ Cost(Len(new) - i + 1) \in Int /\ Gain(now - new[i]) \in Int
      BY <3>1, <1>11
    <3>3. Cost(Len(new) - i + 1) <= Capacity + Gain(now - new[i])
      <4>1. PICK u \in Int, x \in Int : u = Cost(Len(new) - i + 1) /\ x = Gain(now - new[i])
        BY <3>2
      <4>2. (tokens - Second) + u <= Capacity + x
        BY <3>2, <4>1
      <4>3. tokens \in Int /\ Capacity \in Int /\ tokens >= Second
        BY <1>2, <1>3, CapacityIsNat
      <4>4. u <= Capacity + x
        BY <4>2, <4>3
      <4>5. QED
        BY <4>1, <4>4
    <3>4. QED
      BY <3>1, <3>3 DEF Abstract!Within, Capacity, Cost, Gain
  <2>4. QED
    BY <2>1, <2>2, <2>3
<1>14. QED
  BY <1>8, <1>12, <1>13 DEF RLInv

LEMMA InductiveInv == RLInv /\ [RLNext]_rlVars => RLInv'
<1> SUFFICES ASSUME RLInv, [RLNext]_rlVars PROVE RLInv'
  OBVIOUS
<1>1. CASE RLTick
  BY <1>1, TickInv
<1>2. ASSUME NEW r \in Requests, GetBucket(r) PROVE RLInv'
  BY <1>2, GetBucketInv
<1>3. ASSUME NEW r \in Requests, Allow(r) PROVE RLInv'
  <2>1. CASE Passes(r)
    BY <2>1, <1>3, PassInv
  <2>2. CASE Refuses(r)
    BY <2>2, <1>3, RefusalInv
  <2>3. QED
    BY <1>3, <2>1, <2>2, AllowCases
<1>4. CASE UNCHANGED rlVars
  <2> USE <1>4 DEF rlVars
  <2>1. RLTypeOK'
    BY DEF RLInv, RLTypeOK
  <2>2. AsksOnce'
    BY DEF RLInv, AsksOnce
  <2>3. Ledger'
    BY DEF RLInv, Ledger, Balanced, Covers, Meets, Spent, Regained
  <2>4. RateBound'
    BY DEF RLInv, RateBound
  <2>5. QED
    BY <2>1, <2>2, <2>3, <2>4 DEF RLInv
<1>5. QED
  BY <1>1, <1>2, <1>3, <1>4 DEF RLNext

LEMMA Invariant == RLSpec => []RLInv
  BY InitInv, InductiveInv, PTL DEF RLSpec

\* Types hold, whatever the requests and their order.
THEOREM TypeCorrectness == RLSpec => []RLTypeOK
<1>1. RLInv => RLTypeOK
  BY DEF RLInv
<1>2. QED
  BY <1>1, Invariant, PTL

\* No client, and no service as a whole, gets more than the rate and its
\* burst between any two admissions (tokenBucket.Allow).
THEOREM RateIsBounded == RLSpec => []RateBound
<1>1. RLInv => RateBound
  BY DEF RLInv
<1>2. QED
  BY <1>1, Invariant, PTL

-----------------------------------------------------------------------------
(* The buckets implement the windows. *)

\* A refilled bucket has a token exactly when the windows have room.
LEMMA BucketDecides ==
    ASSUME RLInv, NEW k \in Flows, k \in DOMAIN buckets,
           NEW tokens, tokens = Refilled(buckets[k]),
           NEW old, old = admitted[k], NEW new, new = Append(old, now)
    PROVE  tokens >= Second <=> Abstract!Conforms(new)
<1>1. /\ tokens \in 0..Capacity
      /\ \A i \in DOMAIN old : old[i] \in 0..now /\ CoversNow(k, i, tokens)
      /\ tokens = Capacity \/ \E i \in DOMAIN old : MeetsNow(k, i, tokens)
  BY RefillBalances DEF RLInv, Ledger
<1>2. old \in Seq(Nat) /\ now \in Nat
  BY DEF RLInv, RLTypeOK
<1>3. /\ Len(new) = Len(old) + 1 /\ Len(old) \in Nat
      /\ DOMAIN new = 1..(Len(old) + 1) /\ DOMAIN old = 1..Len(old)
      /\ new[Len(new)] = now
      /\ \A i \in DOMAIN old :
            /\ new[i] = old[i]
            /\ Cost(Len(new) - i + 1) = Cost(Len(old) - i + 1) + Second
            /\ Cost(Len(old) - i + 1) \in Int
      /\ Cost(Len(new) - Len(new) + 1) = Second
  <2>1. /\ Len(new) = Len(old) + 1 /\ Len(old) \in Nat
        /\ DOMAIN new = 1..(Len(old) + 1) /\ DOMAIN old = 1..Len(old)
        /\ new[Len(new)] = now
        /\ \A i \in DOMAIN old : new[i] = old[i]
    BY <1>2
  <2>2. /\ \A i \in 1..Len(old) :
              /\ Cost((Len(old) + 1) - i + 1) = Cost(Len(old) - i + 1) + Second
              /\ Cost(Len(old) - i + 1) \in Int
        /\ Cost((Len(old) + 1) - (Len(old) + 1) + 1) = Second
    BY <2>1, AppendUses, Zenon
  <2>3. QED
    BY <2>1, <2>2
<1>4. ASSUME NEW i \in DOMAIN old PROVE Gain(now - old[i]) \in Int
  <2>1. now \in Int /\ old[i] \in Int
    BY <1>2
  <2>2. QED
    BY <2>1, RegainAdds
<1>5. Abstract!Conforms(new) <=>
        \A i \in DOMAIN new : Cost(Len(new) - i + 1) <= Capacity + Gain(now - new[i])
  BY <1>3 DEF Abstract!Conforms, Abstract!Within, Cost, Gain, Capacity
<1>6. ASSUME tokens >= Second PROVE Abstract!Conforms(new)
  <2>1. ASSUME NEW i \in DOMAIN old
        PROVE  Cost(Len(new) - i + 1) <= Capacity + Gain(now - new[i])
    <3>1. PICK u \in Int, x \in Int : u = Cost(Len(old) - i + 1) /\ x = Gain(now - old[i])
      BY <1>3, <1>4
    <3>2. tokens + u <= Capacity + x
      BY <1>1, <3>1 DEF CoversNow, Spent
    <3>3. tokens \in Int /\ Capacity \in Int
      BY <1>1, CapacityIsNat
    <3>4. u + Second <= Capacity + x
      BY <1>6, <3>1, <3>2, <3>3
    <3>5. Cost(Len(new) - i + 1) = u + Second /\ new[i] = old[i]
      BY <1>3, <3>1
    <3>6. QED
      BY <3>1, <3>4, <3>5
  <2>2. Cost(Len(new) - Len(new) + 1) <= Capacity + Gain(now - new[Len(new)])
    <3>1. now - new[Len(new)] = 0
      BY <1>2, <1>3
    <3>2. Gain(now - new[Len(new)]) = 0
      BY <3>1, NoTimeNoGain
    <3>3. QED
      BY <3>2, <1>3, CapacityIsNat
  <2>3. \A i \in DOMAIN new : i = Len(new) \/ i \in DOMAIN old
    BY <1>3
  <2>4. QED
    BY <2>1, <2>2, <2>3, <1>5
<1>7. ASSUME ~(tokens >= Second) PROVE ~Abstract!Conforms(new)
  <2>1. tokens # Capacity
    BY <1>7, <1>1, CapacityIsNat
  <2>2. PICK i \in DOMAIN old : MeetsNow(k, i, tokens)
    BY <2>1, <1>1
  <2>3. PICK u \in Int, x \in Int : u = Cost(Len(old) - i + 1) /\ x = Gain(now - old[i])
    BY <1>3, <1>4
  <2>4. tokens + u = Capacity + x
    BY <2>2, <2>3 DEF MeetsNow, Spent
  <2>5. tokens \in Int /\ Capacity \in Int
    BY <1>1, CapacityIsNat
  <2>6. ~(u + Second <= Capacity + x)
    BY <1>7, <2>3, <2>4, <2>5
  <2>7. /\ Cost(Len(new) - i + 1) = u + Second /\ Gain(now - new[i]) = x
        /\ i \in DOMAIN new
    BY <1>3, <2>3
  <2>8. QED
    BY <2>6, <2>7, <1>5
<1>8. QED
  BY <1>6, <1>7

LEMMA StepRefines == RLInv /\ [RLNext]_rlVars => [Abstract!Next]_<<now, admitted, answers>>
<1> SUFFICES ASSUME RLInv, [RLNext]_rlVars
             PROVE  Abstract!Next \/ UNCHANGED <<now, admitted, answers>>
  OBVIOUS
<1>1. CASE RLTick
  BY <1>1 DEF RLTick, Abstract!Next, Abstract!Tick
<1>2. ASSUME NEW r \in Requests, GetBucket(r) PROVE UNCHANGED <<now, admitted, answers>>
  BY <1>2 DEF GetBucket
<1>3. ASSUME NEW r \in Requests, Allow(r) PROVE Abstract!Next
  <2>1. PICK k, tokens, new :
            k = asking[r] /\ tokens = Refilled(buckets[k]) /\ new = Append(admitted[k], now)
    OBVIOUS
  <2>2. k \in DOMAIN buckets /\ k \in Flows /\ answers[r] = "none"
    BY <1>3, <2>1, AllowCases DEF RLInv, AsksOnce, Allow
  <2>3. tokens >= Second <=> Abstract!Conforms(new)
    BY <2>1, <2>2, BucketDecides
  <2>4. CASE Passes(r)
    <3>1. Abstract!Admit(r, k)
      BY <2>1, <2>2, <2>3, <2>4 DEF Passes, Answer, Abstract!Admit
    <3>2. QED
      BY <3>1, <2>2 DEF Abstract!Next
  <2>5. CASE Refuses(r)
    <3>1. Abstract!Refuse(r, k)
      BY <2>1, <2>2, <2>3, <2>5 DEF Refuses, Answer, Abstract!Refuse
    <3>2. QED
      BY <3>1, <2>2 DEF Abstract!Next
  <2>6. QED
    BY <1>3, <2>4, <2>5, AllowCases
<1>4. CASE UNCHANGED rlVars
  BY <1>4 DEF rlVars
<1>5. QED
  BY <1>1, <1>2, <1>3, <1>4 DEF RLNext

\* The token buckets implement the sliding windows: they admit a request
\* exactly when no stretch of time up to now is then over the rate.
THEOREM BucketsImplementLimiter == RLSpec => ImplementsLimiter
<1>1. RLInit => Abstract!Init
  BY DEF RLInit, Abstract!Init
<1>2. QED
  BY <1>1, StepRefines, Invariant, PTL DEF RLSpec, ImplementsLimiter, Abstract!Spec

-----------------------------------------------------------------------------
(* The chain of middlewares.                                                *)

\* The chain is the known names of those declared that were wrapped, in their
\* order; f says where each is from.
Wrapped(j) == phase = "building" => at < j

From(f) ==
    /\ \A k \in DOMAIN chain : Wrapped(f[k]) /\ chain[k] = declared[f[k]]
    /\ \A k, l \in DOMAIN chain : k < l => f[k] < f[l]
    /\ \A j \in DOMAIN declared :
          Wrapped(j) /\ declared[j] \in Known => \E k \in DOMAIN chain : f[k] = j

ChainFits == \E f \in [DOMAIN chain -> DOMAIN declared] : From(f)

\* The layers before n let the request in, and a JWT left its claims.
Passed(n) ==
    \A k \in DOMAIN chain : k < n => Refusal(chain[k]) = 0 /\ (chain[k] = "JWT" => claims = "valid")

\* The handler failed, by a panic of its own or of the writer of its result.
Failed == ran = TRUE /\ request.result # "value"

\* Why the answer is code c: a layer refused, or the core answered, or Recover
\* did for it.
Reason(c) ==
    \/ \E k \in DOMAIN chain : Refusal(chain[k]) = c /\ c # 0 /\ Passed(k) /\ ran = FALSE
    \/ /\ Passed(Len(chain) + 1)
       /\ ran = (request.target = "handler")
       /\ Failed => c = 500 /\ \E k \in DOMAIN chain : chain[k] = "Recover"

\* The last code written is below the layer left next, and is the one the
\* client gets, but after a status that was written before the panic.
Answered ==
    LET n == Len(written) IN
    /\ n # 0 /\ at < written[n].by
    /\ Sent = IF Late THEN 200 ELSE written[n].code
    /\ \A i \in DOMAIN logged : logged[i] = written[n].code
    /\ Reason(written[n].code)

\* What was written when nobody has answered.
Unanswered == IF Late THEN written # <<>> /\ Sent = 200 ELSE written = <<>>

Panicking ==
    /\ Unanswered /\ logged = <<>>
    /\ Passed(Len(chain) + 1) /\ request.target = "handler" /\ Failed
    /\ \A k \in DOMAIN chain : at < k => chain[k] # "Recover"

RequestFits ==
    /\ phase = "building" => request = NotYet
    /\ phase # "building" => request \in Request /\ PossibleRequest(request)
    /\ phase \in {"building", "in"} => written = <<>> /\ logged = <<>> /\ ran = FALSE
    /\ phase = "in" => Passed(at)
    /\ phase \in {"out", "sent"} => Answered
    /\ phase \in {"panic", "dropped"} => Panicking
    /\ phase \in {"sent", "dropped"} => at = 0

SvInv == SvTypeOK /\ ChainFits /\ RequestFits

LEMMA InFront ==
    ASSUME NEW S, NEW s \in Seq(S), NEW x \in S
    PROVE  /\ <<x>> \o s \in Seq(S)
           /\ DOMAIN (<<x>> \o s) = 1..Len(s) + 1 /\ Len(<<x>> \o s) = Len(s) + 1
           /\ (<<x>> \o s)[1] = x
           /\ \A k \in 1..Len(s) : (<<x>> \o s)[k + 1] = s[k]
  OBVIOUS

LEMMA Behind ==
    ASSUME NEW S, NEW s \in Seq(S), NEW x \in S
    PROVE  /\ Append(s, x) \in Seq(S)
           /\ DOMAIN Append(s, x) = 1..Len(s) + 1 /\ Len(Append(s, x)) = Len(s) + 1
           /\ Append(s, x)[Len(s) + 1] = x
           /\ \A k \in 1..Len(s) : Append(s, x)[k] = s[k]
  OBVIOUS

LEMMA ServiceBegins == ASSUME SvInit PROVE SvInv
<1>1. declared \in Seq(Names)
  BY DEF SvInit
<1>2. /\ phase = "building" /\ at = Len(declared) /\ chain = <<>> /\ request = NotYet
      /\ written = <<>> /\ logged = <<>> /\ claims = "none" /\ ran = FALSE
  BY DEF SvInit
<1>3. DOMAIN logged = {} /\ DOMAIN chain = {}
  BY <1>2
<1>4. SvTypeOK
  <2>1. written \in Seq([by : 1..Len(chain) + 1, code : Codes])
    BY <1>2
  <2>2. at \in 0..Len(declared)
    BY <1>1, <1>2
  <2>3. chain \in Seq(Known)
    BY <1>2
  <2>4. QED
    BY <1>1, <1>2, <1>3, <2>1, <2>2, <2>3 DEF SvTypeOK
<1>5. ChainFits
  <2>1. From(<<>>)
    BY <1>1, <1>2, <1>3 DEF From, Wrapped
  <2>2. <<>> \in [DOMAIN chain -> DOMAIN declared]
    BY <1>3
  <2>3. QED
    BY <1>2, <2>1, <2>2 DEF ChainFits
<1>6. RequestFits
  BY <1>2 DEF RequestFits
<1>7. QED
  BY <1>4, <1>5, <1>6 DEF SvInv

LEMMA WrapKeeps == ASSUME SvInv, Wrap PROVE SvInv'
<1>1. /\ phase = "building" /\ at \in 1..Len(declared) /\ declared \in Seq(Names) /\ chain \in Seq(Known)
      /\ request = NotYet /\ written = <<>> /\ logged = <<>> /\ ran = FALSE /\ claims \in {"none", "valid"}
  BY DEF SvInv, SvTypeOK, RequestFits, Wrap, Building
<1>2. /\ phase' = "building" /\ at' = at - 1 /\ declared' = declared /\ request' = NotYet
      /\ written' = <<>> /\ logged' = <<>> /\ ran' = FALSE /\ claims' = claims
      /\ chain' = IF declared[at] \in Known THEN <<declared[at]>> \o chain ELSE chain
  BY <1>1 DEF Wrap
<1>3. chain' \in Seq(Known)
  BY <1>1, <1>2, InFront
<1>4. SvTypeOK'
  <2>1. written' \in Seq([by : 1..Len(chain') + 1, code : Codes])
    BY <1>2
  <2>2. at' \in 0..Len(declared')
    BY <1>1, <1>2
  <2>3. DOMAIN logged' = {}
    BY <1>2
  <2>4. QED
    BY <1>1, <1>2, <1>3, <2>1, <2>2, <2>3 DEF SvTypeOK
<1>5. RequestFits'
  BY <1>2 DEF RequestFits
<1>6. DOMAIN chain = 1..Len(chain) /\ DOMAIN declared = 1..Len(declared) /\ Len(chain) \in Nat /\ Len(declared) \in Nat
  BY <1>1
<1>7. PICK f \in [DOMAIN chain -> DOMAIN declared] :
         /\ \A k \in 1..Len(chain) : f[k] \in DOMAIN declared /\ at < f[k] /\ chain[k] = declared[f[k]]
         /\ \A k, l \in 1..Len(chain) : k < l => f[k] < f[l]
         /\ \A j \in DOMAIN declared :
               at < j /\ declared[j] \in Known => \E k \in 1..Len(chain) : f[k] = j
  <2>1. PICK f \in [DOMAIN chain -> DOMAIN declared] : From(f)
    BY DEF SvInv, ChainFits
  <2>2. \A k \in DOMAIN chain : f[k] \in DOMAIN declared
    BY <2>1
  <2>3. \A j \in DOMAIN declared : Wrapped(j) <=> at < j
    BY <1>1 DEF Wrapped
  <2>4. \A k \in 1..Len(chain) : at < f[k] /\ chain[k] = declared[f[k]]
    BY <1>6, <2>1, <2>2, <2>3 DEF From
  <2>5. \A k, l \in 1..Len(chain) : k < l => f[k] < f[l]
    BY <1>6, <2>1 DEF From
  <2>6. \A j \in DOMAIN declared : at < j /\ declared[j] \in Known => \E k \in 1..Len(chain) : f[k] = j
    BY <1>6, <2>1, <2>3 DEF From
  <2>7. QED
    BY <1>6, <2>2, <2>4, <2>5, <2>6
<1>8. \A j \in DOMAIN declared : Wrapped(j)' <=> j = at \/ at < j
  BY <1>1, <1>2, <1>6 DEF Wrapped
<1>9. CASE declared[at] \in Known
  <2>1. /\ DOMAIN chain' = 1..Len(chain) + 1 /\ chain'[1] = declared[at]
        /\ \A k \in 1..Len(chain) : chain'[k + 1] = chain[k]
    BY <1>1, <1>2, <1>9, InFront
  <2>2. PICK n : n = Len(chain) /\ n \in Nat
    BY <1>6
  <2>3. PICK g : g = [k \in 1..n + 1 |-> IF k = 1 THEN at ELSE f[k - 1]]
    OBVIOUS
  <2>4. g[1] = at /\ \A k \in 1..n : g[k + 1] = f[k]
    BY <2>2, <2>3
  <2>5. \A k \in 1..n + 1 : k = 1 \/ (k - 1 \in 1..n /\ k = (k - 1) + 1)
    BY <2>2
  <2>6. \A k \in 1..n + 1 : g[k] \in DOMAIN declared /\ (g[k] = at \/ at < g[k]) /\ chain'[k] = declared[g[k]]
    <3> SUFFICES ASSUME NEW k \in 1..n + 1
                 PROVE  g[k] \in DOMAIN declared /\ (g[k] = at \/ at < g[k]) /\ chain'[k] = declared[g[k]]
      OBVIOUS
    <3>1. CASE k = 1
      BY <1>1, <1>6, <2>1, <2>4, <3>1
    <3>2. CASE k - 1 \in 1..n
      <4>1. g[k] = f[k - 1] /\ chain'[k] = chain[k - 1]
        BY <2>1, <2>2, <2>4, <2>5, <3>2
      <4>2. QED
        BY <1>7, <2>2, <3>2, <4>1
    <3>3. QED
      BY <2>5, <3>1, <3>2
  <2>7. ASSUME NEW k \in 1..n + 1, NEW l \in 1..n + 1, k < l PROVE g[k] < g[l]
    <3>1. l - 1 \in 1..n /\ g[l] = f[l - 1]
      BY <2>2, <2>4, <2>5, <2>7
    <3>2. CASE k = 1
      BY <1>7, <2>2, <2>4, <3>1, <3>2
    <3>3. CASE k # 1
      <4>1. k - 1 \in 1..n /\ g[k] = f[k - 1] /\ k - 1 < l - 1
        BY <2>2, <2>4, <2>5, <2>7, <3>3
      <4>2. QED
        BY <1>7, <2>2, <3>1, <4>1
    <3>4. QED
      BY <3>2, <3>3
  <2>8. ASSUME NEW j \in DOMAIN declared, j = at \/ at < j, declared[j] \in Known
        PROVE  \E k \in 1..n + 1 : g[k] = j
    <3>1. CASE j = at
      BY <2>2, <2>4, <3>1
    <3>2. CASE at < j
      <4>1. PICK k \in 1..n : f[k] = j
        BY <1>7, <2>2, <2>8, <3>2
      <4>2. k + 1 \in 1..n + 1 /\ g[k + 1] = j
        BY <2>2, <2>4, <4>1
      <4>3. QED
        BY <4>2
    <3>3. QED
      BY <2>8, <3>1, <3>2
  <2>9. g \in [DOMAIN chain' -> DOMAIN declared']
    BY <1>2, <2>1, <2>2, <2>3, <2>6
  <2>10. From(g)'
    BY <1>2, <1>8, <2>1, <2>2, <2>6, <2>7, <2>8 DEF From
  <2>11. ChainFits'
    BY <2>9, <2>10 DEF ChainFits
  <2>12. QED
    BY <1>4, <1>5, <2>11 DEF SvInv
<1>10. CASE declared[at] \notin Known
  <2>1. chain' = chain
    BY <1>2, <1>10
  <2>2. From(f)'
    BY <1>2, <1>6, <1>7, <1>8, <1>10, <2>1 DEF From
  <2>3. ChainFits'
    BY <1>2, <2>1, <2>2 DEF ChainFits
  <2>4. QED
    BY <1>4, <1>5, <2>3 DEF SvInv
<1>11. QED
  BY <1>9, <1>10
-----------------------------------------------------------------------------
(* The request.                                                             *)

LEMMA ChainStays ==
    ASSUME SvInv, UNCHANGED <<declared, chain>>, phase = "building" => at = 0, phase' # "building"
    PROVE  ChainFits'
<1>1. PICK f \in [DOMAIN chain -> DOMAIN declared] : From(f)
  BY DEF SvInv, ChainFits
<1>2. \A j \in DOMAIN declared : Wrapped(j) /\ Wrapped(j)'
  BY DEF Wrapped, SvInv, SvTypeOK
<1>3. \A k \in DOMAIN chain : f[k] \in DOMAIN declared
  BY <1>1
<1>4. From(f)'
  BY <1>1, <1>2, <1>3 DEF From
<1>5. QED
  BY <1>1, <1>4 DEF ChainFits

LEMMA RefusalIs ==
    /\ \A x \in Known \ {"CORS", "JWT", "RateLimit"} : Refusal(x) = 0
    /\ Refusal("CORS") = IF Preflight THEN 200 ELSE 0
    /\ Refusal("JWT") = IF request.token # "valid" THEN 401 ELSE 0
    /\ Refusal("RateLimit") = IF request.limited THEN 429 ELSE 0
    /\ \A x : Refusal(x) # 0 => x \in Known
  BY DEF Refusal, Known

LEMMA RefusalStays == ASSUME request' = request, NEW x PROVE Refusal(x)' = Refusal(x)
  BY DEF Refusal, Preflight

\* Nobody who let the request in refuses it later, and claims stay valid.
LEMMA PassedStays ==
    ASSUME UNCHANGED <<chain, request>>, claims' \in {claims, "valid"}, NEW n, Passed(n)
    PROVE  Passed(n)'
  BY RefusalStays DEF Passed

LEMMA ReasonStays ==
    ASSUME UNCHANGED <<chain, request, ran, claims>>, NEW c, Reason(c)
    PROVE  Reason(c)'
<1>1. Passed(Len(chain) + 1) => Passed(Len(chain) + 1)'
  BY PassedStays DEF Passed
<1>2. \A k : Passed(k) => Passed(k)'
  BY PassedStays
<1>3. QED
  BY <1>1, <1>2, RefusalStays DEF Reason, Failed

LEMMA ArriveKeeps == ASSUME SvInv, Arrive PROVE SvInv'
<1>1. /\ phase = "building" /\ at = 0 /\ written = <<>> /\ logged = <<>> /\ ran = FALSE
      /\ chain \in Seq(Known)
  BY DEF SvInv, SvTypeOK, RequestFits, Arrive
<1>2. /\ phase' = "in" /\ at' = 1 /\ UNCHANGED <<declared, chain, written, logged, claims, ran>>
      /\ request' \in Request /\ PossibleRequest(request')
  BY DEF Arrive
<1>3. ChainFits'
  BY <1>1, <1>2, ChainStays
<1>4. SvTypeOK'
  BY <1>1, <1>2 DEF SvInv, SvTypeOK
<1>5. Passed(at)'
  BY <1>1, <1>2 DEF Passed
<1>6. RequestFits'
  BY <1>1, <1>2, <1>5 DEF RequestFits, PossibleRequest
<1>7. QED
  BY <1>3, <1>4, <1>6 DEF SvInv

LEMMA EnteringIs ==
    ASSUME SvInv, NEW kind, Entering(kind)
    PROVE  /\ phase = "in" /\ at \in 1..Len(chain) /\ chain[at] = kind /\ chain \in Seq(Known)
           /\ written = <<>> /\ logged = <<>> /\ ran = FALSE /\ Passed(at)
           /\ request \in Request /\ PossibleRequest(request)
  BY DEF SvInv, SvTypeOK, RequestFits, Entering

LEMMA PassKeeps ==
    ASSUME SvInv, NEW kind, Entering(kind), Pass, Refusal(kind) = 0,
           claims' \in {claims, "valid"}, kind = "JWT" => claims' = "valid"
    PROVE  SvInv'
<1>0. /\ phase = "in" /\ at \in 1..Len(chain) /\ chain[at] = kind /\ chain \in Seq(Known)
      /\ written = <<>> /\ logged = <<>> /\ ran = FALSE /\ Passed(at)
      /\ request \in Request /\ PossibleRequest(request) /\ claims \in {"none", "valid"}
  BY EnteringIs DEF SvInv, SvTypeOK
<1>1. /\ phase' = "in" /\ at' = at + 1
      /\ UNCHANGED <<declared, chain, request, phase, written, logged, ran>>
  BY <1>0 DEF Pass
<1>2. ChainFits'
  BY <1>0, <1>1, ChainStays
<1>3. SvTypeOK'
  BY <1>0, <1>1 DEF SvInv, SvTypeOK
<1>4. \A k \in DOMAIN chain : k < at + 1 => k < at \/ k = at
  BY <1>0
<1>5. Passed(at)'
  <2>1. \A k \in DOMAIN chain : k < at + 1 =>
           Refusal(chain[k]) = 0 /\ (chain[k] = "JWT" => claims' = "valid")
    BY <1>0, <1>4 DEF Passed
  <2>2. QED
    BY <1>1, <2>1, RefusalStays DEF Passed
<1>6. RequestFits'
  BY <1>0, <1>1, <1>5 DEF RequestFits
<1>7. QED
  BY <1>2, <1>3, <1>6 DEF SvInv

\* Whoever answers first writes the code the client gets, but for late panics.
LEMMA RespondKeeps ==
    ASSUME SvInv, NEW c \in Codes, Respond(c), phase \in {"in", "panic"}, at \in 1..Len(chain) + 1,
           IF Late' THEN written # <<>> /\ Sent = 200 ELSE written = <<>>, logged = <<>>,
           claims' \in {"none", "valid"}, ran' \in BOOLEAN, Reason(c)'
    PROVE  SvInv'
<1>1. /\ phase' = "out" /\ at' = at - 1 /\ UNCHANGED <<declared, chain, request, logged>>
      /\ written' = Append(written, [by |-> at, code |-> c])
  BY DEF Respond
<1> DEFINE W == [by : 1..Len(chain) + 1, code : Codes]
<1>2. written \in Seq(W) /\ chain \in Seq(Known) /\ [by |-> at, code |-> c] \in W
  BY DEF SvInv, SvTypeOK
<1>3. /\ written' \in Seq(W) /\ Len(written') = Len(written) + 1
      /\ written'[Len(written) + 1] = [by |-> at, code |-> c]
      /\ \A k \in 1..Len(written) : written'[k] = written[k]
  BY <1>1, <1>2, Behind
<1>4. SvTypeOK'
  <2>1. at' \in 0..Len(chain) + 1
    BY <1>1, <1>2
  <2>2. QED
    BY <1>1, <1>2, <1>3, <2>1 DEF SvInv, SvTypeOK
<1>5. Answered'
  <2>1. Len(written') # 0 /\ written'[Len(written')].code = c /\ at' < written'[Len(written')].by
    BY <1>1, <1>2, <1>3
  <2>2. Sent' = IF Late' THEN 200 ELSE c
    <3>1. written' # <<>> /\ Sent' = written'[1].code
      BY <1>1, <1>2, <1>3 DEF Sent
    <3>2. CASE Late'
      <4>1. written # <<>> /\ written[1].code = 200
        BY <3>2 DEF Sent
      <4>2. written'[1] = written[1]
        BY <1>2, <1>3, <4>1
      <4>3. QED
        BY <3>1, <3>2, <4>1, <4>2
    <3>3. CASE ~Late'
      <4>1. written' = <<[by |-> at, code |-> c]>>
        BY <1>1, <3>3
      <4>2. QED
        BY <3>1, <3>3, <4>1
    <3>4. QED
      BY <3>2, <3>3
  <2>3. DOMAIN logged' = {}
    BY <1>1
  <2>4. QED
    BY <2>1, <2>2, <2>3 DEF Answered
<1>6. ChainFits'
  BY <1>1, ChainStays
<1>7. RequestFits'
  BY <1>1, <1>5 DEF RequestFits, SvInv
<1>8. QED
  BY <1>4, <1>6, <1>7 DEF SvInv

LEMMA RefuseKeeps ==
    ASSUME SvInv, NEW kind, Entering(kind), NEW c \in Codes, Refusal(kind) = c, Respond(c),
           UNCHANGED <<claims, ran>>
    PROVE  SvInv'
<1>1. /\ phase = "in" /\ at \in 1..Len(chain) /\ chain[at] = kind /\ chain \in Seq(Known)
      /\ written = <<>> /\ logged = <<>> /\ ran = FALSE /\ Passed(at) /\ claims \in {"none", "valid"}
  BY EnteringIs DEF SvInv, SvTypeOK
<1>2. Reason(c)
  BY <1>1 DEF Reason, Codes
<1>3. Reason(c)'
  BY <1>2, ReasonStays DEF Respond
<1>4. /\ ~Late' /\ at \in 1..Len(chain) + 1
      /\ claims' \in {"none", "valid"} /\ ran' \in BOOLEAN
  <2>1. at \in 1..Len(chain) + 1
    BY <1>1
  <2>2. claims' = claims /\ ran' = FALSE
    BY <1>1
  <2>3. QED
    BY <1>1, <2>1, <2>2 DEF Late
<1>5. QED
  BY <1>1, <1>3, <1>4, RespondKeeps

LEMMA EnterKeeps ==
    ASSUME SvInv, EnterPlain \/ EnterCORS \/ EnterJWT \/ EnterRateLimit
    PROVE  SvInv'
<1>1. CASE EnterPlain
  <2>1. PICK kind \in {"Logger", "Recover", "RequestID"} : Entering(kind)
    BY <1>1 DEF EnterPlain
  <2>2. Refusal(kind) = 0
    BY <2>1, RefusalIs DEF Known
  <2>3. QED
    BY <1>1, <2>1, <2>2, PassKeeps DEF EnterPlain
<1>2. CASE EnterCORS
  <2>1. Entering("CORS") /\ claims' = claims
    BY <1>2 DEF EnterCORS
  <2>2. CASE Preflight
    BY <1>2, <2>1, <2>2, RefusalIs, RefuseKeeps DEF EnterCORS, Codes
  <2>3. CASE ~Preflight
    BY <1>2, <2>1, <2>3, RefusalIs, PassKeeps DEF EnterCORS
  <2>4. QED
    BY <2>2, <2>3
<1>3. CASE EnterJWT
  <2>1. Entering("JWT")
    BY <1>3 DEF EnterJWT
  <2>2. CASE request.token # "valid"
    BY <1>3, <2>1, <2>2, RefusalIs, RefuseKeeps DEF EnterJWT, Codes
  <2>3. CASE request.token = "valid"
    BY <1>3, <2>1, <2>3, RefusalIs, PassKeeps DEF EnterJWT
  <2>4. QED
    BY <2>2, <2>3
<1>4. CASE EnterRateLimit
  <2>1. Entering("RateLimit") /\ claims' = claims
    BY <1>4 DEF EnterRateLimit
  <2>2. CASE request.limited
    BY <1>4, <2>1, <2>2, RefusalIs, RefuseKeeps DEF EnterRateLimit, Codes
  <2>3. CASE ~request.limited
    BY <1>4, <2>1, <2>3, RefusalIs, PassKeeps DEF EnterRateLimit
  <2>4. QED
    BY <2>2, <2>3
<1>5. QED
  BY <1>1, <1>2, <1>3, <1>4

LEMMA CoreKeeps == ASSUME SvInv, Core PROVE SvInv'
<1>1. /\ phase = "in" /\ at = Len(chain) + 1 /\ chain \in Seq(Known)
      /\ written = <<>> /\ logged = <<>> /\ ran = FALSE /\ Passed(Len(chain) + 1)
      /\ request \in Request /\ PossibleRequest(request) /\ claims \in {"none", "valid"}
  BY DEF SvInv, SvTypeOK, RequestFits, Core
<1>2. ran' = (request.target = "handler") /\ UNCHANGED <<declared, chain, request, logged, claims>>
  BY DEF Core, Respond
<1>3. Passed(Len(chain) + 1)'
  BY <1>1, <1>2, PassedStays DEF Passed
<1>4. CASE request.target # "handler" \/ request.result = "value"
  <2>1. PICK c \in Codes : c # 0 /\ Respond(c)
    <3>1. Respond(200) \/ Respond(404) \/ Respond(500)
      BY <1>4 DEF Core
    <3>2. QED
      BY <3>1 DEF Codes
  <2>2. Reason(c)'
    BY <1>2, <1>3, <1>4, <2>1 DEF Reason, Failed
  <2>3. QED
    <3>1. at \in 1..Len(chain) + 1 /\ claims' \in {"none", "valid"} /\ ran' \in BOOLEAN
      BY <1>1, <1>2
    <3>2. ~Late'
      <4>1. CASE request.target # "handler"
        BY <1>1, <1>2, <4>1 DEF Late
      <4>2. CASE request.target = "handler" /\ request.result = "value"
        BY <1>1, <1>2, <4>2 DEF Late
      <4>3. QED
        BY <1>4, <4>1, <4>2
    <3>3. QED
      BY <1>1, <2>1, <2>2, <3>1, <3>2, RespondKeeps
<1>5. CASE request.target = "handler" /\ request.result # "value"
  <2>1. /\ phase' = "panic" /\ at' = at - 1
        /\ written' = IF request.result = "panic" THEN written
                      ELSE Append(written, [by |-> at, code |-> 200])
    BY <1>5 DEF Core
  <2> DEFINE W == [by : 1..Len(chain) + 1, code : Codes]
  <2>2. written \in Seq(W) /\ [by |-> at, code |-> 200] \in W /\ at \in Nat
    BY <1>1 DEF SvInv, SvTypeOK, Codes
  <2>3. written' \in Seq(W) /\ Unanswered'
    <3>1. CASE request.result = "panic"
      BY <1>1, <1>2, <2>1, <2>2, <3>1 DEF Unanswered, Late
    <3>2. CASE request.result # "panic"
      <4>1. written' = <<[by |-> at, code |-> 200]>>
        BY <1>1, <2>1, <3>2
      <4>2. written' # <<>> /\ Sent' = 200
        BY <4>1 DEF Sent
      <4>3. request.result = "no value" /\ Late'
        <5>1. request.result \in {"value", "no value", "panic"}
          BY <1>1 DEF Request
        <5>2. ran' = TRUE
          BY <1>2, <1>5
        <5>3. QED
          BY <1>2, <1>5, <3>2, <5>1, <5>2 DEF Late
      <4>4. written' \in Seq(W)
        BY <2>2, <4>1
      <4>5. Unanswered'
        BY <4>2, <4>3 DEF Unanswered
      <4>6. QED
        BY <4>4, <4>5
    <3>3. QED
      BY <3>1, <3>2
  <2>4. SvTypeOK'
    <3>1. at' \in 0..Len(chain) + 1
      BY <1>1, <2>1, <2>2
    <3>2. QED
      BY <1>1, <1>2, <2>1, <2>3, <3>1 DEF SvInv, SvTypeOK
  <2>5. Panicking'
    <3>1. ran' = TRUE /\ Failed'
      BY <1>2, <1>5 DEF Failed
    <3>2. \A k \in DOMAIN chain : ~(at' < k)
      BY <1>1, <2>1
    <3>3. QED
      BY <1>1, <1>2, <1>3, <1>5, <2>3, <3>1, <3>2 DEF Panicking
  <2>6. ChainFits'
    BY <1>1, <1>2, <2>1, ChainStays
  <2>7. RequestFits'
    BY <1>1, <1>2, <2>1, <2>5 DEF RequestFits
  <2>8. QED
    BY <2>4, <2>6, <2>7 DEF SvInv
<1>6. QED
  BY <1>4, <1>5

LEMMA LeavingIs ==
    ASSUME SvInv, Leaving
    PROVE  /\ phase \in {"out", "panic"} /\ at \in 1..Len(chain) /\ chain \in Seq(Known)
           /\ request \in Request /\ PossibleRequest(request)
           /\ written \in Seq([by : 1..Len(chain) + 1, code : Codes])
           /\ phase = "out" => Answered
           /\ phase = "panic" => Panicking
  BY DEF SvInv, SvTypeOK, RequestFits, Leaving

\* A layer is left with what was written as it is.
LEMMA LayerKeeps ==
    ASSUME SvInv, Leaving, at' = at - 1,
           UNCHANGED <<declared, chain, request, phase, written, claims, ran>>,
           phase = "panic" => logged' = logged /\ chain[at] # "Recover",
           phase = "out" => \A i \in DOMAIN logged' :
               \/ i \in DOMAIN logged /\ logged'[i] = logged[i]
               \/ i = at /\ chain[at] = "Logger" /\ logged'[i] = written[Len(written)].code
    PROVE  SvInv'
<1>1. /\ phase \in {"out", "panic"} /\ at \in 1..Len(chain) /\ chain \in Seq(Known)
      /\ request \in Request /\ PossibleRequest(request)
      /\ written \in Seq([by : 1..Len(chain) + 1, code : Codes])
      /\ phase = "out" => Answered
      /\ phase = "panic" => Panicking
  BY LeavingIs
<1>2. at' \in 0..Len(chain) + 1 /\ at' < at
  BY <1>1
<1>3. CASE phase = "out"
  <2>1. /\ Len(written) # 0 /\ at < written[Len(written)].by
        /\ Sent = IF Late THEN 200 ELSE written[Len(written)].code
        /\ \A i \in DOMAIN logged : logged[i] = written[Len(written)].code
        /\ Reason(written[Len(written)].code)
    BY <1>1, <1>3 DEF Answered
  <2>2. written[Len(written)] \in [by : 1..Len(chain) + 1, code : Codes]
    <3> DEFINE W == [by : 1..Len(chain) + 1, code : Codes]
    <3>1. written \in Seq(W)
      BY <1>1
    <3> HIDE DEF W
    <3>2. Len(written) \in 1..Len(written)
      BY <2>1, <3>1
    <3>3. written[Len(written)] \in W
      BY <3>1, <3>2
    <3>4. QED
      BY <3>3 DEF W
  <2>3. \A i \in DOMAIN logged' :
           chain[i] = "Logger" /\ logged'[i] = written[Len(written)].code
    BY <1>3, <2>1 DEF SvInv, SvTypeOK
  <2>4. SvTypeOK'
    BY <1>1, <1>2, <2>2, <2>3 DEF SvInv, SvTypeOK
  <2>5. at' < written[Len(written)].by
    BY <1>1, <1>2, <2>1, <2>2
  <2>6. PICK c : c = written[Len(written)].code
    OBVIOUS
  <2>7. Reason(c)'
    BY <2>1, <2>6, ReasonStays
  <2>8. Answered'
    <3>1. Sent' = Sent /\ (Late' <=> Late)
      BY DEF Sent, Late
    <3>2. QED
      BY <2>1, <2>3, <2>5, <2>6, <2>7, <3>1 DEF Answered
  <2>9. RequestFits'
    BY <1>1, <1>3, <2>8 DEF RequestFits
  <2>10. QED
    BY <1>3, <2>4, <2>9, ChainStays DEF SvInv
<1>4. CASE phase = "panic"
  <2>1. SvTypeOK'
    BY <1>1, <1>2, <1>4 DEF SvInv, SvTypeOK
  <2>2. \A k \in DOMAIN chain : at' < k => at < k \/ k = at
    BY <1>1
  <2>3. Passed(Len(chain) + 1)'
    BY <1>1, <1>4, PassedStays DEF Panicking, Passed
  <2>4. Panicking'
    BY <1>1, <1>4, <2>2, <2>3 DEF Panicking, Failed, Unanswered, Late, Sent
  <2>5. RequestFits'
    BY <1>1, <1>4, <2>4 DEF RequestFits
  <2>6. QED
    BY <1>4, <2>1, <2>5, ChainStays DEF SvInv
<1>5. QED
  BY <1>1, <1>3, <1>4

LEMMA LeavePlainKeeps == ASSUME SvInv, LeavePlain PROVE SvInv'
<1>1. /\ Leaving /\ at' = at - 1 /\ UNCHANGED <<declared, chain, request, phase, written, claims, ran>>
      /\ logged' = logged /\ chain[at] # "Recover"
  BY DEF LeavePlain
<1>2. /\ phase = "panic" => logged' = logged /\ chain[at] # "Recover"
      /\ phase = "out" => \A i \in DOMAIN logged' :
               \/ i \in DOMAIN logged /\ logged'[i] = logged[i]
               \/ i = at /\ chain[at] = "Logger" /\ logged'[i] = written[Len(written)].code
  BY <1>1
<1>3. QED
  BY <1>1, <1>2, LayerKeeps

LEMMA LeaveLoggerKeeps == ASSUME SvInv, LeaveLogger PROVE SvInv'
<1>1. /\ phase \in {"out", "panic"} /\ at \in 1..Len(chain)
      /\ written \in Seq([by : 1..Len(chain) + 1, code : Codes])
      /\ phase = "out" => Answered
      /\ phase = "panic" => Panicking
  BY LeavingIs DEF LeaveLogger
<1>2. CASE phase = "panic"
  <2>1. /\ Leaving /\ at' = at - 1 /\ UNCHANGED <<declared, chain, request, phase, written, claims, ran>>
        /\ logged' = logged /\ chain[at] # "Recover"
    BY <1>2 DEF LeaveLogger
  <2>2. QED
    BY <1>2, <2>1, LayerKeeps
<1>3. CASE phase = "out"
  <2>1. Len(written) \in DOMAIN written /\ at < written[Len(written)].by
    BY <1>1, <1>3 DEF Answered
  <2>2. Len(written) \in Below(at) /\ \A k \in Below(at) : k \in Nat /\ Len(written) >= k
    BY <1>1, <2>1 DEF Below
  <2>3. \A x \in Below(at) : (\A y \in Below(at) : x >= y) => x = Len(written)
    BY <1>1, <2>2
  <2>4. Max(Below(at)) = Len(written)
    BY <2>2, <2>3 DEF Max
  <2>5. Status(at) = written[Len(written)].code
    BY <2>2, <2>4 DEF Status
  <2>6. logged' = [i \in DOMAIN logged \cup {at} |-> IF i = at THEN Status(at) ELSE logged[i]]
    BY <1>3 DEF LeaveLogger
  <2>7. \A i \in DOMAIN logged' :
           \/ i \in DOMAIN logged /\ logged'[i] = logged[i]
           \/ i = at /\ chain[at] = "Logger" /\ logged'[i] = written[Len(written)].code
    <3>1. DOMAIN logged' = DOMAIN logged \cup {at} /\ chain[at] = "Logger"
      BY <2>6 DEF LeaveLogger
    <3>2. \A i \in DOMAIN logged' : logged'[i] = IF i = at THEN Status(at) ELSE logged[i]
      BY <2>6
    <3>3. ASSUME NEW i \in DOMAIN logged'
          PROVE  \/ i \in DOMAIN logged /\ logged'[i] = logged[i]
                 \/ i = at /\ chain[at] = "Logger" /\ logged'[i] = written[Len(written)].code
      <4>1. CASE i = at
        BY <2>5, <3>1, <3>2, <3>3, <4>1
      <4>2. CASE i # at
        BY <3>1, <3>2, <3>3, <4>2
      <4>3. QED
        BY <4>1, <4>2
    <3>4. QED
      BY <3>3
  <2>8. Leaving /\ at' = at - 1 /\ UNCHANGED <<declared, chain, request, phase, written, claims, ran>>
    BY DEF LeaveLogger
  <2>9. QED
    BY <1>3, <2>7, <2>8, LayerKeeps
<1>4. QED
  BY <1>1, <1>2, <1>3

LEMMA LeaveRecoverKeeps == ASSUME SvInv, LeaveRecover PROVE SvInv'
<1>1. /\ phase \in {"out", "panic"} /\ at \in 1..Len(chain) /\ chain[at] = "Recover"
      /\ phase = "panic" => Panicking
      /\ UNCHANGED <<claims, ran>> /\ claims \in {"none", "valid"} /\ ran \in BOOLEAN
  BY LeavingIs DEF LeaveRecover, SvInv, SvTypeOK
<1>2. CASE phase = "out"
  <2>1. Leaving /\ at' = at - 1 /\ UNCHANGED <<declared, chain, request, phase, written, claims, ran, logged>>
    BY <1>2 DEF LeaveRecover
  <2>2. /\ phase = "panic" => logged' = logged /\ chain[at] # "Recover"
        /\ phase = "out" => \A i \in DOMAIN logged' :
               \/ i \in DOMAIN logged /\ logged'[i] = logged[i]
               \/ i = at /\ chain[at] = "Logger" /\ logged'[i] = written[Len(written)].code
    BY <1>2, <2>1
  <2>3. QED
    BY <1>2, <2>1, <2>2, LayerKeeps
<1>3. CASE phase = "panic"
  <2>1. Respond(500)
    BY <1>3 DEF LeaveRecover
  <2>2. Reason(500)
    <3>1. Passed(Len(chain) + 1) /\ request.target = "handler" /\ ran = TRUE /\ at \in DOMAIN chain
      BY <1>1, <1>3, LeavingIs DEF Panicking, Failed, LeaveRecover
    <3>2. QED
      BY <1>1, <3>1 DEF Reason
  <2>3. Reason(500)'
    BY <1>1, <2>1, <2>2, ReasonStays DEF Respond
  <2>4. IF Late' THEN written # <<>> /\ Sent = 200 ELSE written = <<>>
    BY <1>1, <1>3, <2>1 DEF Panicking, Unanswered, Late, Respond
  <2>5. QED
    BY <1>1, <1>3, <2>1, <2>3, <2>4, RespondKeeps DEF Panicking, Codes
<1>4. QED
  BY <1>1, <1>2, <1>3

LEMMA FinishKeeps == ASSUME SvInv, Finish PROVE SvInv'
<1>1. /\ phase \in {"out", "panic"} /\ at = 0 /\ phase' = IF phase = "out" THEN "sent" ELSE "dropped"
      /\ UNCHANGED <<declared, chain, request, at, written, logged, claims, ran>>
  BY DEF Finish
<1>2. SvTypeOK'
  BY <1>1 DEF SvInv, SvTypeOK
<1>3. ChainFits'
  BY <1>1, ChainStays
<1>4. phase = "out" => Answered'
  <2> SUFFICES ASSUME phase = "out" PROVE Answered'
    OBVIOUS
  <2>1. Answered
    BY DEF SvInv, RequestFits
  <2>2. PICK c : c = written[Len(written)].code
    OBVIOUS
  <2>3. Reason(c)'
    BY <1>1, <2>1, <2>2, ReasonStays DEF Answered
  <2>4. QED
    BY <1>1, <2>1, <2>2, <2>3 DEF Answered, Sent, Late
<1>5. phase = "panic" => Panicking'
  <2> SUFFICES ASSUME phase = "panic" PROVE Panicking'
    OBVIOUS
  <2>1. Panicking
    BY DEF SvInv, RequestFits
  <2>2. Passed(Len(chain) + 1)'
    BY <1>1, <2>1, PassedStays DEF Panicking, Passed
  <2>3. QED
    BY <1>1, <2>1, <2>2 DEF Panicking, Failed, Unanswered, Sent, Late
<1>6. RequestFits'
  BY <1>1, <1>4, <1>5 DEF RequestFits, SvInv
<1>7. QED
  BY <1>2, <1>3, <1>6 DEF SvInv

LEMMA RequestMoves ==
    ASSUME SvInv, SvNext
    PROVE  SvInv'
  BY WrapKeeps, ArriveKeeps, EnterKeeps, CoreKeeps, LeaveLoggerKeeps, LeaveRecoverKeeps,
     LeavePlainKeeps, FinishKeeps DEF SvNext

LEMMA ServiceStays == ASSUME SvInv, UNCHANGED svVars PROVE SvInv'
<1>1. UNCHANGED <<declared, chain, request, phase, at, written, logged, claims, ran>>
  BY DEF svVars
<1>2. SvTypeOK'
  BY <1>1 DEF SvInv, SvTypeOK
<1>3. ChainFits'
  BY <1>1 DEF SvInv, ChainFits, From, Wrapped
<1>4. \A n : Passed(n) => Passed(n)'
  BY <1>1, PassedStays
<1>5. Passed(Len(chain) + 1) => Passed(Len(chain) + 1)'
  BY <1>1, PassedStays DEF Passed
<1>6. Answered => Answered'
  <2> SUFFICES ASSUME Answered PROVE Answered'
    OBVIOUS
  <2>1. PICK c : c = written[Len(written)].code
    OBVIOUS
  <2>2. Reason(c)'
    BY <1>1, <2>1, ReasonStays DEF Answered
  <2>3. QED
    BY <1>1, <2>1, <2>2 DEF Answered, Sent, Late
<1>7. Panicking => Panicking'
  BY <1>1, <1>5 DEF Panicking, Failed, Unanswered, Sent, Late
<1>8. phase = "in" => Passed(at)'
  <2>1. PICK n : n = at
    OBVIOUS
  <2>2. phase = "in" => Passed(n)
    BY <2>1 DEF SvInv, RequestFits
  <2>3. QED
    BY <1>1, <1>4, <2>1, <2>2 DEF Passed
<1>9. RequestFits'
  BY <1>1, <1>6, <1>7, <1>8 DEF SvInv, RequestFits
<1>10. QED
  BY <1>2, <1>3, <1>9 DEF SvInv

LEMMA ServiceAlways == SvSpec => []SvInv
<1>1. SvInit => SvInv
  BY ServiceBegins
<1>2. SvInv /\ [SvNext]_svVars => SvInv'
  BY RequestMoves, ServiceStays
<1>3. QED
  BY <1>1, <1>2, PTL DEF SvSpec

-----------------------------------------------------------------------------
(* What the client gets.                                                    *)

\* The first layer that refuses is the first declared name that does.
LEMMA RefusingIs ==
    ASSUME SvInv, phase # "building"
    PROVE  /\ \A k \in DOMAIN chain :
                 Refusal(chain[k]) # 0 /\ Passed(k) =>
                    \E i \in Refusing : (\A j \in Refusing : i <= j) /\ Refusal(declared[i]) = Refusal(chain[k])
           /\ Passed(Len(chain) + 1) =>
                 /\ Refusing = {}
                 /\ (\E i \in DOMAIN declared : declared[i] = "JWT") => claims = "valid"
           /\ (\E i \in DOMAIN declared : declared[i] = "Recover") <=>
              (\E k \in DOMAIN chain : chain[k] = "Recover")
<1>1. PICK f \in [DOMAIN chain -> DOMAIN declared] : From(f)
  BY DEF SvInv, ChainFits
<1>2. /\ \A k \in DOMAIN chain : f[k] \in DOMAIN declared /\ chain[k] = declared[f[k]]
      /\ \A k, l \in DOMAIN chain : k < l => f[k] < f[l]
      /\ \A j \in DOMAIN declared : declared[j] \in Known => \E k \in DOMAIN chain : f[k] = j
  BY <1>1 DEF From, Wrapped
<1>3. /\ DOMAIN chain = 1..Len(chain) /\ DOMAIN declared \subseteq Nat /\ Len(chain) \in Nat
  BY DEF SvInv, SvTypeOK
<1>4. ASSUME NEW k \in DOMAIN chain, Refusal(chain[k]) # 0, Passed(k)
      PROVE  \E i \in Refusing : (\A j \in Refusing : i <= j) /\ Refusal(declared[i]) = Refusal(chain[k])
  <2>1. f[k] \in Refusing /\ Refusal(declared[f[k]]) = Refusal(chain[k])
    BY <1>2, <1>4 DEF Refusing
  <2>2. ASSUME NEW j \in Refusing PROVE f[k] <= j
    <3>1. j \in DOMAIN declared /\ Refusal(declared[j]) # 0
      BY DEF Refusing
    <3>2. PICK l \in DOMAIN chain : f[l] = j /\ chain[l] = declared[j]
      BY <1>2, <3>1, RefusalIs
    <3>3. ~(l < k)
      BY <1>4, <3>1, <3>2 DEF Passed
    <3>4. l = k \/ k < l
      BY <1>3, <3>3
    <3>5. QED
      BY <1>2, <1>3, <3>2, <3>4
  <2>3. QED
    BY <2>1, <2>2
<1>5. ASSUME Passed(Len(chain) + 1) PROVE \A k \in DOMAIN chain :
        Refusal(chain[k]) = 0 /\ (chain[k] = "JWT" => claims = "valid")
  BY <1>3, <1>5 DEF Passed
<1>6. ASSUME Passed(Len(chain) + 1) PROVE Refusing = {}
  BY <1>2, <1>5, <1>6, RefusalIs DEF Refusing
<1>7. ASSUME Passed(Len(chain) + 1), NEW i \in DOMAIN declared, declared[i] = "JWT" PROVE claims = "valid"
  BY <1>2, <1>5, <1>7 DEF Known
<1>8. (\E i \in DOMAIN declared : declared[i] = "Recover") <=> (\E k \in DOMAIN chain : chain[k] = "Recover")
  BY <1>2 DEF Known
<1>9. QED
  BY <1>4, <1>6, <1>7, <1>8

\* The service's state is well typed, for any middlewares and any request.
THEOREM ServiceTypeCorrect == SvSpec => []SvTypeOK
<1>1. SvInv => SvTypeOK
  BY DEF SvInv
<1>2. QED
  BY <1>1, ServiceAlways, PTL

\* Of the middlewares that refuse a request the first declared answers it, and
\* none of those behind it, nor the handler, takes part.
THEOREM DeclaredOrderHolds == SvSpec => []DeclarationOrder
<1>1. SvInv => DeclarationOrder
  <2> SUFFICES ASSUME SvInv, phase \in {"sent", "dropped"} PROVE DeclarationOrder
    BY DEF DeclarationOrder
  <2>1. CASE phase = "sent"
    <3>1. Answered
      BY <2>1 DEF SvInv, RequestFits
    <3>2. PICK c : /\ c = written[Len(written)].code /\ Reason(c)
                   /\ Sent = IF Late THEN 200 ELSE c
      BY <3>1 DEF Answered
    <3>3. CASE \E k \in DOMAIN chain : Refusal(chain[k]) = c /\ c # 0 /\ Passed(k) /\ ran = FALSE
      BY <2>1, <3>2, <3>3, RefusingIs DEF DeclarationOrder, Late
    <3>4. CASE Passed(Len(chain) + 1) /\ ran = (request.target = "handler")
      BY <2>1, <3>2, <3>4, RefusingIs DEF DeclarationOrder
    <3>5. QED
      BY <3>2, <3>3, <3>4 DEF Reason
  <2>2. CASE phase = "dropped"
    <3>1. Passed(Len(chain) + 1) /\ request.target = "handler" /\ ran = TRUE
      BY <2>2 DEF SvInv, RequestFits, Panicking, Failed
    <3>2. QED
      BY <2>2, <3>1, RefusingIs DEF DeclarationOrder
  <2>3. QED
    BY <2>1, <2>2
<1>2. QED
  BY <1>1, ServiceAlways, PTL

\* A panic without Recover is no answer, and one behind it a 500, or the status
\* it came too late for; and what any Logger logs is what the client got, but
\* the 500 of a panic that came too late.
THEOREM PanicsEndCaught == SvSpec => []PanicsAreCaught
<1>1. SvInv => PanicsAreCaught
  <2> SUFFICES ASSUME SvInv PROVE PanicsAreAnswered /\ LoggedIsSent
    BY DEF PanicsAreCaught
  <2>1. CASE phase = "sent"
    <3>1. Answered
      BY <2>1 DEF SvInv, RequestFits
    <3>2. PICK c : /\ c = written[Len(written)].code /\ Reason(c)
                   /\ Sent = IF Late THEN 200 ELSE c
                   /\ \A i \in DOMAIN logged : logged[i] = c
      BY <3>1 DEF Answered
    <3>3. ran = TRUE /\ request.result # "value"
             => c = 500 /\ \E i \in DOMAIN declared : declared[i] = "Recover"
      BY <2>1, <3>2, RefusingIs DEF Reason, Failed
    <3>4. LoggedIsSent
      BY <3>2, <3>3 DEF LoggedIsSent, Late
    <3>5. ran \in BOOLEAN
      BY DEF SvInv, SvTypeOK
    <3>6. QED
      BY <2>1, <3>2, <3>3, <3>4, <3>5 DEF PanicsAreAnswered
  <2>2. CASE phase = "dropped"
    <3>1. \A k \in DOMAIN chain : chain[k] # "Recover"
      <4>1. Panicking /\ at = 0 /\ DOMAIN chain = 1..Len(chain)
        BY <2>2 DEF SvInv, SvTypeOK, RequestFits
      <4>2. QED
        BY <4>1 DEF Panicking
    <3>2. QED
      BY <2>2, <3>1, RefusingIs DEF PanicsAreAnswered, LoggedIsSent
  <2>3. CASE phase \notin {"sent", "dropped"}
    BY <2>3 DEF PanicsAreAnswered, LoggedIsSent
  <2>4. QED
    BY <2>1, <2>2, <2>3
<1>2. QED
  BY <1>1, ServiceAlways, PTL

-----------------------------------------------------------------------------
(* Routes.                                                                  *)

USE RoutesAssumption

\* The router holds a beginning of the declaration, each route apart.
RouterFits ==
    /\ router = [i \in 1..Len(router) |-> i]
    /\ Len(router) \in 0..Len(routes)
    /\ \A i, j \in 1..Len(router) : Clashes(i, j) => i = j
    /\ state = "serving" => Len(router) = Len(routes)
    /\ state # "serving" => asked = NoRequest

RtInv == RtTypeOK /\ routes \in Seq(Route) /\ RouterFits /\ DocumentedIsServed

LEMMA BoundedSeqs ==
    ASSUME NEW n \in Nat, NEW S, NEW s \in UpTo(n, S)
    PROVE  s \in Seq(S)
  BY DEF UpTo

LEMMA RoutesBegin == ASSUME RtInit PROVE RtInv
<1>1. /\ router = <<>> /\ state = "building" /\ asked = NoRequest /\ match = NoMatch
      /\ prefix \in UpTo(MaxPrefix, Texts) /\ routes \in Seq(Route)
  BY BoundedSeqs DEF RtInit
<1>2. DOMAIN match.params = {} /\ match.route = 0
  BY <1>1 DEF NoMatch
<1>3. RtTypeOK
  <2>1. router \in Seq(DOMAIN routes) /\ \A i \in DOMAIN routes : routes[i] \in Route
    BY <1>1
  <2>2. QED
    BY <1>1, <1>2, <2>1 DEF RtTypeOK
<1>4. RouterFits
  BY <1>1 DEF RouterFits
<1>5. QED
  BY <1>1, <1>3, <1>4 DEF RtInv, DocumentedIsServed

LEMMA RegisterKeeps == ASSUME RtInv, Register PROVE RtInv'
<1> DEFINE n == Len(router)
<1>1. /\ router = [i \in 1..n |-> i] /\ n \in 0..Len(routes) /\ routes \in Seq(Route)
      /\ \A i, j \in 1..n : Clashes(i, j) => i = j
      /\ state = "building" /\ asked = NoRequest /\ router \in Seq(DOMAIN routes)
  BY DEF RtInv, RtTypeOK, RouterFits, Register
<1>2. UNCHANGED <<prefix, routes, asked, match>> /\ n + 1 \in DOMAIN routes
  BY DEF Register, Upcoming
<1>3. CASE \E k \in DOMAIN router : Clashes(router[k], Upcoming)
  <2>1. state' = "refused" /\ router' = router
    BY <1>3 DEF Register
  <2>2. RtTypeOK'
    BY <1>2, <2>1 DEF RtInv, RtTypeOK
  <2>3. RouterFits'
    BY <1>1, <1>2, <2>1 DEF RouterFits, Clashes
  <2>4. QED
    BY <1>1, <1>2, <2>2, <2>3 DEF RtInv, DocumentedIsServed
<1>4. CASE ~\E k \in DOMAIN router : Clashes(router[k], Upcoming)
  <2>1. state' = "building" /\ router' = Append(router, n + 1)
    BY <1>1, <1>4 DEF Register, Upcoming
  <2>2. /\ Len(router') = n + 1 /\ DOMAIN router' = 1..n + 1 /\ router' \in Seq(DOMAIN routes)
        /\ \A i \in 1..n + 1 : router'[i] = i
    BY <1>1, <1>2, <2>1
  <2>3. router' = [i \in 1..Len(router') |-> i]
    BY <2>1, <2>2
  <2>4. \A i, j \in 1..n + 1 : Clashes(i, j) => i = j
    <3>1. \A k \in 1..n : ~Clashes(k, n + 1) /\ ~Clashes(n + 1, k)
      BY <1>1, <1>4 DEF Upcoming, Clashes
    <3>2. \A i \in 1..n + 1 : i \in 1..n \/ i = n + 1
      BY <1>1
    <3>3. QED
      BY <1>1, <3>1, <3>2
  <2>5. RtTypeOK'
    BY <1>2, <2>1, <2>2 DEF RtInv, RtTypeOK
  <2>6. \A i, j : Clashes(i, j)' <=> Clashes(i, j)
    BY <1>2 DEF Clashes
  <2>7. RouterFits'
    BY <1>1, <1>2, <2>1, <2>2, <2>3, <2>4, <2>6 DEF RouterFits
  <2>8. QED
    BY <1>1, <1>2, <2>5, <2>7 DEF RtInv, DocumentedIsServed
<1>5. QED
  BY <1>3, <1>4

LEMMA ServeKeeps == ASSUME RtInv, Serve PROVE RtInv'
<1>1. /\ state' = "serving" /\ UNCHANGED <<prefix, routes, router, asked, match>>
      /\ Len(router) = Len(routes) /\ state = "building"
  BY DEF Serve
<1>2. asked = NoRequest
  BY <1>1 DEF RtInv, RouterFits
<1>3. RtTypeOK'
  BY <1>1 DEF RtInv, RtTypeOK
<1>4. RouterFits'
  BY <1>1 DEF RtInv, RouterFits, Clashes
<1>5. QED
  BY <1>1, <1>2, <1>3, <1>4 DEF RtInv, DocumentedIsServed

\* What a route is made of, part by part.
LEMMA SegmentsAre ==
    ASSUME prefix \in Seq(Texts), NEW r \in Route
    PROVE  /\ r.pattern.segments \in Seq(Texts)
           /\ Segments(r) \in Seq(Texts)
           /\ Len(Segments(r)) = Len(prefix) + Len(r.pattern.segments)
           /\ \A i \in 1..Len(prefix) : Segments(r)[i] = prefix[i]
           /\ \A i \in 1..Len(r.pattern.segments) :
                 Segments(r)[Len(prefix) + i] = r.pattern.segments[i]
<1>1. r.pattern.segments \in Seq(Texts)
  BY BoundedSeqs DEF Route, Pattern
<1>2. PICK s \in Seq(Texts) : s = r.pattern.segments
  BY <1>1
<1>3. Segments(r) = prefix \o s
  BY <1>2 DEF Segments
<1>4. /\ prefix \o s \in Seq(Texts) /\ Len(prefix \o s) = Len(prefix) + Len(s)
      /\ \A i \in 1..Len(prefix) : (prefix \o s)[i] = prefix[i]
      /\ \A i \in 1..Len(s) : (prefix \o s)[Len(prefix) + i] = s[i]
  OBVIOUS
<1>5. QED
  BY <1>2, <1>3, <1>4

\* Of what is read alike, a name is a parameter and a parameter its name.
LEMMA AlikeIs ==
    ASSUME NEW s \in Seq(Texts), ReadAlike(s), NEW i \in 1..Len(s)
    PROVE  /\ s[i].name # Blank <=> IsParam(s[i])
           /\ IsParam(s[i]) => ParamName(s[i]) = <<s[i].name, Blank>>
  BY DEF ReadAlike, IsParam, ParamName

\* The router and the document take the same paths.
LEMMA FitsDescribes ==
    ASSUME prefix \in Seq(Texts), ReadAlike(prefix),
           NEW r \in Route, ReadAlike(r.pattern.segments),
           NEW method, NEW path \in Seq(Parts)
    PROVE  Fits(r, method, path) <=> UnderPrefix(path) /\ Describes(r, method, BehindPrefix(path))
<1>1. PICK s \in Seq(Texts) : s = r.pattern.segments
  BY SegmentsAre
<1>2. PICK z \in Seq(Texts) : z = Segments(r)
  BY SegmentsAre
<1>3. PICK p \in Nat : p = Len(prefix)
  OBVIOUS
<1>4. /\ Len(z) = p + Len(s)
      /\ \A i \in 1..p : z[i] = prefix[i]
      /\ \A i \in 1..Len(s) : z[p + i] = s[i]
  BY <1>1, <1>2, <1>3, SegmentsAre
<1>5. /\ \A i \in 1..p : prefix[i].name # Blank <=> IsParam(prefix[i])
      /\ \A i \in 1..Len(s) : s[i].name # Blank <=> IsParam(s[i])
  BY <1>1, <1>3, AlikeIs
<1>6. DOMAIN path = 1..Len(path) /\ DOMAIN prefix = 1..p
  BY <1>3
<1>7. Fits(r, method, path) <=>
        /\ r.method = method /\ Len(z) = Len(path)
        /\ \A i \in 1..Len(path) : IsParam(z[i]) \/ z[i] = path[i]
  BY <1>2, <1>6, Zenon DEF Fits
<1>8. UnderPrefix(path) <=> p <= Len(path) /\ \A i \in 1..p : IsParam(prefix[i]) \/ prefix[i] = path[i]
  BY <1>3, <1>5, <1>6, Zenon DEF UnderPrefix
<1>9. CASE p <= Len(path)
  <2>1. PICK rest : rest = BehindPrefix(path)
    OBVIOUS
  <2>2. /\ rest \in Seq(Parts) /\ Len(rest) = Len(path) - p
        /\ \A i \in 1..Len(path) - p : rest[i] = path[p + i]
    BY <1>3, <1>9, <2>1 DEF BehindPrefix
  <2>3. Describes(r, method, rest) <=>
          /\ r.method = method /\ Len(s) = Len(rest)
          /\ \A i \in 1..Len(rest) : s[i].name # Blank \/ s[i] = rest[i]
    <3>1. DOMAIN rest = 1..Len(rest)
      BY <2>2
    <3>2. QED
      BY <1>1, <3>1, Zenon DEF Describes
  <2>7. PICK b, d \in Nat : /\ b = Len(s) /\ d = Len(path)
                            /\ Len(z) = p + b /\ Len(rest) = d - p
    BY <1>4, <2>2
  <2>8. p + b = d <=> b = d - p
    OBVIOUS
  <2>4. CASE Len(z) = Len(path)
    <3>1. Len(s) = Len(path) - p /\ Len(s) = Len(rest)
      BY <2>4, <2>7, <2>8, Zenon
    <3>2. (\A i \in 1..Len(path) : IsParam(z[i]) \/ z[i] = path[i]) <=>
            /\ \A i \in 1..p : IsParam(z[i]) \/ z[i] = path[i]
            /\ \A i \in 1..Len(s) : IsParam(z[p + i]) \/ z[p + i] = path[p + i]
      <4>1. /\ \A i \in 1..p : i \in 1..Len(path)
            /\ \A i \in 1..Len(s) : p + i \in 1..Len(path)
        BY <1>9, <3>1
      <4>2. \A i \in 1..Len(path) : i \in 1..p \/ \E k \in 1..Len(s) : i = p + k
        <5> SUFFICES ASSUME NEW i \in 1..Len(path), i \notin 1..p PROVE \E k \in 1..Len(s) : i = p + k
          OBVIOUS
        <5>1. i - p \in 1..Len(s) /\ i = p + (i - p)
          BY <3>1
        <5>2. QED
          BY <5>1
      <4>3. QED
        BY <4>1, <4>2
    <3>3. (\A i \in 1..p : IsParam(z[i]) \/ z[i] = path[i]) <=>
          (\A i \in 1..p : IsParam(prefix[i]) \/ prefix[i] = path[i])
      BY <1>4
    <3>4. (\A i \in 1..Len(s) : IsParam(z[p + i]) \/ z[p + i] = path[p + i]) <=>
          (\A i \in 1..Len(rest) : s[i].name # Blank \/ s[i] = rest[i])
      BY <1>4, <1>5, <2>2, <3>1
    <3>5. QED
      BY <1>7, <1>8, <1>9, <2>1, <2>3, <2>4, <3>1, <3>2, <3>3, <3>4
  <2>5. CASE Len(z) # Len(path)
    <3>1. Len(s) # Len(rest)
      BY <2>5, <2>7, <2>8, Zenon
    <3>2. QED
      BY <1>7, <2>1, <2>3, <2>5, <3>1
  <2>6. QED
    BY <2>4, <2>5
<1>10. CASE ~(p <= Len(path))
  <2>1. Len(z) # Len(path)
    BY <1>4, <1>10
  <2>2. QED
    BY <1>7, <1>8, <1>10, <2>1
<1>11. QED
  BY <1>9, <1>10

\* What a route binds are its parameters and those of the prefix.
LEMMA BindingsAre ==
    ASSUME prefix \in Seq(Texts), ReadAlike(prefix),
           NEW r \in Route, ReadAlike(r.pattern.segments),
           NEW method, NEW path \in Seq(Parts), Fits(r, method, path)
    PROVE  DOMAIN Bindings(r, path) = Parameters(prefix) \cup Parameters(r.pattern.segments)
<1>1. PICK s \in Seq(Texts) : s = r.pattern.segments
  BY SegmentsAre
<1>2. PICK z \in Seq(Texts) : z = Segments(r)
  BY SegmentsAre
<1>3. PICK p \in Nat : p = Len(prefix)
  OBVIOUS
<1>4. /\ Len(z) = p + Len(s) /\ Len(z) = Len(path)
      /\ \A i \in 1..p : z[i] = prefix[i]
      /\ \A i \in 1..Len(s) : z[p + i] = s[i]
  BY <1>1, <1>2, <1>3, SegmentsAre DEF Fits
<1>5. /\ \A i \in 1..p : prefix[i].name # Blank <=> IsParam(prefix[i])
      /\ \A i \in 1..p : IsParam(prefix[i]) => ParamName(prefix[i]) = <<prefix[i].name, Blank>>
      /\ \A i \in 1..Len(s) : s[i].name # Blank <=> IsParam(s[i])
      /\ \A i \in 1..Len(s) : IsParam(s[i]) => ParamName(s[i]) = <<s[i].name, Blank>>
  <2>1. ReadAlike(s)
    BY <1>1
  <2>2. QED
    BY <1>3, <2>1, AlikeIs
<1> DEFINE Param(i) == ParamName(z[i])
           Named(q, x) == \E i \in 1..Len(q) : q[i].name # Blank /\ x = <<q[i].name, Blank>>
<1>6. DOMAIN Bindings(r, path) = {ParamName(z[i]) : i \in {k \in 1..Len(path) : IsParam(z[k])}}
  BY <1>2 DEF Bindings
<1>7. \A x : x \in DOMAIN Bindings(r, path) <=> \E i \in 1..p + Len(s) : IsParam(z[i]) /\ x = Param(i)
  BY <1>4, <1>6
<1>8. /\ \A x : x \in Parameters(prefix) <=> Named(prefix, x)
      /\ \A x : x \in Parameters(s) <=> Named(s, x)
  <2>1. ASSUME NEW q \in Seq(Texts), NEW x PROVE x \in Parameters(q) <=> Named(q, x)
    <3>1. DOMAIN q = 1..Len(q)
      OBVIOUS
    <3>2. QED
      BY <3>1, Zenon DEF Parameters
  <2>2. QED
    BY <2>1
<1>9. /\ \A i \in 1..p : IsParam(z[i]) => Named(prefix, Param(i))
      /\ \A i \in 1..Len(s) : IsParam(z[p + i]) => Named(s, Param(p + i))
  BY <1>3, <1>4, <1>5
<1>10. \A i \in 1..p + Len(s) : i \in 1..p \/ \E k \in 1..Len(s) : i = p + k
  <2> SUFFICES ASSUME NEW i \in 1..p + Len(s), i \notin 1..p PROVE \E k \in 1..Len(s) : i = p + k
    OBVIOUS
  <2>1. i - p \in 1..Len(s) /\ i = p + (i - p)
    OBVIOUS
  <2>2. QED
    BY <2>1
<1>11. ASSUME NEW x, x \in DOMAIN Bindings(r, path) PROVE Named(prefix, x) \/ Named(s, x)
  <2>1. PICK i \in 1..p + Len(s) : IsParam(z[i]) /\ x = Param(i)
    BY <1>7, <1>11
  <2>2. QED
    BY <1>9, <1>10, <2>1
<1>12. ASSUME NEW x, Named(prefix, x) PROVE x \in DOMAIN Bindings(r, path)
  <2>1. PICK i \in 1..p : prefix[i].name # Blank /\ x = <<prefix[i].name, Blank>>
    BY <1>3, <1>12
  <2>2. i \in 1..p + Len(s)
    OBVIOUS
  <2>3. IsParam(prefix[i]) /\ x = ParamName(prefix[i]) /\ z[i] = prefix[i]
    BY <1>4, <1>5, <2>1, Zenon
  <2>4. QED
    BY <1>7, <2>2, <2>3, Zenon
<1>13. ASSUME NEW x, Named(s, x) PROVE x \in DOMAIN Bindings(r, path)
  <2>1. PICK i \in 1..Len(s) : s[i].name # Blank /\ x = <<s[i].name, Blank>>
    BY <1>13
  <2>2. p + i \in 1..p + Len(s)
    OBVIOUS
  <2>3. IsParam(s[i]) /\ x = ParamName(s[i]) /\ z[p + i] = s[i]
    BY <1>4, <1>5, <2>1, Zenon
  <2>4. QED
    BY <1>7, <2>2, <2>3, Zenon
<1> HIDE DEF Named, Param
<1>14. QED
  BY <1>1, <1>8, <1>11, <1>12, <1>13

\* What the document says is of the declaration.
LEMMA DocumentStays ==
    ASSUME UNCHANGED <<prefix, routes>>
    PROVE  /\ \A method, path : Describing(method, path)' = Describing(method, path)
           /\ BothRead' = BothRead
           /\ \A i : Promised(i)' = Promised(i)
           /\ ReadAlike(prefix)' <=> ReadAlike(prefix)
<1>1. prefix' = prefix /\ routes' = routes
  OBVIOUS
<1>2. BothRead' = BothRead /\ (ReadAlike(prefix)' <=> ReadAlike(prefix))
  BY <1>1 DEF BothRead, ReadAlike
<1>3. \A path : (UnderPrefix(path)' <=> UnderPrefix(path)) /\ BehindPrefix(path)' = BehindPrefix(path)
  BY <1>1 DEF UnderPrefix, BehindPrefix
<1>4. \A method, path : Describing(method, path)' = Describing(method, path)
  BY <1>1, <1>2, <1>3, Zenon DEF Describing, Describes
<1>5. \A i : Promised(i)' = Promised(i)
  BY <1>1, Zenon DEF Promised, Parameters
<1>6. QED
  BY <1>2, <1>4, <1>5

LEMMA MatchKeeps == ASSUME RtInv, Match PROVE RtInv'
<1>1. /\ state = "serving" /\ UNCHANGED <<prefix, routes, router, state>>
      /\ router = [i \in 1..Len(routes) |-> i] /\ Len(router) = Len(routes)
      /\ routes \in Seq(Route) /\ prefix \in Seq(Texts)
  BY BoundedSeqs DEF Match, RtInv, RtTypeOK, RouterFits
<1>2. PICK method \in Methods, path \in UpTo(MaxPrefix + MaxSegments, Parts) :
         LET fitting == {n \in DOMAIN router : Fits(routes[router[n]], method, path)} IN
         /\ asked' = [method |-> method, path |-> path]
         /\ match' =
              IF fitting = {} THEN NoMatch
              ELSE LET first == router[CHOOSE n \in fitting : \A k \in fitting : n <= k] IN
                   [route |-> first, params |-> Bindings(routes[first], path)]
  BY DEF Match
<1> DEFINE D == {i \in DOMAIN routes : Fits(routes[i], method, path)}
<1>3. D = {n \in DOMAIN router : Fits(routes[router[n]], method, path)}
  BY <1>1
<1>4. D \subseteq Nat
  BY <1>1
<1>5. path \in Seq(Parts)
  BY BoundedSeqs
<1>6. asked'.method = method /\ asked'.path = path
  BY <1>2
<1>7. /\ match'.route = 0 <=> D = {}
      /\ match'.route # 0 =>
            /\ match'.route \in D /\ \A i \in D : match'.route <= i
            /\ match'.params = Bindings(routes[match'.route], path)
      /\ match'.route \in {0} \cup DOMAIN routes
      /\ DOMAIN match'.params \subseteq {ParamName(t) : t \in Texts}
  <2>1. CASE D = {}
    <3>1. match' = NoMatch
      BY <1>2, <1>3, <2>1
    <3>2. DOMAIN match'.params = {} /\ match'.route = 0
      BY <3>1 DEF NoMatch
    <3>3. QED
      BY <2>1, <3>2
  <2>2. CASE D # {}
    <3> DEFINE n == CHOOSE n \in D : \A k \in D : n <= k
    <3>1. n \in D /\ \A k \in D : n <= k
      BY <1>4, <2>2, LeastOf
    <3>2. router[n] = n /\ n \in DOMAIN routes /\ n # 0 /\ routes[n] \in Route
      <4>1. PICK k : k = n /\ k \in DOMAIN routes
        BY <3>1
      <4> HIDE DEF n
      <4>2. k \in 1..Len(routes) /\ Len(routes) \in Nat
        BY <1>1, <4>1
      <4>3. router[k] = k /\ k # 0 /\ routes[k] \in Route
        BY <1>1, <4>2
      <4>4. QED
        BY <4>1, <4>3
    <3>3. match' = [route |-> router[n], params |-> Bindings(routes[router[n]], path)]
      BY <1>2, <1>3, <2>2
    <3>4. Fits(routes[n], method, path)
      BY <3>1
    <3> HIDE DEF n
    <3>5. match'.route = n /\ match'.params = Bindings(routes[n], path)
      BY <3>2, <3>3
    <3>6. DOMAIN match'.params \subseteq {ParamName(t) : t \in Texts}
      <4>1. Segments(routes[n]) \in Seq(Texts) /\ Len(Segments(routes[n])) = Len(path)
        BY <1>1, <3>2, <3>4, SegmentsAre DEF Fits
      <4>2. \A i \in DOMAIN path : Segments(routes[n])[i] \in Texts
        BY <1>5, <4>1
      <4>3. QED
        BY <3>5, <4>2 DEF Bindings
    <3>7. QED
      BY <2>2, <3>1, <3>2, <3>5, <3>6
  <2>3. QED
    BY <2>1, <2>2
<1>8. RtTypeOK'
  BY <1>1, <1>7 DEF RtInv, RtTypeOK
<1>9. RouterFits'
  BY <1>1 DEF RtInv, RouterFits, Clashes, Match
<1>10. PICK m, P : m = match'.route /\ P = DOMAIN match'.params
  OBVIOUS
<1> HIDE DEF D
<1>11. ASSUME ReadAlike(prefix)
       PROVE  /\ \A i \in Describing(method, path) : m \in 1..i
              /\ m \in BothRead => m \in Describing(method, path) /\ P = Promised(m)
  <2>1. \A i \in BothRead : i \in DOMAIN routes /\ ReadAlike(routes[i].pattern.segments)
    BY DEF BothRead
  <2>2. \A i \in BothRead : routes[i] \in Route /\ i \in Nat \ {0}
    BY <1>1, <2>1
  <2>3. \A i \in BothRead : Fits(routes[i], method, path) <=> i \in Describing(method, path)
    BY <1>1, <1>5, <1>11, <2>1, <2>2, FitsDescribes, Zenon DEF Describing
  <2>4. \A i \in BothRead : i \in D <=> i \in Describing(method, path)
    BY <2>1, <2>3, Zenon DEF D
  <2>5. ASSUME NEW i \in Describing(method, path) PROVE m \in 1..i
    <3>1. i \in BothRead
      BY DEF Describing
    <3>2. i \in D /\ i \in Nat
      BY <2>2, <2>4, <3>1
    <3>3. m \in Nat /\ m <= i /\ m # 0
      BY <1>4, <1>7, <1>10, <3>2
    <3>4. QED
      BY <3>2, <3>3
  <2>6. ASSUME m \in BothRead PROVE m \in Describing(method, path) /\ P = Promised(m)
    <3>1. m # 0 /\ m \in DOMAIN routes /\ routes[m] \in Route /\ ReadAlike(routes[m].pattern.segments)
      BY <2>1, <2>2, <2>6
    <3>2. m \in D /\ P = DOMAIN Bindings(routes[m], path)
      BY <1>7, <1>10, <3>1, Zenon
    <3>3. Fits(routes[m], method, path)
      BY <3>2 DEF D
    <3>4. P = Promised(m)
      BY <1>1, <1>5, <1>11, <3>1, <3>2, <3>3, BindingsAre, Zenon DEF Promised
    <3>5. QED
      BY <2>4, <2>6, <3>2, <3>4
  <2>7. QED
    BY <2>5, <2>6
<1>12. DocumentedIsServed'
  <2>1. /\ Describing(method, path)' = Describing(method, path) /\ BothRead' = BothRead
        /\ Promised(m)' = Promised(m) /\ (ReadAlike(prefix)' <=> ReadAlike(prefix))
    BY <1>1, DocumentStays
  <2>2. QED
    BY <1>6, <1>10, <1>11, <2>1 DEF DocumentedIsServed
<1>13. QED
  BY <1>1, <1>8, <1>9, <1>12 DEF RtInv

LEMMA RoutesAlways == RtSpec => []RtInv
<1>1. RtInit => RtInv
  BY RoutesBegin
<1>2. RtInv /\ [RtNext]_rtVars => RtInv'
  <2> SUFFICES ASSUME RtInv, [RtNext]_rtVars PROVE RtInv'
    OBVIOUS
  <2>1. CASE RtNext
    BY <2>1, RegisterKeeps, ServeKeeps, MatchKeeps DEF RtNext
  <2>2. CASE UNCHANGED rtVars
    <3>1. UNCHANGED <<prefix, routes, router, state, asked, match>>
      BY <2>2 DEF rtVars
    <3>2. RtTypeOK' /\ (routes \in Seq(Route))' /\ RouterFits'
      BY <3>1 DEF RtInv, RtTypeOK, RouterFits, Clashes
    <3>3. PICK a, m : a = asked /\ m = match
      OBVIOUS
    <3>4. /\ Describing(a.method, a.path)' = Describing(a.method, a.path) /\ BothRead' = BothRead
          /\ Promised(m.route)' = Promised(m.route) /\ (ReadAlike(prefix)' <=> ReadAlike(prefix))
      BY <3>1, DocumentStays
    <3>5. DocumentedIsServed'
      BY <3>1, <3>3, <3>4 DEF RtInv, DocumentedIsServed
    <3>6. QED
      BY <3>2, <3>5 DEF RtInv
  <2>3. QED
    BY <2>1, <2>2
<1>3. QED
  BY <1>1, <1>2, PTL DEF RtSpec

\* The server's state is well typed, for any routes and any requests.
THEOREM RoutesTypeCorrect == RtSpec => []RtTypeOK
<1>1. RtInv => RtTypeOK
  BY DEF RtInv
<1>2. QED
  BY <1>1, RoutesAlways, PTL

\* The document describes every route of a service, each apart; and, behind the
\* prefix and of the patterns that both read alike, a request that it describes
\* is answered, by that route or by one before it, and a route answers nothing
\* that its operation does not describe.
THEOREM DocumentHolds == RtSpec => []DocumentIsTrue
<1>1. RtInv => DocumentIsTrue
  <2> SUFFICES ASSUME RtInv, state = "serving" PROVE DocumentIsComplete
    BY DEF DocumentIsTrue, DocumentIsComplete, RtInv
  <2>1. DOMAIN routes = 1..Len(router)
    BY DEF RtInv, RouterFits
  <2>2. \A i, j \in DOMAIN routes : Slot(routes[i]) = Slot(routes[j]) => i = j
    BY <2>1 DEF RtInv, RouterFits, Clashes, Slot
  <2>3. ASSUME NEW i \in DOMAIN routes PROVE Documented[Slot(routes[i])] = i
    <3> DEFINE s == Slot(routes[i])
    <3>1. s \in {Slot(routes[k]) : k \in DOMAIN routes}
      OBVIOUS
    <3>2. Documented[s] = CHOOSE k \in DOMAIN routes :
             Slot(routes[k]) = s /\ \A j \in DOMAIN routes : Slot(routes[j]) = s => j <= k
      BY <3>1 DEF Documented
    <3>3. i \in Nat
      BY <2>1
    <3>4. \A k \in DOMAIN routes : Slot(routes[k]) = s <=> k = i
      BY <2>2
    <3>5. QED
      BY <3>2, <3>3, <3>4
  <2>4. QED
    BY <2>3 DEF DocumentIsComplete
<1>2. QED
  BY <1>1, RoutesAlways, PTL

-----------------------------------------------------------------------------
(* The MCP server.                                                          *)

USE MCPAssumption DEF MCPAssumption

\* What the proofs see of a line, and of an answer.
Id(x) == x.id
Asks(l) == l.method \in Lists \cup Uses
Opens(l) == l.method = "initialize"
Gives(r) == r.is \in {"result", "tool error"}

\* Requests carry the number of their line.
Own(l, n) == Id(l) \in {0, n}
Numbered ==
    /\ \A i \in DOMAIN handled : Own(handled[i], i)
    /\ \A i \in DOMAIN input : Own(input[i], Len(handled) + i)
    /\ ~serving => handled # <<>>

\* Answers are to lines that were read.
AnswersFit == \A i \in DOMAIN output : Id(output[i]) <= Ended

\* An initialize was read before the server took itself to be initialized.
Initialized == initialized => \E j \in DOMAIN handled : Opens(handled[j])

McpInv == McpTypeOK /\ Numbered /\ AnswersFit /\ Initialized /\ ServerKeepsProtocol

LEMMA LineIs ==
    ASSUME NEW l \in Line
    PROVE  /\ Id(l) \in 0..MaxLines
           /\ Asks(l) => Id(l) # 0
           /\ l.method \in Silent => Id(l) = 0
<1>1. CASE l \in [id : {0}, method : Notices \cup {"parse error", "blank", "too long"}]
  <2>1. l.id = 0
    BY <1>1
  <2>2. l.method \in Notices \cup {"parse error", "blank", "too long"}
    BY <1>1
  <2>3. l.method \notin Lists \cup Uses
    BY <2>2 DEF Notices, Lists, Uses
  <2>4. l.id \in 0..MaxLines
    BY <2>1
  <2>5. QED
    BY <2>1, <2>3, <2>4, Zenon DEF Id, Asks
<1>2. CASE l \in [id : 1..MaxLines, method : {"initialize", "no version", "", "ping"} \cup Lists]
  <2>1. l.id \in 1..MaxLines
    BY <1>2
  <2>2. l.method \in {"initialize", "no version", "", "ping"} \cup Lists
    BY <1>2
  <2>3. l.method \notin Silent
    BY <2>2 DEF Lists, Silent
  <2>4. l.id \in 0..MaxLines /\ l.id # 0
    BY <2>1
  <2>5. QED
    BY <2>3, <2>4, Zenon DEF Id, Asks
<1>3. CASE l \in [id : 1..MaxLines, method : Uses, of : Targeted]
  <2>1. l.id \in 1..MaxLines
    BY <1>3
  <2>2. l.method \in Uses
    BY <1>3
  <2>3. l.method \notin Silent
    BY <2>2 DEF Uses, Silent
  <2>4. l.id \in 0..MaxLines /\ l.id # 0
    BY <2>1
  <2>5. QED
    BY <2>3, <2>4, Zenon DEF Id, Asks
<1>4. QED
  BY <1>1, <1>2, <1>3 DEF Line

LEMMA ReplyIs == ASSUME NEW r \in Reply PROVE Id(r) \in 0..MaxLines
  BY DEF Reply, Id

\* The two parts of the protocol in these terms.
Ordered(out) ==
    \A i, j \in DOMAIN out :
        i < j /\ Id(out[i]) # 0 /\ Id(out[j]) # 0 => Id(out[i]) < Id(out[j])
Shaken(lines, replies, locked) ==
    \A i \in DOMAIN lines : \A r \in replies :
        Asks(lines[i]) /\ Id(r) = Id(lines[i]) /\ Gives(r)
            => ~locked /\ \E j \in 1..i - 1 : Opens(lines[j])
Ids(s, n) == {Id(s[i]) : i \in 1..n} \ {0}
Numbers == {Id(r) : r \in ToSet(output)} \ {0}

LEMMA ProtocolIs ==
    ServerKeepsProtocol <=> /\ Numbers = Ids(handled, Ended) /\ Ordered(output)
                            /\ Shaken(handled, ToSet(output), keyed)
<1>1. Owed = Ids(handled, Ended)
  BY DEF Owed, Ids, Id
<1>2. Numbers = {r.id : r \in ToSet(output)} \ {0}
  BY DEF Numbers, Id
<1>3. HandshakeComesFirst <=> Shaken(handled, ToSet(output), keyed)
  BY Zenon DEF HandshakeComesFirst, Shaken, Asks, Opens, Gives, Id
<1>4. AnsweredInOrder <=> Numbers = Ids(handled, Ended) /\ Ordered(output)
  BY <1>1, <1>2, Zenon DEF AnsweredInOrder, Ordered, Id
<1>5. QED
  BY <1>3, <1>4 DEF ServerKeepsProtocol

LEMMA McpBegins == ASSUME McpInit PROVE McpInv
<1>1. /\ keyed \in BOOLEAN /\ input = <<>> /\ sent = 0 /\ initialized = FALSE
      /\ output = <<>> /\ handled = <<>> /\ serving = TRUE
  BY DEF McpInit
<1>2. McpTypeOK
  <2>1. input \in Seq(Line) /\ handled \in Seq(Line) /\ output \in Seq(Reply)
    BY <1>1
  <2>2. Len(input) = 0 /\ Len(handled) = 0 /\ Len(output) = 0
    BY <1>1
  <2>3. QED
    BY <1>1, <2>1, <2>2, 0 = 0 + 0, 0 <= 0 DEF McpTypeOK
<1>3. Ended = 0 /\ Owed = {} /\ ToSet(output) = {}
  BY <1>1 DEF Ended, Owed, ToSet
<1>4. Numbered /\ AnswersFit /\ Initialized
  BY <1>1 DEF Numbered, AnswersFit, Initialized
<1>5. ServerKeepsProtocol
  BY <1>1, <1>3 DEF ServerKeepsProtocol, AnsweredInOrder, HandshakeComesFirst
<1>6. QED
  BY <1>2, <1>4, <1>5 DEF McpInv

LEMMA SendLineKeeps == ASSUME McpInv, SendLine PROVE McpInv'
<1>1. /\ input \in Seq(Line) /\ handled \in Seq(Line) /\ sent = Len(handled) + Len(input)
      /\ \A i \in DOMAIN input : Own(input[i], Len(handled) + i)
  BY DEF McpInv, McpTypeOK, Numbered
<1>2. PICK l \in Line : Own(l, sent + 1) /\ input' = Append(input, l)
  BY DEF SendLine, Own, Id
<1>3. sent' = sent + 1 /\ UNCHANGED <<keyed, initialized, output, handled, serving>>
  BY DEF SendLine
<1>4. /\ input' \in Seq(Line) /\ Len(input') = Len(input) + 1 /\ DOMAIN input' = 1..Len(input) + 1
      /\ input'[Len(input) + 1] = l /\ \A i \in 1..Len(input) : input'[i] = input[i]
  BY <1>1, <1>2
<1>5. McpTypeOK'
  BY <1>1, <1>3, <1>4 DEF McpInv, McpTypeOK
<1>6. Numbered'
  <2>1. \A i \in 1..Len(input) + 1 : i \in 1..Len(input) \/ i = Len(input) + 1
    BY <1>1
  <2>2. \A i \in DOMAIN input' : Own(input'[i], Len(handled) + i)
    <3>1. \A i \in 1..Len(input) : Own(input'[i], Len(handled) + i)
      <4> TAKE i \in 1..Len(input)
      <4>1. i \in DOMAIN input /\ input'[i] = input[i]
        BY <1>1, <1>4
      <4>2. QED
        BY <1>1, <4>1
    <3>2. sent + 1 = Len(handled) + (Len(input) + 1)
      BY <1>1
    <3>3. Own(input'[Len(input) + 1], Len(handled) + (Len(input) + 1))
      BY <1>2, <1>4, <3>2
    <3>4. QED
      BY <1>4, <2>1, <3>1, <3>3
  <2>3. QED
    BY <1>3, <2>2 DEF McpInv, Numbered
<1>7. Ended' = Ended /\ Owed' = Owed
  BY <1>3 DEF Ended, Owed
<1>8. AnswersFit' /\ Initialized'
  BY <1>3, <1>7 DEF McpInv, AnswersFit, Initialized
<1>9. AnsweredInOrder' /\ HandshakeComesFirst'
  BY <1>3, <1>7 DEF McpInv, ServerKeepsProtocol, AnsweredInOrder, HandshakeComesFirst
<1>10. QED
  BY <1>5, <1>6, <1>8, <1>9 DEF McpInv, ServerKeepsProtocol

\* Line n + 1 is read.
LEMMA ReadLineIs ==
    ASSUME McpInv, ReadLine, NEW n, n = Len(handled)
    PROVE  /\ n \in Nat /\ NextLine \in Line /\ Own(NextLine, n + 1) /\ serving = TRUE
           /\ n + 1 <= MaxLines \/ Id(NextLine) = 0
           /\ input' \in Seq(Line) /\ Len(input) = Len(input') + 1
           /\ handled' \in Seq(Line) /\ Len(handled') = n + 1 /\ DOMAIN handled' = 1..n + 1
           /\ handled'[n + 1] = NextLine /\ \A i \in 1..n : handled'[i] = handled[i]
           /\ \A i \in DOMAIN handled' : Own(handled'[i], i)
           /\ \A i \in DOMAIN input' : Own(input'[i], n + 1 + i)
<1>1. /\ input \in Seq(Line) /\ handled \in Seq(Line) /\ input # <<>> /\ serving = TRUE
      /\ \A i \in DOMAIN handled : Own(handled[i], i)
      /\ \A i \in DOMAIN input : Own(input[i], n + i)
      /\ input' = Tail(input) /\ handled' = Append(handled, NextLine)
  BY DEF McpInv, McpTypeOK, Numbered, ReadLine
<1>2. /\ NextLine = input[1] /\ NextLine \in Line /\ n \in Nat
      /\ input' \in Seq(Line) /\ Len(input) = Len(input') + 1 /\ DOMAIN input' = 1..Len(input')
      /\ \A i \in 1..Len(input') : input'[i] = input[i + 1]
  BY <1>1 DEF NextLine
<1>3. /\ handled' \in Seq(Line) /\ Len(handled') = n + 1 /\ DOMAIN handled' = 1..n + 1
      /\ handled'[n + 1] = NextLine /\ \A i \in 1..n : handled'[i] = handled[i]
  <2>1. PICK l : l = NextLine
    OBVIOUS
  <2>2. l \in Line /\ handled \in Seq(Line) /\ Len(handled) = n /\ handled' = Append(handled, l)
    BY <1>1, <1>2, <2>1
  <2>3. QED
    BY <2>1, <2>2
<1>4. Own(NextLine, n + 1)
  <2>1. 1 \in DOMAIN input
    BY <1>1
  <2>2. Own(input[1], n + 1)
    BY <1>1, <2>1
  <2>3. QED
    BY <1>2, <2>2
<1>5. \A i \in 1..Len(input') : Own(input'[i], n + 1 + i)
  <2> TAKE i \in 1..Len(input')
  <2>1. i \in Int /\ i + 1 \in DOMAIN input /\ input'[i] = input[i + 1] /\ n + (i + 1) = n + 1 + i
    BY <1>1, <1>2
  <2>2. Own(input[i + 1], n + (i + 1))
    BY <1>1, <2>1
  <2>3. QED
    BY <2>1, <2>2
<1>6. \A i \in 1..n + 1 : i \in 1..n \/ i = n + 1
  BY <1>2
<1>7. \A i \in DOMAIN handled' : Own(handled'[i], i)
  BY <1>1, <1>3, <1>4, <1>6
<1>8. n + 1 <= MaxLines \/ Id(NextLine) = 0
  <2>1. Id(NextLine) \in 0..MaxLines
    BY <1>2, LineIs
  <2>2. CASE Id(NextLine) = n + 1
    BY <1>2, <2>1, <2>2
  <2>3. QED
    BY <1>4, <2>2 DEF Own
<1>9. QED
  BY <1>1, <1>2, <1>3, <1>4, <1>5, <1>7, <1>8

LEMMA ProtocolThen ==
    ServerKeepsProtocol' <=> /\ Numbers' = Ids(handled', Ended') /\ Ordered(output')
                             /\ Shaken(handled', ToSet(output'), keyed')
<1>1. Owed' = Ids(handled', Ended')
  BY DEF Owed, Ids, Id
<1>2. Numbers' = {r.id : r \in ToSet(output')} \ {0}
  BY DEF Numbers, Id
<1>3. HandshakeComesFirst' <=> Shaken(handled', ToSet(output'), keyed')
  BY Zenon DEF HandshakeComesFirst, Shaken, Asks, Opens, Gives, Id
<1>4. AnsweredInOrder' <=> Numbers' = Ids(handled', Ended') /\ Ordered(output')
  BY <1>1, <1>2, Zenon DEF AnsweredInOrder, Ordered, Id
<1>5. QED
  BY <1>3, <1>4 DEF ServerKeepsProtocol

\* What holds before a line is read, the n-th after n - 1.
LEMMA Before ==
    ASSUME McpInv, NEW n, n = Len(handled)
    PROVE  /\ n \in Nat /\ handled \in Seq(Line) /\ DOMAIN handled = 1..n
           /\ output \in Seq(Reply) /\ Len(output) \in 0..n /\ DOMAIN output = 1..Len(output)
           /\ \A i \in 1..n : Own(handled[i], i) /\ (Asks(handled[i]) => Id(handled[i]) = i)
           /\ \A i \in DOMAIN output : Id(output[i]) \in Nat /\ Id(output[i]) <= Ended
           /\ sent = n + Len(input)
           /\ keyed \in BOOLEAN /\ initialized \in BOOLEAN
<1>1. /\ handled \in Seq(Line) /\ output \in Seq(Reply) /\ Len(output) <= Len(handled)
      /\ sent = Len(handled) + Len(input) /\ keyed \in BOOLEAN /\ initialized \in BOOLEAN
  BY DEF McpInv, McpTypeOK
<1>2. /\ \A i \in DOMAIN handled : Own(handled[i], i)
      /\ \A i \in DOMAIN output : Id(output[i]) <= Ended
  BY DEF McpInv, Numbered, AnswersFit
<1>3. /\ n \in Nat /\ DOMAIN handled = 1..n
      /\ Len(output) \in 0..n /\ DOMAIN output = 1..Len(output)
  BY <1>1
<1>4. \A i \in DOMAIN handled : handled[i] \in Line
  BY <1>1
<1>5. \A i \in DOMAIN output : output[i] \in Reply
  BY <1>1
<1>6. \A i \in 1..n : Asks(handled[i]) => Id(handled[i]) = i
  BY <1>2, <1>3, <1>4, LineIs, Zenon DEF Own
<1>7. \A i \in DOMAIN output : Id(output[i]) \in Nat
  BY <1>5, ReplyIs
<1>8. QED
  BY <1>1, <1>2, <1>3, <1>6, <1>7

\* A line that gets no answer.
LEMMA SilentKeeps ==
    ASSUME McpInv, ReadLine, UNCHANGED <<keyed, sent, initialized, output>>,
           serving' \in BOOLEAN, serving' => Id(NextLine) = 0
    PROVE  McpInv'
<1>1. PICK n : n = Len(handled)
  OBVIOUS
<1>2. /\ NextLine \in Line /\ Own(NextLine, n + 1) /\ serving = TRUE
      /\ input' \in Seq(Line) /\ Len(input) = Len(input') + 1
      /\ handled' \in Seq(Line) /\ Len(handled') = n + 1 /\ DOMAIN handled' = 1..n + 1
      /\ handled'[n + 1] = NextLine /\ \A i \in 1..n : handled'[i] = handled[i]
      /\ \A i \in DOMAIN handled' : Own(handled'[i], i)
      /\ \A i \in DOMAIN input' : Own(input'[i], n + 1 + i)
  BY <1>1, ReadLineIs
<1>3. /\ n \in Nat /\ DOMAIN handled = 1..n
      /\ output \in Seq(Reply) /\ Len(output) \in 0..n /\ DOMAIN output = 1..Len(output)
      /\ \A i \in DOMAIN output : Id(output[i]) \in Nat /\ Id(output[i]) <= Ended
      /\ sent = n + Len(input) /\ keyed \in BOOLEAN /\ initialized \in BOOLEAN
  BY <1>1, Before
<1>4. Ended = n /\ Ended' \in {n, n + 1} /\ (~serving' => Ended' = n) /\ (serving' => Ended' = n + 1)
  BY <1>1, <1>2, <1>3 DEF Ended
<1>5. McpTypeOK'
  <2>1. Len(input') \in Nat /\ sent = n + 1 + Len(input') /\ Len(output) <= n + 1
    BY <1>2, <1>3
  <2>2. QED
    BY <1>2, <1>3, <2>1 DEF McpTypeOK
<1>6. Numbered'
  <2>1. handled' # <<>>
    BY <1>2, <1>3
  <2>2. QED
    BY <1>2, <2>1 DEF Numbered
<1>7. AnswersFit'
  BY <1>3, <1>4 DEF AnswersFit
<1>8. Initialized'
  <2>1. initialized => \E j \in DOMAIN handled : Opens(handled[j])
    BY DEF McpInv, Initialized
  <2>2. \A j \in 1..n : j \in 1..n + 1
    BY <1>3
  <2>3. QED
    BY <1>2, <1>3, <2>1, <2>2 DEF Initialized
<1>9. ServerKeepsProtocol'
  <2>1. /\ Numbers = Ids(handled, n) /\ Ordered(output)
        /\ Shaken(handled, ToSet(output), keyed)
    BY <1>4, ProtocolIs DEF McpInv
  <2>2. Ids(handled', Ended') = Ids(handled, n)
    <3>1. Ids(handled', n) = Ids(handled, n)
      BY <1>2, <1>3 DEF Ids
    <3>2. CASE ~serving'
      BY <1>4, <3>1, <3>2
    <3>3. CASE serving'
      <4>1. Id(handled'[n + 1]) = 0 /\ Ended' = n + 1
        BY <1>2, <1>4, <3>3
      <4>2. \A i \in 1..n + 1 : i \in 1..n \/ i = n + 1
        BY <1>3
      <4>3. \A i \in 1..n : i \in 1..n + 1
        BY <1>3
      <4>4. Ids(handled', n + 1) = Ids(handled', n)
        BY <4>1, <4>2, <4>3, Zenon DEF Ids
      <4>5. QED
        BY <3>1, <4>1, <4>4
    <3>4. QED
      BY <3>2, <3>3
  <2>3. Shaken(handled', ToSet(output'), keyed')
    <3> SUFFICES ASSUME NEW i \in 1..n + 1, NEW r \in ToSet(output),
                        Asks(handled'[i]), Id(r) = Id(handled'[i]), Gives(r)
                 PROVE  ~keyed /\ \E j \in 1..i - 1 : Opens(handled'[j])
      BY <1>2, Zenon DEF Shaken
    <3>1. Id(r) <= n
      BY <1>3, <1>4 DEF ToSet
    <3>2. Id(handled'[i]) = i
      <4>1. handled'[i] \in Line
        BY <1>2
      <4>2. QED
        BY <1>2, <4>1, LineIs DEF Own
    <3>3. i \in 1..n
      BY <1>3, <3>1, <3>2
    <3>4. ~keyed /\ \E j \in 1..i - 1 : Opens(handled[j])
      BY <1>2, <1>3, <2>1, <3>3, Zenon DEF Shaken
    <3>5. \A j \in 1..i - 1 : handled'[j] = handled[j]
      <4>1. n \in Nat
        BY <1>3
      <4>2. \A j \in 1..i - 1 : j \in 1..n
        BY <3>3, <4>1
      <4>3. QED
        BY <1>2, <4>2, Zenon
    <3>6. QED
      BY <3>4, <3>5
  <2>4. QED
    BY <2>1, <2>2, <2>3, ProtocolThen DEF Numbers
<1>10. QED
  BY <1>5, <1>6, <1>7, <1>8, <1>9 DEF McpInv

\* What the server makes of a line: an answer to it, and nothing is given away
\* before the handshake or without the key.
LEMMA AnswersAre ==
    ASSUME NEW l \in Line, NEW r \in HandleRequest(l)
    PROVE  /\ r \in Reply /\ Id(r) = Id(l)
           /\ Asks(l) /\ Gives(r) => ~keyed /\ initialized
<1>1. PICK is \in Outcomes(l) : r = [id |-> l.id, is |-> is, tools |-> Listed(l, is)]
  BY DEF HandleRequest
<1>2. Used(l) \subseteq Answers
  BY DEF Used, Answers
<1>3. is \in Answers
  BY <1>2 DEF Outcomes, Answers
<1>4. Listed(l, is) \in SUBSET (Described \cup Bare)
  BY DEF Listed, Registry
<1>5. l.id \in 0..MaxLines
  BY LineIs DEF Id
<1>6. r \in Reply
  BY <1>1, <1>3, <1>4, <1>5 DEF Reply
<1>7. Asks(l) /\ Gives(r) => ~keyed /\ initialized
  <2> SUFFICES ASSUME Asks(l), keyed \/ ~initialized PROVE ~Gives(r)
    OBVIOUS
  <2>1. Refused(l) /\ l.method # "parse error"
    BY DEF Refused, Asks, Lists, Uses, Notices
  <2>2. Outcomes(l) = {"invalid request"}
    BY <2>1 DEF Outcomes
  <2>3. r.is = "invalid request"
    BY <1>1, <2>2
  <2>4. QED
    BY <2>3 DEF Gives
<1>8. QED
  BY <1>1, <1>6, <1>7 DEF Id

LEMMA DispatchKeeps == ASSUME McpInv, Dispatch PROVE McpInv'
<1>0. ReadLine /\ UNCHANGED <<keyed, sent, serving>>
  BY DEF Dispatch
<1>1. PICK n : n = Len(handled)
  OBVIOUS
<1>2. /\ NextLine \in Line /\ Own(NextLine, n + 1) /\ serving = TRUE
      /\ input' \in Seq(Line) /\ Len(input) = Len(input') + 1
      /\ handled' \in Seq(Line) /\ Len(handled') = n + 1 /\ DOMAIN handled' = 1..n + 1
      /\ handled'[n + 1] = NextLine /\ \A i \in 1..n : handled'[i] = handled[i]
      /\ \A i \in DOMAIN handled' : Own(handled'[i], i)
      /\ \A i \in DOMAIN input' : Own(input'[i], n + 1 + i)
  BY <1>0, <1>1, ReadLineIs
<1>3. /\ n \in Nat /\ DOMAIN handled = 1..n
      /\ output \in Seq(Reply) /\ Len(output) \in 0..n /\ DOMAIN output = 1..Len(output)
      /\ \A i \in DOMAIN output : Id(output[i]) \in Nat /\ Id(output[i]) <= Ended
      /\ sent = n + Len(input) /\ keyed \in BOOLEAN /\ initialized \in BOOLEAN
  BY <1>1, Before
<1>4. PICK r \in HandleRequest(NextLine) : output' = Append(output, r)
  BY DEF Dispatch
<1>5. PICK l : l = NextLine
  OBVIOUS
<1>6. l \in Line /\ r \in HandleRequest(l)
  BY <1>2, <1>4, <1>5
<1>7. /\ r \in Reply /\ Id(r) = Id(l)
      /\ Asks(l) /\ Gives(r) => ~keyed /\ initialized
  BY <1>6, AnswersAre
<1>8. PICK m : m = Len(output)
  OBVIOUS
<1>9. /\ output' \in Seq(Reply) /\ Len(output') = m + 1 /\ DOMAIN output' = 1..m + 1
      /\ output'[m + 1] = r /\ \A i \in 1..m : output'[i] = output[i]
      /\ m \in 0..n /\ DOMAIN output = 1..m
  BY <1>3, <1>4, <1>7, <1>8
<1>10. Ended = n /\ Ended' = n + 1
  BY <1>0, <1>1, <1>2, <1>3 DEF Ended
<1>11. \A i \in 1..m : Id(output'[i]) \in Nat /\ Id(output'[i]) <= n
  BY <1>3, <1>9, <1>10
<1>12. \A i \in 1..m + 1 : i \in 1..m \/ i = m + 1
  BY <1>3, <1>9
<1>13. \A i \in 1..n + 1 : i \in 1..n \/ i = n + 1
  BY <1>3
<1>14. Id(r) = 0 \/ Id(r) = n + 1
  BY <1>2, <1>5, <1>7 DEF Own
<1>15. McpTypeOK'
  <2>1. input' \in Seq(Line) /\ Len(input) = Len(input') + 1 /\ sent = n + Len(input)
    BY <1>2, <1>3
  <2>2. n \in Nat /\ m \in 0..n
    BY <1>3, <1>9
  <2>3. Len(input') \in Nat /\ sent = n + 1 + Len(input') /\ m + 1 <= n + 1
    BY <2>1, <2>2
  <2>4. initialized' \in BOOLEAN
    BY <1>3, Zenon DEF Dispatch
  <2>5. QED
    BY <1>0, <1>2, <1>3, <1>9, <2>3, <2>4 DEF McpTypeOK
<1>16. Numbered'
  BY <1>0, <1>2, Zenon DEF Numbered
<1>17. AnswersFit'
  <2>1. \A i \in 1..m + 1 : Id(output'[i]) <= n + 1
    BY <1>3, <1>9, <1>11, <1>12, <1>14
  <2>2. QED
    BY <1>9, <1>10, <2>1 DEF AnswersFit
<1>18. Initialized'
  <2>1. initialized => \E j \in 1..n : Opens(handled[j])
    BY <1>3 DEF McpInv, Initialized
  <2>2. initialized' => initialized \/ Opens(NextLine)
    BY Zenon DEF Dispatch, Opens
  <2>3. n + 1 \in 1..n + 1 /\ \A j \in 1..n : j \in 1..n + 1
    BY <1>3
  <2>4. QED
    BY <1>2, <2>1, <2>2, <2>3, Zenon DEF Initialized
<1>19. ServerKeepsProtocol'
  <2>1. /\ Numbers = Ids(handled, n) /\ Ordered(output)
        /\ Shaken(handled, ToSet(output), keyed)
    BY <1>10, ProtocolIs DEF McpInv
  <2>2. ToSet(output) = {output[i] : i \in 1..m} /\ ToSet(output') = ToSet(output) \cup {r}
    BY <1>9, <1>12 DEF ToSet
  <2>3. Numbers' = Ids(handled', n + 1)
    <3>1. Numbers' = Numbers \cup ({Id(r)} \ {0})
      BY <2>2 DEF Numbers
    <3>2. Ids(handled', n + 1) = Ids(handled', n) \cup ({Id(handled'[n + 1])} \ {0})
      <4>1. n + 1 \in 1..n + 1 /\ \A j \in 1..n : j \in 1..n + 1
        BY <1>3
      <4>2. QED
        BY <1>13, <4>1, Zenon DEF Ids
    <3>3. Ids(handled', n) = Ids(handled, n)
      BY <1>2, <1>3 DEF Ids
    <3>4. QED
      BY <1>2, <1>5, <1>7, <2>1, <3>1, <3>2, <3>3
  <2>4. Ordered(output')
    <3> SUFFICES ASSUME NEW i \in 1..m + 1, NEW j \in 1..m + 1, i < j,
                        Id(output'[i]) # 0, Id(output'[j]) # 0
                 PROVE  Id(output'[i]) < Id(output'[j])
      BY <1>9, Zenon DEF Ordered
    <3>1. i \in 1..m
      BY <1>9
    <3>2. CASE j \in 1..m
      <4>1. output'[i] = output[i] /\ output'[j] = output[j] /\ i \in DOMAIN output /\ j \in DOMAIN output
        BY <1>9, <3>1, <3>2
      <4>2. QED
        BY <2>1, <4>1 DEF Ordered
    <3>3. CASE j = m + 1
      <4>1. Id(output'[j]) = n + 1
        BY <1>9, <1>14, <3>3
      <4>2. QED
        BY <1>3, <1>11, <3>1, <4>1
    <3>4. QED
      BY <1>12, <3>2, <3>3
  <2>5. Shaken(handled', ToSet(output'), keyed')
    <3> SUFFICES ASSUME NEW i \in 1..n + 1, NEW x \in ToSet(output'),
                        Asks(handled'[i]), Id(x) = Id(handled'[i]), Gives(x)
                 PROVE  ~keyed /\ \E j \in 1..i - 1 : Opens(handled'[j])
      BY <1>0, <1>2, Zenon DEF Shaken
    <3>1. Id(handled'[i]) = i
      <4>1. handled'[i] \in Line
        BY <1>2
      <4>2. QED
        BY <1>2, <4>1, LineIs DEF Own
    <3>2. CASE x \in ToSet(output)
      <4>1. Id(x) <= n
        BY <1>3, <1>10, <3>2 DEF ToSet
      <4>2. i \in 1..n
        BY <1>3, <3>1, <4>1
      <4>3. ~keyed /\ \E j \in 1..i - 1 : Opens(handled[j])
        BY <1>2, <1>3, <2>1, <3>2, <4>2, Zenon DEF Shaken
      <4>4. \A j \in 1..i - 1 : handled'[j] = handled[j]
        BY <1>2, <1>3, <4>2
      <4>5. QED
        BY <4>3, <4>4
    <3>3. CASE x = r
      <4>1. i = n + 1
        BY <1>3, <1>14, <3>1, <3>3
      <4>2. ~keyed /\ initialized
        BY <1>2, <1>5, <1>7, <3>3, <4>1
      <4>3. PICK j \in 1..n : Opens(handled[j])
        BY <1>3, <4>2 DEF McpInv, Initialized
      <4>4. j \in 1..i - 1 /\ handled'[j] = handled[j]
        BY <1>2, <1>3, <4>1
      <4>5. QED
        BY <4>2, <4>3, <4>4
    <3>4. QED
      BY <2>2, <3>2, <3>3
  <2>6. QED
    BY <1>10, <2>3, <2>4, <2>5, ProtocolThen
<1>20. QED
  BY <1>15, <1>16, <1>17, <1>18, <1>19 DEF McpInv

\* The invariant of the server.
LEMMA McpAlways == McpSpec => []McpInv
<1>1. McpInit => McpInv
  BY McpBegins
<1>2. McpInv /\ [McpNext]_mcpVars => McpInv'
  <2> SUFFICES ASSUME McpInv, [McpNext]_mcpVars PROVE McpInv'
    OBVIOUS
  <2>1. CASE SendLine
    BY <2>1, SendLineKeeps
  <2>2. CASE Skip
    <3>1. /\ ReadLine /\ NextLine.method \in Silent
          /\ UNCHANGED <<keyed, sent, initialized, output, serving>>
      BY <2>2 DEF Skip
    <3>2. NextLine \in Line /\ serving = TRUE
      <4>1. PICK n : n = Len(handled)
        OBVIOUS
      <4>2. QED
        BY <3>1, <4>1, ReadLineIs
    <3>3. PICK l : l = NextLine
      OBVIOUS
    <3>4. l \in Line /\ l.method \in Silent
      BY <3>1, <3>2, <3>3
    <3>5. Id(l) = 0
      BY <3>4, LineIs
    <3>6. serving' \in BOOLEAN /\ (serving' => Id(NextLine) = 0) /\ UNCHANGED <<keyed, sent, initialized, output>>
      BY <3>1, <3>2, <3>3, <3>5
    <3>7. QED
      BY <3>1, <3>6, SilentKeeps
  <2>3. CASE Dispatch
    BY <2>3, DispatchKeeps
  <2>4. CASE Die
    <3>1. /\ ReadLine /\ UNCHANGED <<keyed, sent, initialized, output>>
          /\ serving' \in BOOLEAN /\ (serving' => Id(NextLine) = 0)
      BY <2>4 DEF Die
    <3>2. QED
      BY <3>1, SilentKeeps
  <2>5. CASE UNCHANGED mcpVars
    <3>1. UNCHANGED <<keyed, input, sent, initialized, output, handled, serving>>
      BY <2>5 DEF mcpVars
    <3>2. McpTypeOK' /\ Numbered' /\ AnswersFit' /\ Initialized'
      BY <3>1 DEF McpInv, McpTypeOK, Numbered, AnswersFit, Initialized, Ended
    <3>3. Ended' = Ended /\ Numbers' = Numbers
      BY <3>1 DEF Ended, Numbers
    <3>4. ServerKeepsProtocol'
      BY <3>1, <3>3, ProtocolIs, ProtocolThen DEF McpInv
    <3>5. QED
      BY <3>2, <3>4 DEF McpInv
  <2>6. QED
    BY <2>1, <2>2, <2>3, <2>4, <2>5 DEF McpNext
<1>3. QED
  BY <1>1, <1>2, PTL DEF McpSpec

\* The MCP server keeps its types: a line more is read than is answered at most,
\* and none is lost between the client and the loop of ServeStdio.
THEOREM McpTypeCorrect == McpSpec => []McpTypeOK
<1>1. McpInv => McpTypeOK
  BY DEF McpInv
<1>2. QED
  BY <1>1, McpAlways, PTL

\* Whatever a client sends, and before it reads an answer, ServeStdio answers each
\* request once and in order, and HandleRequest lists, calls and reads nothing
\* before an initialize or for a client that has no key.
THEOREM ProtocolIsKept == McpSpec => []ServerKeepsProtocol
<1>1. McpInv => ServerKeepsProtocol
  BY DEF McpInv
<1>2. QED
  BY <1>1, McpAlways, PTL
-----------------------------------------------------------------------------
(* A service and its stores, of which one part works while the others rest. *)

\* The stores, the limiter, the chain and the routes of a service are well formed,
\* of whichever of them a behaviour is.
THEOREM BackendTypeCorrect == MCSpec => []BackendTypeOK
<1>1. MCInit => DBInit /\ FSInit /\ RLInit /\ SvInit /\ RtInit
  BY DEF MCInit, StoresRest, LimiterRest, ServiceRest, RoutesRest
<1>2. [MCNext]_<<part, dbVars, fsVars, rlVars, svVars, rtVars>>
        => [DBNext]_dbVars /\ [FSNext]_fsVars /\ [RLNext]_rlVars /\ [SvNext]_svVars /\ [RtNext]_rtVars
  BY DEF MCNext
<1>3. MCSpec => DBSpec /\ FSSpec /\ RLSpec /\ SvSpec /\ RtSpec
  BY <1>1, <1>2, PTL DEF MCSpec, DBSpec, FSSpec, RLSpec, SvSpec, RtSpec
<1>4. DBTypeOK /\ FSTypeOK /\ RLTypeOK /\ SvTypeOK /\ RtTypeOK => BackendTypeOK
  BY DEF BackendTypeOK
<1>5. QED
  BY <1>3, <1>4, DatabaseTypeCorrect, FileStoreTypeCorrect, TypeCorrectness, ServiceTypeCorrect,
     RoutesTypeCorrect, PTL
===============================================================================
