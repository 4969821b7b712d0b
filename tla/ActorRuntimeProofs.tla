------------------------- MODULE ActorRuntimeProofs -------------------------
(* Proofs about ActorRuntime, for every set of clients, capacity and bound. *)
(* RuntimeInv is inductive: one lemma per action, in each one step per      *)
(* conjunct.  Ref and MsgId stay unexpanded wherever no number matters.     *)
EXTENDS RuntimeInbox, SequenceTheorems, TLAPS

USE RuntimeAssumption

LEMMA ZeroIsNone == 0 \notin Ref /\ 0 \notin MsgId
  BY DEF Ref, MsgId

\* Taking the head off a sequence without repetitions takes one element away.
LEMMA TakeHead ==
    ASSUME NEW S, NEW s \in Seq(S), s # <<>>, IsInjective(s)
    PROVE  /\ Head(s) \in S /\ Tail(s) \in Seq(S)
           /\ IsInjective(Tail(s))
           /\ Head(s) \in Range(s)
           /\ Range(Tail(s)) = Range(s) \ {Head(s)}
<1>1. /\ Head(s) \in S /\ Tail(s) \in Seq(S)
      /\ Len(Tail(s)) = Len(s) - 1
      /\ \A i \in 1..Len(Tail(s)) : Tail(s)[i] = s[i + 1]
  BY HeadTailProperties
<1>2. /\ Len(s) \in Nat /\ 1 \in DOMAIN s /\ Head(s) = s[1]
      /\ DOMAIN s = 1..Len(s) /\ DOMAIN Tail(s) = 1..(Len(s) - 1)
  BY <1>1
<1>3. \A i \in DOMAIN Tail(s) : i + 1 \in DOMAIN s /\ i + 1 # 1 /\ Tail(s)[i] = s[i + 1]
  BY <1>1, <1>2
<1>4. \A i \in DOMAIN s \ {1} : i - 1 \in DOMAIN Tail(s) /\ Tail(s)[i - 1] = s[i]
  BY <1>1, <1>2
<1>5. \A i, j \in DOMAIN s : s[i] = s[j] => i = j
  BY DEF IsInjective
<1>6. IsInjective(Tail(s))
  BY <1>2, <1>3, <1>5 DEF IsInjective
<1>7. Range(Tail(s)) \subseteq Range(s) \ {Head(s)}
  BY <1>2, <1>3, <1>5 DEF Range
<1>8. Range(s) \ {Head(s)} \subseteq Range(Tail(s))
  <2>1. ASSUME NEW i \in DOMAIN s, s[i] # Head(s) PROVE s[i] \in Range(Tail(s))
    <3>1. i \in DOMAIN s \ {1}
      BY <2>1, <1>2
    <3>2. QED
      BY <3>1, <1>4 DEF Range
  <2>2. QED
    BY <2>1 DEF Range
<1>9. QED
  BY <1>1, <1>2, <1>6, <1>7, <1>8 DEF Range

\* Appending a new element adds that element and keeps the rest apart.
LEMMA PutLast ==
    ASSUME NEW S, NEW s \in Seq(S), NEW m \in S, IsInjective(s), m \notin Range(s)
    PROVE  /\ Append(s, m) \in Seq(S)
           /\ IsInjective(Append(s, m))
           /\ Range(Append(s, m)) = Range(s) \cup {m}
<1> DEFINE t == Append(s, m)
<1>1. /\ t \in Seq(S) /\ Len(s) \in Nat /\ Len(t) = Len(s) + 1
      /\ \A i \in 1..Len(s) : t[i] = s[i]
      /\ t[Len(s) + 1] = m
  BY AppendProperties
<1>2. DOMAIN s = 1..Len(s) /\ DOMAIN t = 1..(Len(s) + 1)
  BY <1>1
<1> HIDE DEF t
<1>3. \A i \in DOMAIN t : \/ i = Len(s) + 1 /\ t[i] = m
                          \/ i \in DOMAIN s /\ t[i] = s[i]
  BY <1>1, <1>2
<1>4. \A i \in DOMAIN s : i \in DOMAIN t /\ t[i] = s[i]
  BY <1>1, <1>2
<1>5. Len(s) + 1 \in DOMAIN t
  BY <1>1, <1>2
<1>6. \A i \in DOMAIN s : s[i] # m
  BY DEF Range
<1>7. IsInjective(t)
  BY <1>3, <1>6 DEF IsInjective
<1>8. Range(t) = Range(s) \cup {m}
  BY <1>1, <1>3, <1>4, <1>5 DEF Range
<1>9. QED
  BY <1>1, <1>7, <1>8 DEF t

\* A call that moves on keeps its kind, its target and its message.
LEMMA MovesType ==
    ASSUME TypeOK, NEW c \in Clients, NEW o \in Outcome,
           NEW l \in {"idle", "sending", "waiting", "panicked"}, Moves(c, l, o)
    PROVE  /\ call' \in [Clients -> Call]
           /\ call'[c].pc = l /\ call'[c].outcome = o
           /\ call'[c].kind = call[c].kind /\ call'[c].to = call[c].to
           /\ call'[c].id = call[c].id
           /\ \A d \in Clients \ {c} : call'[d] = call[d]
<1> DEFINE new == [call[c] EXCEPT !.pc = l, !.outcome = o]
<1>1. call[c] \in Call
  BY DEF TypeOK
<1>2. /\ new \in Call
      /\ new.pc = l /\ new.outcome = o
      /\ new.kind = call[c].kind /\ new.to = call[c].to /\ new.id = call[c].id
  BY <1>1 DEF Call
<1>3. call' = [call EXCEPT ![c] = new]
  BY DEF Moves
<1> HIDE DEF new
<1>4. QED
  BY <1>2, <1>3 DEF TypeOK

\* Spawning only turns unborn refs idle.
LEMMA SpawnStep == ASSUME RuntimeInv, NEW n \in 1..MaxRefs, SpawnActors(n) PROVE RuntimeInv'
<1> USE DEF RuntimeInv
<1>1. UNCHANGED <<closed, mailbox, current, calls, call, expects, replied, sentTo, handled>>
  BY DEF SpawnActors, actorVars, callVars
<1>2. spawned \in Nat /\ spawned' = spawned + n /\ spawned' \in 0..MaxRefs
  BY DEF SpawnActors, TypeOK
<1>3. /\ status' \in [Ref -> Status]
      /\ \A r \in Ref : \/ r > spawned /\ r <= spawned' /\ status'[r] = "idle"
                        \/ (r <= spawned \/ r > spawned') /\ status'[r] = status[r]
  BY <1>2 DEF SpawnActors, TypeOK, Status, Ref
<1>4. \A r \in Ref : status[r] \notin {"unborn"} => status'[r] = status[r]
  BY <1>3 DEF ActorsConsistent
<1>5. TypeOK'
  BY <1>1, <1>2, <1>3 DEF TypeOK
<1>6. ActorsConsistent'
  <2>1. \A r \in Ref : status'[r] = "unborn" <=> r > spawned'
    BY <1>2, <1>3 DEF ActorsConsistent, Ref
  <2>2. \A r \in Ref : /\ status'[r] = "busy" <=> status[r] = "busy"
                       /\ status'[r] = "exited" => status[r] = "exited"
    BY <1>3, <1>4
  <2>3. QED
    BY <1>1, <2>1, <2>2 DEF ActorsConsistent
<1>7. MessagesConsistent'
  BY <1>1 DEF MessagesConsistent
<1>8. CallsConsistent'
  BY <1>1 DEF CallsConsistent, Pending
<1>9. Accounted'
  BY <1>1, <1>4 DEF Accounted, Buffered, TypeOK
<1>10. AtMostOnce'
  BY <1>1 DEF AtMostOnce, Buffered
<1>11. TruthfulOutcome'
  <2>1. \A d \in Clients : call[d].outcome = "actor_stopped" => call[d].to \in Ref
    BY DEF CallsConsistent, TypeOK, Call
  <2>2. \A q \in Ref : Done(q) => Done(q)'
    BY <1>4 DEF Done
  <2>3. QED
    BY <1>1, <2>1, <2>2 DEF TruthfulOutcome
<1>12. QED
  BY <1>5, <1>6, <1>7, <1>8, <1>9, <1>10, <1>11

\* Closing changes neither what is buffered nor who runs.
LEMMA CloseStep == ASSUME RuntimeInv, NEW r \in Spawned, CloseMailbox(r) PROVE RuntimeInv'
<1> USE DEF RuntimeInv
<1>1. UNCHANGED <<spawned, status, mailbox, current, calls, call, expects, replied, sentTo, handled>>
  BY DEF CloseMailbox, actorVars, callVars
<1>2. /\ closed' \in [Ref -> BOOLEAN]
      /\ \A q \in Ref : closed[q] => closed'[q]
  BY DEF CloseMailbox, TypeOK
<1>3. TypeOK'
  BY <1>1, <1>2 DEF TypeOK
<1>4. ActorsConsistent'
  BY <1>1, <1>2 DEF ActorsConsistent
<1>5. MessagesConsistent'
  BY <1>1 DEF MessagesConsistent
<1>6. CallsConsistent'
  BY <1>1 DEF CallsConsistent, Pending
<1>7. Accounted'
  BY <1>1 DEF Accounted, Buffered
<1>8. AtMostOnce'
  BY <1>1 DEF AtMostOnce, Buffered
<1>9. TruthfulOutcome'
  <2>1. \A d \in Clients : call[d].outcome = "actor_stopped" => call[d].to \in Ref
    BY DEF CallsConsistent, TypeOK, Call
  <2>2. QED
    BY <1>1, <1>2, <2>1 DEF TruthfulOutcome, Done
<1>10. QED
  BY <1>3, <1>4, <1>5, <1>6, <1>7, <1>8, <1>9

\* The head of the mailbox becomes the message the actor runs.
LEMMA ReceiveStep == ASSUME RuntimeInv, NEW r \in Ref, Receive(r) PROVE RuntimeInv'
<1> USE DEF RuntimeInv
<1>1. UNCHANGED <<spawned, closed, calls, call, expects, replied, sentTo, handled>>
  BY DEF Receive, actorVars, callVars
<1>2. status[r] = "idle" /\ mailbox[r] # <<>> /\ current[r] = 0
  BY DEF Receive, ActorsConsistent
<1>3. /\ status' \in [Ref -> Status] /\ status'[r] = "busy"
      /\ \A q \in Ref \ {r} : status'[q] = status[q]
  BY DEF Receive, TypeOK, Status
<1>4. /\ Head(mailbox[r]) \in MsgId /\ Tail(mailbox[r]) \in Seq(MsgId)
      /\ IsInjective(Tail(mailbox[r]))
      /\ Head(mailbox[r]) \in Buffered(r)
      /\ Range(Tail(mailbox[r])) = Buffered(r) \ {Head(mailbox[r])}
  <2>1. mailbox[r] \in Seq(MsgId) /\ IsInjective(mailbox[r])
    BY DEF TypeOK, AtMostOnce
  <2>2. QED
    BY <1>2, <2>1, TakeHead DEF Buffered
<1>5. /\ mailbox' \in [Ref -> Seq(MsgId)] /\ mailbox'[r] = Tail(mailbox[r])
      /\ \A q \in Ref \ {r} : mailbox'[q] = mailbox[q]
  BY <1>4 DEF Receive, TypeOK
<1>6. /\ current' \in [Ref -> MsgId \cup {0}] /\ current'[r] = Head(mailbox[r])
      /\ \A q \in Ref \ {r} : current'[q] = current[q]
  BY <1>4 DEF Receive, TypeOK
<1>7. /\ Buffered(r)' = Buffered(r) \ {Head(mailbox[r])}
      /\ \A q \in Ref \ {r} : Buffered(q)' = Buffered(q)
  BY <1>4, <1>5 DEF Buffered
<1>8. TypeOK'
  BY <1>1, <1>3, <1>5, <1>6 DEF TypeOK
<1>9. ActorsConsistent'
  <2>1. ASSUME NEW q \in Ref
        PROVE  /\ status'[q] = "unborn" <=> q > spawned
               /\ current'[q] # 0 <=> status'[q] = "busy"
               /\ status'[q] = "exited" => closed[q] /\ mailbox'[q] = <<>>
    <3>1. CASE q = r
      BY <3>1, <1>2, <1>3, <1>4, <1>6, ZeroIsNone DEF ActorsConsistent
    <3>2. CASE q # r
      BY <3>2, <1>3, <1>5, <1>6 DEF ActorsConsistent
    <3>3. QED
      BY <3>1, <3>2
  <2>2. QED
    BY <1>1, <2>1 DEF ActorsConsistent
<1>10. MessagesConsistent'
  BY <1>1 DEF MessagesConsistent
<1>11. CallsConsistent'
  BY <1>1 DEF CallsConsistent, Pending
<1>12. Accounted'
  <2>1. \A q \in Ref : Buffered(q) \subseteq Buffered(q)' \cup {current'[q]}
    BY <1>6, <1>7
  <2>2. \A q \in Ref : /\ current[q] # 0 => current'[q] = current[q]
                       /\ status[q] = "crashed" => status'[q] = "crashed"
    BY <1>2, <1>3, <1>6
  <2>3. ASSUME NEW m \in MsgId, NEW q \in Ref, sentTo[m] = q
        PROVE  m \in handled \cup Buffered(q)' \/ m = current'[q] \/ status'[q] = "crashed"
    <3>1. m # 0 /\ q # 0
      BY ZeroIsNone
    <3>2. QED
      BY <2>1, <2>2, <2>3, <3>1 DEF Accounted
  <2>4. QED
    BY <1>1, <2>3 DEF Accounted, Buffered, TypeOK
<1>13. AtMostOnce'
  <2>1. ASSUME NEW q \in Ref
        PROVE  /\ IsInjective(mailbox'[q])
               /\ current'[q] \notin Buffered(q)'
               /\ \A m \in Buffered(q)' \cup ({current'[q]} \ {0}) :
                     m \notin handled /\ sentTo[m] = q
    <3>1. CASE q = r
      BY <3>1, <1>4, <1>5, <1>6, <1>7 DEF AtMostOnce
    <3>2. CASE q # r
      BY <3>2, <1>5, <1>6, <1>7 DEF AtMostOnce
    <3>3. QED
      BY <3>1, <3>2
  <2>2. QED
    BY <1>1, <2>1 DEF AtMostOnce
<1>14. TruthfulOutcome'
  <2>1. \A d \in Clients : call[d].outcome = "actor_stopped" => call[d].to \in Ref
    BY DEF CallsConsistent, TypeOK, Call
  <2>2. \A q \in Ref : Done(q) => Done(q)'
    BY <1>2, <1>3 DEF Done
  <2>3. QED
    BY <1>1, <2>1, <2>2 DEF TruthfulOutcome
<1>15. QED
  BY <1>8, <1>9, <1>10, <1>11, <1>12, <1>13, <1>14

\* The message that was run becomes handled.
LEMMA FinishStep == ASSUME RuntimeInv, NEW r \in Ref, Finish(r) PROVE RuntimeInv'
<1> USE DEF RuntimeInv
<1>1. UNCHANGED <<spawned, closed, mailbox, calls, call, expects, sentTo>>
  BY DEF Finish, actorVars, callVars
<1>2. status[r] = "busy" /\ current[r] \in MsgId /\ current[r] # 0
  BY DEF Finish, ActorsConsistent, TypeOK
<1>3. /\ status' \in [Ref -> Status] /\ status'[r] = "idle"
      /\ \A q \in Ref \ {r} : status'[q] = status[q]
  BY DEF Finish, TypeOK, Status
<1>4. /\ current' \in [Ref -> MsgId \cup {0}] /\ current'[r] = 0
      /\ \A q \in Ref \ {r} : current'[q] = current[q]
  BY DEF Finish, TypeOK
<1>5. /\ handled' = handled \cup {current[r]}
      /\ replied' \subseteq replied \cup {current[r]}
  BY DEF Finish
<1>6. sentTo[current[r]] = r
  BY <1>2 DEF AtMostOnce
<1>7. TypeOK'
  BY <1>1, <1>2, <1>3, <1>4, <1>5 DEF TypeOK
<1>8. ActorsConsistent'
  BY <1>1, <1>2, <1>3, <1>4 DEF ActorsConsistent
<1>9. MessagesConsistent'
  BY <1>1, <1>5, <1>6, ZeroIsNone DEF MessagesConsistent
<1>10. CallsConsistent'
  BY <1>1 DEF CallsConsistent, Pending
<1>11. Accounted'
  <2>2. ASSUME NEW m \in MsgId, NEW q \in Ref, sentTo[m] = q
        PROVE  m \in handled' \cup Buffered(q) \/ m = current'[q] \/ status'[q] = "crashed"
    <3>1. m \in handled \cup Buffered(q) \/ m = current[q] \/ status[q] = "crashed"
      BY <2>2, ZeroIsNone DEF Accounted
    <3>2. QED
      BY <3>1, <1>2, <1>3, <1>4, <1>5
  <2>3. QED
    BY <1>1, <2>2 DEF Accounted, Buffered, TypeOK
<1>12. AtMostOnce'
  <2>1. \A q \in Ref : Buffered(q)' = Buffered(q)
    BY <1>1 DEF Buffered
  <2>2. ASSUME NEW q \in Ref
        PROVE  /\ IsInjective(mailbox[q])
               /\ current'[q] \notin Buffered(q)
               /\ \A m \in Buffered(q) \cup ({current'[q]} \ {0}) :
                     m \notin handled' /\ sentTo[m] = q
    <3>1. Buffered(q) \subseteq MsgId
      BY RangeOfSeq DEF Buffered, TypeOK
    <3>2. current[r] \notin Buffered(q) \cup ({current'[q]} \ {0})
      <4>1. CASE q = r
        BY <4>1, <1>2, <1>4 DEF AtMostOnce
      <4>2. CASE q # r
        BY <4>2, <1>2, <1>4, <1>6 DEF AtMostOnce
      <4>3. QED
        BY <4>1, <4>2
    <3>3. QED
      BY <3>1, <3>2, <1>4, <1>5, ZeroIsNone DEF AtMostOnce
  <2>3. QED
    BY <1>1, <2>1, <2>2 DEF AtMostOnce
<1>13. TruthfulOutcome'
  <2>1. \A d \in Clients : call[d].outcome = "actor_stopped" => call[d].to \in Ref
    BY DEF CallsConsistent, TypeOK, Call
  <2>2. \A q \in Ref : Done(q) => Done(q)'
    BY <1>2, <1>3 DEF Done
  <2>3. QED
    BY <1>1, <1>5, <2>1, <2>2 DEF TruthfulOutcome
<1>14. QED
  BY <1>7, <1>8, <1>9, <1>10, <1>11, <1>12, <1>13

\* The message that was run is lost with its actor.
LEMMA PanicStep == ASSUME RuntimeInv, NEW r \in Ref, Panic(r) PROVE RuntimeInv'
<1> USE DEF RuntimeInv
<1>1. UNCHANGED <<spawned, closed, mailbox, calls, call, expects, replied, sentTo, handled>>
  BY DEF Panic, actorVars, callVars
<1>2. status[r] = "busy" /\ current[r] # 0
  BY DEF Panic, ActorsConsistent
<1>3. /\ status' \in [Ref -> Status] /\ status'[r] = "crashed"
      /\ \A q \in Ref \ {r} : status'[q] = status[q]
  BY DEF Panic, TypeOK, Status
<1>4. /\ current' \in [Ref -> MsgId \cup {0}] /\ current'[r] = 0
      /\ \A q \in Ref \ {r} : current'[q] = current[q]
  BY DEF Panic, TypeOK
<1>5. TypeOK'
  BY <1>1, <1>3, <1>4 DEF TypeOK
<1>6. ActorsConsistent'
  BY <1>1, <1>2, <1>3, <1>4 DEF ActorsConsistent
<1>7. MessagesConsistent'
  BY <1>1 DEF MessagesConsistent
<1>8. CallsConsistent'
  BY <1>1 DEF CallsConsistent, Pending
<1>9. Accounted'
  <2>2. ASSUME NEW m \in MsgId, NEW q \in Ref, sentTo[m] = q
        PROVE  m \in handled \cup Buffered(q) \/ m = current'[q] \/ status'[q] = "crashed"
    <3>1. m \in handled \cup Buffered(q) \/ m = current[q] \/ status[q] = "crashed"
      BY <2>2, ZeroIsNone DEF Accounted
    <3>2. QED
      BY <3>1, <1>3, <1>4
  <2>3. QED
    BY <1>1, <2>2 DEF Accounted, Buffered, TypeOK
<1>10. AtMostOnce'
  <2>1. \A q \in Ref : Buffered(q)' = Buffered(q)
    BY <1>1 DEF Buffered
  <2>2. ASSUME NEW q \in Ref
        PROVE  /\ current'[q] \notin Buffered(q)
               /\ {current'[q]} \ {0} \subseteq {current[q]}
    <3>1. Buffered(q) \subseteq MsgId
      BY RangeOfSeq DEF Buffered, TypeOK
    <3>2. QED
      BY <3>1, <1>4, ZeroIsNone DEF AtMostOnce
  <2>3. QED
    BY <1>1, <2>1, <2>2 DEF AtMostOnce
<1>11. TruthfulOutcome'
  <2>1. \A d \in Clients : call[d].outcome = "actor_stopped" => call[d].to \in Ref
    BY DEF CallsConsistent, TypeOK, Call
  <2>2. \A q \in Ref : Done(q) => Done(q)'
    BY <1>2, <1>3 DEF Done
  <2>3. QED
    BY <1>1, <2>1, <2>2 DEF TruthfulOutcome
<1>12. QED
  BY <1>5, <1>6, <1>7, <1>8, <1>9, <1>10, <1>11

\* Only an actor with an empty, closed mailbox exits.
LEMMA ExitStep == ASSUME RuntimeInv, NEW r \in Ref, Exit(r) PROVE RuntimeInv'
<1> USE DEF RuntimeInv
<1>1. UNCHANGED <<spawned, closed, mailbox, current, calls, call, expects, replied, sentTo, handled>>
  BY DEF Exit, actorVars, callVars
<1>2. status[r] = "idle" /\ closed[r] /\ mailbox[r] = <<>>
  BY DEF Exit
<1>3. /\ status' \in [Ref -> Status] /\ status'[r] = "exited"
      /\ \A q \in Ref \ {r} : status'[q] = status[q]
  BY DEF Exit, TypeOK, Status
<1>4. TypeOK'
  BY <1>1, <1>3 DEF TypeOK
<1>5. ActorsConsistent'
  BY <1>1, <1>2, <1>3 DEF ActorsConsistent
<1>6. MessagesConsistent'
  BY <1>1 DEF MessagesConsistent
<1>7. CallsConsistent'
  BY <1>1 DEF CallsConsistent, Pending
<1>8. Accounted'
  <2>1. \A q \in Ref : Buffered(q)' = Buffered(q)
    BY <1>1 DEF Buffered
  <2>2. \A q \in Ref : status[q] = "crashed" => status'[q] = "crashed"
    BY <1>2, <1>3
  <2>3. \A m \in MsgId : sentTo[m] # 0 => sentTo[m] \in Ref
    BY DEF TypeOK
  <2>4. QED
    BY <1>1, <2>1, <2>2, <2>3 DEF Accounted
<1>9. AtMostOnce'
  BY <1>1 DEF AtMostOnce, Buffered
<1>10. TruthfulOutcome'
  <2>1. \A d \in Clients : call[d].outcome = "actor_stopped" => call[d].to \in Ref
    BY DEF CallsConsistent, TypeOK, Call
  <2>2. \A q \in Ref : Done(q) => Done(q)'
    BY <1>2, <1>3 DEF Done
  <2>3. QED
    BY <1>1, <2>1, <2>2 DEF TruthfulOutcome
<1>11. QED
  BY <1>4, <1>5, <1>6, <1>7, <1>8, <1>9, <1>10

\* A call gets a message number nobody has used.
LEMMA BeginCallStep == ASSUME RuntimeInv, NEW c \in Clients, NEW r \in Spawned, NEW k \in Kinds,
                               BeginCall(c, r, k) PROVE RuntimeInv'
<1> USE DEF RuntimeInv
<1>1. UNCHANGED <<spawned, status, closed, mailbox, current, replied, sentTo, handled>>
  BY DEF BeginCall, actorVars, callVars
<1>2. /\ r \in Ref /\ r # 0
      /\ calls \in Nat /\ calls' = calls + 1 /\ calls' \in MsgId /\ calls' # 0
  BY DEF BeginCall, Spawned, TypeOK, Ref, MsgId
<1>3. /\ call' \in [Clients -> Call]
      /\ call'[c].pc = "sending" /\ call'[c].outcome = "none"
      /\ call'[c].to = r /\ call'[c].id = calls'
      /\ \A d \in Clients \ {c} : call'[d] = call[d]
      /\ expects' \subseteq MsgId
  <2>1. k \in Kind
    BY DEF Kind
  <2>2. [pc |-> "sending", kind |-> k, to |-> r, id |-> calls + 1, outcome |-> "none"] \in Call
    BY <1>2, <2>1 DEF Call, Outcome
  <2>3. QED
    BY <1>2, <2>2 DEF BeginCall, TypeOK
<1>4. \A d \in Clients : call[d].id \in Nat /\ call[d].id <= calls
  BY DEF CallsConsistent, TypeOK, Call, MsgId
<1>5. sentTo'[calls'] = 0
  BY <1>1, <1>2 DEF MessagesConsistent
<1>6. TypeOK'
  <2>1. calls' \in 0..MaxMsgs
    BY <1>2 DEF MsgId
  <2>2. QED
    BY <1>1, <1>3, <2>1 DEF TypeOK
<1>7. ActorsConsistent'
  BY <1>1 DEF ActorsConsistent
<1>8. MessagesConsistent'
  <2>1. \A m \in MsgId : m > calls' => m > calls
    BY <1>2 DEF MsgId
  <2>2. QED
    BY <1>1, <2>1 DEF MessagesConsistent
<1>9. CallsConsistent'
  <2>1. \A d, e \in Clients : call'[d].id = call'[e].id /\ call'[d].id # 0 => d = e
    BY <1>2, <1>3, <1>4 DEF CallsConsistent
  <2>2. \A d \in Clients : call'[d].id <= calls'
    BY <1>2, <1>3, <1>4
  <2>3. ASSUME NEW d \in Clients
        PROVE  /\ Pending(d)' => call'[d].id # 0 /\ call'[d].to # 0 /\ call'[d].outcome = "none"
               /\ call'[d].pc = "sending" => sentTo'[call'[d].id] = 0
               /\ call'[d].pc = "waiting" => sentTo'[call'[d].id] = call'[d].to
               /\ call'[d].outcome \in {"ok", "sent", "actor_stopped"} =>
                     call'[d].id # 0 /\ call'[d].to # 0
    <3>1. CASE d = c
      BY <3>1, <1>2, <1>3, <1>5 DEF Pending
    <3>2. CASE d # c
      BY <3>2, <1>1, <1>3 DEF Pending, CallsConsistent
    <3>3. QED
      BY <3>1, <3>2
  <2>4. QED
    BY <2>1, <2>2, <2>3 DEF CallsConsistent
<1>10. Accounted'
  BY <1>1 DEF Accounted, Buffered
<1>11. AtMostOnce'
  BY <1>1 DEF AtMostOnce, Buffered
<1>12. TruthfulOutcome'
  BY <1>1, <1>3 DEF TruthfulOutcome, Done
<1>13. QED
  BY <1>6, <1>7, <1>8, <1>9, <1>10, <1>11, <1>12

\* The message of a call joins the mailbox it was sent to.
LEMMA EnqueueStep == ASSUME RuntimeInv, NEW c \in Clients, Enqueue(c) PROVE RuntimeInv'
<1> USE DEF RuntimeInv
<1>1. UNCHANGED <<spawned, status, closed, current, calls, expects, replied, handled>>
  BY DEF Enqueue, actorVars, callVars
<1>2. /\ call[c].id \in MsgId /\ call[c].to \in Ref /\ call[c].id # 0 /\ call[c].to # 0
      /\ call[c].pc = "sending" /\ call[c].outcome = "none"
      /\ sentTo[call[c].id] = 0 /\ ~closed[call[c].to]
  BY DEF Enqueue, CallsConsistent, Pending, TypeOK, Call
<1>3. /\ call' \in [Clients -> Call]
      /\ call'[c].id = call[c].id /\ call'[c].to = call[c].to
      /\ \/ call'[c].pc = "idle" /\ call'[c].outcome = "sent"
         \/ call'[c].pc = "waiting" /\ call'[c].outcome = "none"
      /\ \A d \in Clients \ {c} : call'[d] = call[d]
  BY <1>2, MovesType DEF Enqueue, Return, Outcome
<1>4. /\ sentTo' \in [MsgId -> Ref \cup {0}]
      /\ sentTo'[call[c].id] = call[c].to
      /\ \A m \in MsgId \ {call[c].id} : sentTo'[m] = sentTo[m]
  BY <1>2 DEF Enqueue, TypeOK
<1>5. call[c].id \notin handled
  BY <1>2 DEF MessagesConsistent
<1>6. \A q \in Ref : /\ Buffered(q) \subseteq MsgId
                     /\ call[c].id \notin Buffered(q) \cup {current[q]}
  <2>1. \A q \in Ref : Buffered(q) \subseteq MsgId
    BY RangeOfSeq DEF Buffered, TypeOK
  <2>2. \A q \in Ref : q # 0
    BY ZeroIsNone
  <2>3. QED
    BY <2>1, <2>2, <1>2 DEF AtMostOnce
<1>7. LET r == call[c].to IN
      /\ mailbox' \in [Ref -> Seq(MsgId)]
      /\ IsInjective(mailbox'[r])
      /\ Range(mailbox'[r]) = Buffered(r) \cup {call[c].id}
      /\ \A q \in Ref \ {r} : mailbox'[q] = mailbox[q]
  <2> DEFINE r == call[c].to
  <2>1. mailbox[r] \in Seq(MsgId) /\ IsInjective(mailbox[r])
    BY <1>2 DEF TypeOK, AtMostOnce
  <2>2. /\ Append(mailbox[r], call[c].id) \in Seq(MsgId)
        /\ IsInjective(Append(mailbox[r], call[c].id))
        /\ Range(Append(mailbox[r], call[c].id)) = Buffered(r) \cup {call[c].id}
    BY <1>2, <1>6, <2>1, PutLast DEF Buffered
  <2>3. mailbox' = [mailbox EXCEPT ![r] = Append(mailbox[r], call[c].id)]
    BY DEF Enqueue
  <2>4. QED
    BY <1>2, <2>2, <2>3 DEF TypeOK
<1>8. /\ Buffered(call[c].to)' = Buffered(call[c].to) \cup {call[c].id}
      /\ \A q \in Ref \ {call[c].to} : Buffered(q)' = Buffered(q)
  <2>1. \A q : Buffered(q)' = Range(mailbox'[q])
    BY DEF Buffered
  <2>2. \A q : Buffered(q) = Range(mailbox[q])
    BY DEF Buffered
  <2>3. Buffered(call[c].to)' = Range(mailbox'[call[c].to])
    BY <1>3 DEF Buffered
  <2>4. QED
    BY <1>7, <2>1, <2>2, <2>3
<1>9. TypeOK'
  BY <1>1, <1>3, <1>4, <1>7 DEF TypeOK
<1>10. ActorsConsistent'
  <2>1. status[call[c].to] # "exited"
    BY <1>2 DEF ActorsConsistent
  <2>2. QED
    BY <1>1, <1>7, <2>1 DEF ActorsConsistent
<1>11. MessagesConsistent'
  <2>1. call[c].id <= calls /\ calls \in Nat /\ call[c].id \in Nat
    BY <1>2 DEF CallsConsistent, TypeOK, MsgId
  <2>2. \A m \in MsgId : m > calls => m # call[c].id
    BY <2>1
  <2>3. \A m \in handled : m \in MsgId
    BY DEF TypeOK
  <2>4. QED
    BY <1>1, <1>2, <1>4, <2>2, <2>3 DEF MessagesConsistent
<1>12. CallsConsistent'
  <2>1. \A d \in Clients : call'[d].id = call[d].id /\ call'[d].to = call[d].to
    BY <1>3
  <2>2. ASSUME NEW d \in Clients, d # c, call[d].id # 0
        PROVE  sentTo'[call[d].id] = sentTo[call[d].id]
    <3>1. call[d].id # call[c].id
      BY <1>2, <2>2 DEF CallsConsistent
    <3>2. call[d].id \in MsgId
      BY <2>2 DEF TypeOK, Call
    <3>3. QED
      BY <3>1, <3>2, <1>4
  <2>3. ASSUME NEW d \in Clients
        PROVE  /\ Pending(d)' => call'[d].id # 0 /\ call'[d].to # 0 /\ call'[d].outcome = "none"
               /\ call'[d].pc = "sending" => sentTo'[call'[d].id] = 0
               /\ call'[d].pc = "waiting" => sentTo'[call'[d].id] = call'[d].to
               /\ call'[d].outcome \in {"ok", "sent", "actor_stopped"} =>
                     call'[d].id # 0 /\ call'[d].to # 0
    <3>1. CASE d = c
      BY <3>1, <1>2, <1>3, <1>4 DEF Pending
    <3>2. CASE d # c
      BY <3>2, <1>3, <2>2 DEF Pending, CallsConsistent
    <3>3. QED
      BY <3>1, <3>2
  <2>4. QED
    BY <1>1, <2>1, <2>3 DEF CallsConsistent
<1>13. Accounted'
  <2>1. ASSUME NEW m \in MsgId, NEW q \in Ref, sentTo'[m] = q
        PROVE  m \in handled \cup Range(mailbox'[q]) \/ m = current[q] \/ status[q] = "crashed"
    <3>1. CASE m = call[c].id
      BY <3>1, <2>1, <1>4, <1>7
    <3>2. CASE m # call[c].id
      <4>1. Buffered(q) \subseteq Range(mailbox'[q])
        BY <1>7 DEF Buffered
      <4>2. m \in handled \cup Buffered(q) \/ m = current[q] \/ status[q] = "crashed"
        BY <3>2, <2>1, <1>4, ZeroIsNone DEF Accounted
      <4>3. QED
        BY <4>1, <4>2
    <3>3. QED
      BY <3>1, <3>2
  <2>2. QED
    BY <1>1, <1>4, <2>1 DEF Accounted, Buffered
<1>14. AtMostOnce'
  <2>1. ASSUME NEW q \in Ref
        PROVE  /\ IsInjective(mailbox'[q])
               /\ current[q] \notin Range(mailbox'[q])
               /\ \A m \in Range(mailbox'[q]) \cup ({current[q]} \ {0}) :
                     m \notin handled /\ sentTo'[m] = q
    <3>1. \A m \in Buffered(q) \cup ({current[q]} \ {0}) :
             m \in MsgId /\ m # call[c].id /\ m \notin handled /\ sentTo'[m] = q
      BY <1>4, <1>6 DEF AtMostOnce, TypeOK
    <3>2. CASE q = call[c].to
      BY <3>1, <3>2, <1>4, <1>5, <1>6, <1>7 DEF AtMostOnce
    <3>3. CASE q # call[c].to
      BY <3>1, <3>3, <1>7 DEF AtMostOnce, Buffered
    <3>4. QED
      BY <3>2, <3>3
  <2>2. QED
    BY <1>1, <2>1 DEF AtMostOnce, Buffered
<1>15. TruthfulOutcome'
  <2>1. ASSUME NEW d \in Clients
        PROVE  /\ call'[d].outcome = "ok" => call'[d].id \in handled
               /\ call'[d].outcome = "actor_stopped" => closed[call'[d].to] \/ Done(call'[d].to)
               /\ call'[d].outcome = "sent" => sentTo'[call'[d].id] = call'[d].to
    <3>1. CASE d = c
      BY <3>1, <1>3, <1>4
    <3>2. CASE d # c
      <4>1. call'[d] = call[d]
        BY <3>2, <1>3
      <4>2. ASSUME call[d].outcome = "sent" PROVE sentTo'[call[d].id] = call[d].to
        <5>1. call[d].id # 0 /\ call[d].id # call[c].id
          BY <3>2, <4>2, <1>2 DEF CallsConsistent
        <5>2. call[d].id \in MsgId
          BY <5>1 DEF TypeOK, Call
        <5>3. QED
          BY <4>2, <5>1, <5>2, <1>4 DEF TruthfulOutcome
      <4>3. QED
        BY <4>1, <4>2 DEF TruthfulOutcome
    <3>3. QED
      BY <3>1, <3>2
  <2>2. \A q : (status[q] \in {"exited", "crashed"}) = Done(q)
    BY DEF Done
  <2>3. QED
    BY <1>1, <2>1, <2>2 DEF TruthfulOutcome, Done
<1>16. QED
  BY <1>9, <1>10, <1>11, <1>12, <1>13, <1>14, <1>15

\* A call that ends without sending touches nothing but the call.
LEMMA ReturnStep == ASSUME RuntimeInv, NEW c \in Clients,
                    SendOnClosed(c) \/ GetReply(c) \/ SeeDone(c) \/ TimeOut(c) PROVE RuntimeInv'
<1> USE DEF RuntimeInv
<1>1. UNCHANGED <<spawned, status, closed, mailbox, current, calls, expects, replied, sentTo, handled>>
  BY DEF SendOnClosed, GetReply, SeeDone, TimeOut, actorVars
<1>2. Pending(c)
  BY DEF SendOnClosed, GetReply, SeeDone, TimeOut, Pending
<1>3. /\ call' \in [Clients -> Call]
      /\ call'[c].id = call[c].id /\ call'[c].to = call[c].to
      /\ \/ /\ call'[c].pc = "idle"
            /\ call'[c].outcome \in {"ok", "timeout", "actor_stopped"}
            /\ call'[c].outcome = "ok" => call[c].id \in replied
            /\ call'[c].outcome = "actor_stopped" => closed[call[c].to] \/ Done(call[c].to)
         \/ call'[c].pc = "panicked" /\ call'[c].outcome = "none"
      /\ \A d \in Clients \ {c} : call'[d] = call[d]
  BY MovesType DEF SendOnClosed, GetReply, SeeDone, TimeOut, Return, Outcome
<1>4. TypeOK'
  BY <1>1, <1>3 DEF TypeOK
<1>5. ActorsConsistent'
  BY <1>1 DEF ActorsConsistent
<1>6. MessagesConsistent'
  BY <1>1 DEF MessagesConsistent
<1>7. CallsConsistent'
  <2>1. \A d \in Clients : call'[d].id = call[d].id /\ call'[d].to = call[d].to
    BY <1>3
  <2>2. ASSUME NEW d \in Clients
        PROVE  /\ Pending(d)' => call'[d].id # 0 /\ call'[d].to # 0 /\ call'[d].outcome = "none"
               /\ call'[d].pc = "sending" => sentTo'[call'[d].id] = 0
               /\ call'[d].pc = "waiting" => sentTo'[call'[d].id] = call'[d].to
               /\ call'[d].outcome \in {"ok", "sent", "actor_stopped"} =>
                     call'[d].id # 0 /\ call'[d].to # 0
    <3>1. CASE d = c
      BY <3>1, <1>2, <1>3 DEF Pending, CallsConsistent
    <3>2. CASE d # c
      BY <3>2, <1>1, <1>3 DEF Pending, CallsConsistent
    <3>3. QED
      BY <3>1, <3>2
  <2>3. QED
    BY <1>1, <2>1, <2>2 DEF CallsConsistent
<1>8. Accounted'
  BY <1>1 DEF Accounted, Buffered
<1>9. AtMostOnce'
  BY <1>1 DEF AtMostOnce, Buffered
<1>10. TruthfulOutcome'
  <2>1. ASSUME NEW d \in Clients
        PROVE  /\ call'[d].outcome = "ok" => call'[d].id \in handled
               /\ call'[d].outcome = "actor_stopped" => closed[call'[d].to] \/ Done(call'[d].to)
               /\ call'[d].outcome = "sent" => sentTo[call'[d].id] = call'[d].to
    <3>1. CASE d = c
      BY <3>1, <1>3 DEF MessagesConsistent
    <3>2. CASE d # c
      BY <3>2, <1>3 DEF TruthfulOutcome
    <3>3. QED
      BY <3>1, <3>2
  <2>2. QED
    BY <1>1, <2>1 DEF TruthfulOutcome, Done
<1>11. QED
  BY <1>4, <1>5, <1>6, <1>7, <1>8, <1>9, <1>10

LEMMA RuntimeStart == Init => RuntimeInv
<1> SUFFICES ASSUME Init PROVE RuntimeInv
  OBVIOUS
<1>1. TypeOK
  BY DEF Init, TypeOK, Call, Kind, Outcome, Status
<1>2. ActorsConsistent
  BY DEF Init, ActorsConsistent, Ref
<1>3. MessagesConsistent /\ CallsConsistent /\ TruthfulOutcome
  BY DEF Init, MessagesConsistent, CallsConsistent, Pending, TruthfulOutcome
<1>4. Accounted /\ AtMostOnce
  <2>1. \A r \in Ref : mailbox[r] = <<>> /\ current[r] = 0
    BY DEF Init
  <2>2. Range(<<>>) = {} /\ IsInjective(<<>>)
    BY DEF Range, IsInjective
  <2>3. QED
    BY <2>1, <2>2 DEF Init, Accounted, AtMostOnce, Buffered
<1>5. QED
  BY <1>1, <1>2, <1>3, <1>4 DEF RuntimeInv

LEMMA RuntimeStep == RuntimeInv /\ [Next]_vars => RuntimeInv'
<1>1. ASSUME RuntimeInv, UNCHANGED vars PROVE RuntimeInv'
  BY <1>1 DEF vars, actorVars, callVars, RuntimeInv, TypeOK, ActorsConsistent,
       MessagesConsistent, CallsConsistent, Pending, Accounted, Buffered, AtMostOnce,
       TruthfulOutcome, Done
<1>2. QED
  BY <1>1, SpawnStep, CloseStep, ReceiveStep, FinishStep, PanicStep, ExitStep,
     BeginCallStep, EnqueueStep, ReturnStep DEF Next, ActorStep, ClientStep

\* The invariant holds in every reachable state.
THEOREM RuntimeInvariant == Spec => []RuntimeInv
  BY RuntimeStart, RuntimeStep, PTL DEF Spec

\* Every step of ActorRuntime keeps its variables in their types.
THEOREM TypeCorrect == Spec => []TypeOK
  BY RuntimeInvariant, PTL DEF RuntimeInv

\* An actor that was stopped gracefully has handled every message its mailbox
\* accepted: what is not handled, running or lost to a crash is buffered, and
\* an actor that exited has an empty buffer.
THEOREM GracefulStop == Spec => []GracefulStopDrains
<1>1. RuntimeInv => GracefulStopDrains
  <2> SUFFICES ASSUME RuntimeInv, NEW r \in Ref, NEW m \in MsgId,
                      status[r] = "exited", sentTo[m] = r
               PROVE  m \in handled
    BY DEF GracefulStopDrains
  <2>1. sentTo[m] # 0 /\ m # 0
    BY ZeroIsNone
  <2>2. mailbox[r] = <<>> /\ current[r] = 0
    BY DEF RuntimeInv, ActorsConsistent
  <2>3. Buffered(r) = {}
    BY <2>2 DEF Buffered, Range
  <2>4. QED
    BY <2>1, <2>2, <2>3 DEF RuntimeInv, Accounted
<1>2. QED
  BY <1>1, RuntimeInvariant, PTL

\* No message is handled twice, queued twice or queued in the wrong mailbox.
THEOREM HandledAtMostOnce == Spec => []AtMostOnce
  BY RuntimeInvariant, PTL DEF RuntimeInv

\* A call reports what happened to its message.
THEOREM CallsTellTheTruth == Spec => []TruthfulOutcome
  BY RuntimeInvariant, PTL DEF RuntimeInv
-----------------------------------------------------------------------------
(* The refinement: what ActorInbox says may happen.                         *)

\* Taking the first of x followed by s leaves s.
LEMMA InFront ==
    ASSUME NEW S, NEW x \in S, NEW s \in Seq(S)
    PROVE  /\ <<x>> \o s \in Seq(S) /\ <<x>> \o s # <<>>
           /\ Head(<<x>> \o s) = x /\ Tail(<<x>> \o s) = s
           /\ \A i \in 1..Len(<<x>> \o s) : (<<x>> \o s)[i] = x \/ (<<x>> \o s)[i] \in Range(s)
<1> DEFINE t == <<x>> \o s
<1>1. /\ <<x>> \in Seq(S) /\ Len(<<x>>) = 1 /\ <<x>>[1] = x /\ Len(s) \in Nat
      /\ t \in Seq(S) /\ Len(t) = 1 + Len(s)
      /\ \A i \in 1..1 + Len(s) : t[i] = IF i <= 1 THEN x ELSE s[i - 1]
  BY ConcatProperties
<1> HIDE DEF t
<1>2. t # <<>> /\ Head(t) = x
  BY <1>1
<1>3. Tail(t) = s
  <2>1. /\ Tail(t) \in Seq(S) /\ Len(Tail(t)) = Len(s)
        /\ \A i \in 1..Len(s) : Tail(t)[i] = s[i]
    BY <1>1, <1>2, HeadTailProperties
  <2>2. QED
    BY <2>1, SeqEqual
<1>4. ASSUME NEW i \in 1..Len(t) PROVE t[i] = x \/ t[i] \in Range(s)
  <2>1. CASE i = 1
    BY <1>1, <2>1
  <2>2. CASE i # 1
    <3>1. i - 1 \in 1..Len(s) /\ t[i] = s[i - 1]
      BY <1>1, <2>2
    <3>2. QED
      BY <1>1, <3>1 DEF Range
  <2>3. QED
    BY <2>1, <2>2
<1>5. QED
  BY <1>1, <1>2, <1>3, <1>4 DEF t

\* Adding at the end of x followed by s adds at the end of s.
LEMMA AddBehind ==
    ASSUME NEW S, NEW x \in S, NEW s \in Seq(S), NEW y \in S
    PROVE  Append(<<x>> \o s, y) = <<x>> \o Append(s, y)
<1> DEFINE t == <<x>> \o s
<1>1. /\ <<x>> \in Seq(S) /\ Len(<<x>>) = 1 /\ <<x>>[1] = x /\ Len(s) \in Nat
      /\ t \in Seq(S) /\ Len(t) = 1 + Len(s)
  BY ConcatProperties
<1> HIDE DEF t
<1>2. Append(t, y) = t \o <<y>> /\ Append(s, y) = s \o <<y>> /\ <<y>> \in Seq(S)
  BY <1>1, AppendIsConcat
<1>3. QED
  BY <1>1, <1>2, ConcatAssociative DEF t

LEMMA PutBack ==
    ASSUME NEW S, NEW s \in Seq(S), s # <<>>
    PROVE  Head(s) \in S /\ <<Head(s)>> \o Tail(s) = s
<1>1. Head(s) \in S /\ Tail(s) \in Seq(S) /\ Len(Tail(s)) = Len(s) - 1
      /\ \A i \in 1..Len(s) - 1 : Tail(s)[i] = s[i + 1]
  BY HeadTailProperties
<1> DEFINE t == <<Head(s)>> \o Tail(s)
<1>2. Len(s) \in Nat /\ Len(s) # 0 /\ Head(s) = s[1]
  OBVIOUS
<1>3. /\ t \in Seq(S) /\ Len(t) = 1 + (Len(s) - 1)
      /\ \A i \in 1..1 + (Len(s) - 1) : t[i] = IF i <= 1 THEN <<Head(s)>>[i] ELSE Tail(s)[i - 1]
  BY <1>1, ConcatProperties
<1> HIDE DEF t
<1>4. ASSUME NEW i \in 1..Len(s) PROVE t[i] = s[i]
  <2>1. CASE i = 1
    BY <1>2, <1>3, <2>1
  <2>2. CASE i # 1
    <3>1. i - 1 \in 1..Len(s) - 1 /\ t[i] = Tail(s)[i - 1]
      BY <1>2, <1>3, <2>2
    <3>2. QED
      BY <1>1, <1>2, <3>1
  <2>3. QED
    BY <2>1, <2>2
<1>5. t = s
  BY <1>2, <1>3, <1>4, SeqEqual
<1>6. QED
  BY <1>1, <1>5 DEF t

LEMMA InboxIs ==
    ASSUME TypeOK, NEW r \in Ref
    PROVE  /\ InboxOf(r) \in Seq(MsgId)
           /\ current[r] = 0 => InboxOf(r) = mailbox[r]
           /\ current[r] # 0 => current[r] \in MsgId /\ InboxOf(r) = <<current[r]>> \o mailbox[r]
           /\ \A i \in 1..Len(InboxOf(r)) :
                 \/ InboxOf(r)[i] \in Buffered(r)
                 \/ InboxOf(r)[i] = current[r] /\ current[r] # 0
<1>1. mailbox[r] \in Seq(MsgId) /\ current[r] \in MsgId \cup {0}
  BY DEF TypeOK
<1>2. CASE current[r] = 0
  <2>1. InboxOf(r) = mailbox[r]
    BY <1>1, <1>2, ConcatEmptySeq DEF InboxOf, InHand
  <2>2. QED
    BY <1>1, <1>2, <2>1 DEF Buffered, Range
<1>3. CASE current[r] # 0
  <2>1. current[r] \in MsgId /\ InboxOf(r) = <<current[r]>> \o mailbox[r]
    BY <1>1, <1>3 DEF InboxOf, InHand
  <2>2. QED
    BY <1>1, <1>3, <2>1, InFront DEF Buffered
<1>4. QED
  BY <1>2, <1>3

\* Nothing that ActorInbox speaks of happens.
LEMMA InboxStutters ==
    ASSUME handled' = handled,
           \A r \in Ref : InboxOf(r)' = InboxOf(r) /\ Life(r)' = Life(r)
    PROVE  UNCHANGED Inbox!vars
  BY DEF Inbox!vars

\* Whose goroutine and channel are left alone keeps its inbox.
LEMMA SameInbox ==
    ASSUME NEW r \in Ref, mailbox'[r] = mailbox[r], current'[r] = current[r]
    PROVE  InboxOf(r)' = InboxOf(r)
  BY DEF InboxOf, InHand

LEMMA SameLife ==
    ASSUME NEW r \in Ref,
           status'[r] = status[r] \/ {status[r], status'[r]} \subseteq {"unborn", "idle", "busy"}
    PROVE  Life(r)' = Life(r)
  BY DEF Life

LEMMA InboxBegins == Init => Inbox!Init
<1> SUFFICES ASSUME Init PROVE Inbox!Init
  OBVIOUS
<1>1. \A r \in Ref : InboxOf(r) = <<>> /\ Life(r) = "up"
  BY DEF Init, InboxOf, InHand, Life
<1>2. QED
  BY <1>1 DEF Inbox!Init, Init

\* The owner's steps, and a call that is built or returns, do not show.
LEMMA OwnerStutters ==
    ASSUME RuntimeInv,
           \/ \E n \in 1..MaxRefs : SpawnActors(n)
           \/ \E r \in Spawned : CloseMailbox(r)
           \/ \E c \in Clients, r \in Spawned, k \in Kinds : BeginCall(c, r, k)
           \/ \E c \in Clients : SendOnClosed(c) \/ GetReply(c) \/ SeeDone(c) \/ TimeOut(c)
    PROVE  UNCHANGED Inbox!vars
<1>1. UNCHANGED <<mailbox, current, handled>>
  BY DEF SpawnActors, CloseMailbox, BeginCall, SendOnClosed, GetReply, SeeDone, TimeOut, actorVars
<1>2. ASSUME NEW r \in Ref PROVE Life(r)' = Life(r)
  <2>1. CASE \E n \in 1..MaxRefs : SpawnActors(n)
    <3>1. PICK n \in 1..MaxRefs : SpawnActors(n)
      BY <2>1
    <3>2. status'[r] = status[r] \/ (r > spawned /\ status'[r] = "idle")
      BY <3>1 DEF SpawnActors, RuntimeInv, TypeOK, Ref
    <3>3. QED
      BY <3>2, SameLife DEF RuntimeInv, ActorsConsistent
  <2>2. CASE ~\E n \in 1..MaxRefs : SpawnActors(n)
    <3>1. status' = status
      BY <2>2 DEF CloseMailbox, BeginCall, SendOnClosed, GetReply, SeeDone, TimeOut, actorVars
    <3>2. QED
      BY <3>1, SameLife
  <2>3. QED
    BY <2>1, <2>2
<1>3. QED
  BY <1>1, <1>2, SameInbox, InboxStutters

\* A message that is taken out of the channel stays the oldest of the inbox.
LEMMA InboxReceives ==
    ASSUME RuntimeInv, RuntimeInv', NEW r \in Ref, Receive(r)
    PROVE  UNCHANGED Inbox!vars
<1>1. /\ status[r] = "idle" /\ status'[r] = "busy" /\ mailbox[r] # <<>> /\ handled' = handled
      /\ current'[r] = Head(mailbox[r]) /\ mailbox'[r] = Tail(mailbox[r])
      /\ mailbox[r] \in Seq(MsgId) /\ current[r] = 0
      /\ \A q \in Ref \ {r} : /\ status'[q] = status[q] /\ mailbox'[q] = mailbox[q]
                              /\ current'[q] = current[q]
  BY DEF Receive, RuntimeInv, TypeOK, ActorsConsistent
<1>2. InboxOf(r) = mailbox[r]
  BY <1>1, InboxIs DEF RuntimeInv
<1>3. InboxOf(r)' = mailbox[r]
  <2>1. current'[r] \in MsgId /\ <<current'[r]>> \o mailbox'[r] = mailbox[r]
    BY <1>1, PutBack
  <2>2. QED
    BY <2>1, ZeroIsNone DEF InboxOf, InHand
<1>4. \A q \in Ref : InboxOf(q)' = InboxOf(q) /\ Life(q)' = Life(q)
  BY <1>1, <1>2, <1>3, SameInbox, SameLife
<1>5. QED
  BY <1>1, <1>4, InboxStutters

\* The handler that returns has handled the oldest message, one that panics
\* has taken it along.
LEMMA InboxHandles ==
    ASSUME RuntimeInv, NEW r \in Ref, Finish(r) \/ Panic(r)
    PROVE  Inbox!Next
<1>1. /\ status[r] = "busy" /\ current[r] # 0 /\ mailbox[r] \in Seq(MsgId)
      /\ current'[r] = 0 /\ mailbox' = mailbox
      /\ \A q \in Ref \ {r} : status'[q] = status[q] /\ current'[q] = current[q]
  BY DEF Finish, Panic, RuntimeInv, TypeOK, ActorsConsistent
<1>2. /\ current[r] \in MsgId /\ InboxOf(r) = <<current[r]>> \o mailbox[r]
      /\ InboxOf(r) # <<>> /\ Head(InboxOf(r)) = current[r] /\ Tail(InboxOf(r)) = mailbox[r]
  <2>1. current[r] \in MsgId /\ InboxOf(r) = <<current[r]>> \o mailbox[r]
    BY <1>1, InboxIs DEF RuntimeInv
  <2>2. QED
    BY <1>1, <2>1, InFront
<1>3. InboxOf(r)' = mailbox[r]
  BY <1>1, ConcatEmptySeq DEF InboxOf, InHand
<1>4. \A q \in Ref : q # r => InboxOf(q)' = InboxOf(q) /\ Life(q)' = Life(q)
  BY <1>1, SameInbox, SameLife
<1>5. [q \in Ref |-> InboxOf(q)]' =
          [[q \in Ref |-> InboxOf(q)] EXCEPT ![r] = Tail(InboxOf(r))]
  BY <1>2, <1>3, <1>4
<1>6. Life(r) = "up"
  BY <1>1 DEF Life
<1>7. CASE Finish(r)
  <2>1. status'[r] = "idle" /\ handled' = handled \cup {current[r]}
    BY <1>7 DEF Finish, RuntimeInv, TypeOK
  <2>2. \A q \in Ref : Life(q)' = Life(q)
    BY <1>1, <1>4, <2>1 DEF Life
  <2>3. Inbox!Handle(r)
    BY <1>2, <1>5, <1>6, <2>1, <2>2 DEF Inbox!Handle
  <2>4. QED
    BY <2>3 DEF Inbox!Next
<1>8. CASE Panic(r)
  <2>1. status'[r] = "crashed" /\ handled' = handled
    BY <1>8 DEF Panic, RuntimeInv, TypeOK
  <2>2. [q \in Ref |-> Life(q)]' = [[q \in Ref |-> Life(q)] EXCEPT ![r] = "crashed"]
    BY <1>4, <2>1 DEF Life
  <2>3. Inbox!Crash(r)
    BY <1>2, <1>5, <1>6, <2>1, <2>2 DEF Inbox!Crash
  <2>4. QED
    BY <2>3 DEF Inbox!Next
<1>9. QED
  BY <1>7, <1>8

\* Only an actor with nothing left to do stops.
LEMMA InboxStops ==
    ASSUME RuntimeInv, NEW r \in Ref, Exit(r)
    PROVE  Inbox!Next
<1>1. /\ status[r] = "idle" /\ status'[r] = "exited" /\ mailbox[r] = <<>> /\ current[r] = 0
      /\ UNCHANGED <<mailbox, current, handled>>
      /\ \A q \in Ref \ {r} : status'[q] = status[q]
  BY DEF Exit, RuntimeInv, TypeOK, ActorsConsistent
<1>2. InboxOf(r) = <<>> /\ Life(r) = "up"
  BY <1>1, InboxIs DEF RuntimeInv, Life
<1>3. \A q \in Ref : InboxOf(q)' = InboxOf(q)
  BY <1>1, SameInbox
<1>4. \A q \in Ref : q # r => Life(q)' = Life(q)
  BY <1>1, SameLife
<1>5. [q \in Ref |-> Life(q)]' = [[q \in Ref |-> Life(q)] EXCEPT ![r] = "stopped"]
  BY <1>1, <1>4 DEF Life
<1>6. Inbox!Stop(r)
  BY <1>1, <1>2, <1>3, <1>5 DEF Inbox!Stop
<1>7. QED
  BY <1>6 DEF Inbox!Next

\* What a mailbox accepts is new and joins the end of its actor's inbox.
LEMMA InboxAccepts ==
    ASSUME RuntimeInv, NEW c \in Clients, Enqueue(c)
    PROVE  Inbox!Next
<1>1. call[c] \in Call /\ call[c].pc = "sending" /\ call[c].id \in MsgId /\ call[c].to \in Ref
      /\ sentTo[call[c].id] = 0
  BY DEF Enqueue, RuntimeInv, TypeOK, CallsConsistent, Pending, Call
<1>2. PICK r \in Ref, m \in MsgId : r = call[c].to /\ m = call[c].id
  BY <1>1
<1>3. /\ ~closed[r] /\ mailbox[r] \in Seq(MsgId)
      /\ mailbox'[r] = Append(mailbox[r], m)
      /\ \A q \in Ref \ {r} : mailbox'[q] = mailbox[q]
      /\ UNCHANGED <<status, current, handled>>
  BY <1>2 DEF Enqueue, RuntimeInv, TypeOK
<1>4. Life(r) # "stopped"
  BY <1>3 DEF Life, RuntimeInv, ActorsConsistent
<1>5. m \notin handled
  BY <1>1, <1>2 DEF RuntimeInv, MessagesConsistent
<1>6. ASSUME NEW q \in Ref, NEW i \in 1..Len(InboxOf(q)) PROVE InboxOf(q)[i] # m
  <2>1. m \notin Buffered(q) /\ (current[q] # 0 => current[q] # m)
    BY <1>1, <1>2, ZeroIsNone DEF RuntimeInv, AtMostOnce
  <2>2. QED
    BY <2>1, InboxIs DEF RuntimeInv
<1>7. InboxOf(r)' = Append(InboxOf(r), m)
  <2>1. CASE current[r] = 0
    <3>1. InboxOf(r) = mailbox[r]
      BY <2>1, InboxIs DEF RuntimeInv
    <3>2. InboxOf(r)' = Append(mailbox[r], m)
      BY <1>3, <2>1, ConcatEmptySeq, AppendProperties DEF InboxOf, InHand
    <3>3. QED
      BY <3>1, <3>2
  <2>2. CASE current[r] # 0
    <3>1. current[r] \in MsgId /\ InboxOf(r) = <<current[r]>> \o mailbox[r]
      BY <2>2, InboxIs DEF RuntimeInv
    <3>2. InboxOf(r)' = <<current[r]>> \o Append(mailbox[r], m)
      BY <1>3, <2>2 DEF InboxOf, InHand
    <3>3. Append(<<current[r]>> \o mailbox[r], m) = <<current[r]>> \o Append(mailbox[r], m)
      BY <1>3, <3>1, AddBehind
    <3>4. QED
      BY <3>1, <3>2, <3>3
  <2>3. QED
    BY <2>1, <2>2
<1>8. \A q \in Ref : Life(q)' = Life(q) /\ (q # r => InboxOf(q)' = InboxOf(q))
  BY <1>3, SameInbox, SameLife
<1>9. Inbox!Arrive(r, m)
  BY <1>3, <1>4, <1>5, <1>6, <1>7, <1>8 DEF Inbox!Arrive
<1>10. QED
  BY <1>9 DEF Inbox!Next

LEMMA InboxMoves == RuntimeInv /\ RuntimeInv' /\ [Next]_vars => [Inbox!Next]_Inbox!vars
<1> SUFFICES ASSUME RuntimeInv, RuntimeInv', [Next]_vars
             PROVE  [Inbox!Next]_Inbox!vars
  OBVIOUS
<1>1. CASE UNCHANGED vars
  <2>1. UNCHANGED <<status, mailbox, current, handled>>
    BY <1>1 DEF vars, actorVars
  <2>2. QED
    BY <2>1, SameInbox, SameLife, InboxStutters
<1>2. CASE Next
  BY <1>2, OwnerStutters, InboxReceives, InboxHandles, InboxStops, InboxAccepts
     DEF Next, ActorStep, ClientStep
<1>3. QED
  BY <1>1, <1>2

\* Bounded channels, goroutines and blocked senders do nothing that an inbox
\* without a bound, read by one handler, would not do.
THEOREM InboxIsKept == Spec => Inbox!Init /\ [][Inbox!Next]_Inbox!vars
  BY InboxBegins, InboxMoves, RuntimeInvariant, PTL DEF Spec
=============================================================================
