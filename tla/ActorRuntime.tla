---------------------------- MODULE ActorRuntime ----------------------------
(***************************************************************************)
(* The actor runtime of interpreter/actor.go: every spawned actor is a     *)
(* goroutine draining a bounded Go channel, its mailbox; callers reach it  *)
(* with `<-` (fire and forget), `.ask` (waits for the reply, for a         *)
(* timeout or for the actor's Done channel) and `.chat` (waits for the     *)
(* reply or a timeout only; Go's AskActor has the same shape).             *)
(*                                                                         *)
(* A ref is the index of a spawned actor, a message the number of the call *)
(* that created it.  Two actions belong to whoever owns the actors and are *)
(* refined by module Supervisor: SpawnActors and CloseMailbox.             *)
(***************************************************************************)
EXTENDS Naturals, Sequences, Functions

CONSTANTS
    Kinds,      \* the kinds of call that script code makes
    Clients,    \* goroutines that run script code and call actors
    Capacity,   \* make(chan ActorMessage, 256): the mailbox's size
    MaxRefs,    \* bound: actors ever spawned
    MaxMsgs     \* bound: calls ever made

Kind == {"send", "ask", "chat"}

ASSUME RuntimeAssumption ==
    /\ Kinds \subseteq Kind
    /\ Capacity \in Nat \ {0}
    /\ MaxRefs \in Nat
    /\ MaxMsgs \in Nat

Ref   == 1..MaxRefs
MsgId == 1..MaxMsgs

VARIABLES
    spawned,    \* how many refs exist: 1..spawned
    status,     \* per ref: where its goroutine is
    closed,     \* per ref: close(Mailbox) was called
    mailbox,    \* per ref: the channel's buffer
    current,    \* per ref: the message its handler runs, 0 when none
    calls,      \* how many calls were made
    call,       \* per client: its latest call
    expects,    \* the messages that carry a ReplyCh
    replied,    \* the messages whose ReplyCh has been sent a value
    sentTo,     \* history, per message: the ref that accepted it, 0 when none
    handled     \* history: the messages whose handler ran to its end

actorVars == <<spawned, status, closed, mailbox, current>>
callVars  == <<calls, call, expects>>
vars == <<actorVars, callVars, replied, sentTo, handled>>

Status  == {"unborn", "idle", "busy", "exited", "crashed"}
Outcome == {"none", "sent", "ok", "timeout", "actor_stopped"}
Call == [pc      : {"idle", "sending", "waiting", "panicked"},
         kind    : Kind,
         to      : Ref \cup {0},
         id      : MsgId \cup {0},
         outcome : Outcome]

Spawned == 1..spawned

\* ref.Done is closed by the deferred function of Actor.run.
Done(r) == status[r] \in {"exited", "crashed"}

Pending(c) == call[c].pc \in {"sending", "waiting"}

TypeOK ==
    /\ spawned \in 0..MaxRefs
    /\ status \in [Ref -> Status]
    /\ closed \in [Ref -> BOOLEAN]
    /\ mailbox \in [Ref -> Seq(MsgId)]
    /\ current \in [Ref -> MsgId \cup {0}]
    /\ calls \in 0..MaxMsgs
    /\ call \in [Clients -> Call]
    /\ expects \subseteq MsgId
    /\ replied \subseteq MsgId
    /\ sentTo \in [MsgId -> Ref \cup {0}]
    /\ handled \subseteq MsgId

Init ==
    /\ spawned = 0
    /\ status = [r \in Ref |-> "unborn"]
    /\ closed = [r \in Ref |-> FALSE]
    /\ mailbox = [r \in Ref |-> <<>>]
    /\ current = [r \in Ref |-> 0]
    /\ calls = 0
    /\ call = [c \in Clients |->
                 [pc |-> "idle", kind |-> "send", to |-> 0, id |-> 0, outcome |-> "none"]]
    /\ expects = {}
    /\ replied = {}
    /\ sentTo = [m \in MsgId |-> 0]
    /\ handled = {}

-----------------------------------------------------------------------------
(* What the owner of the actors does. *)

\* spawnSupervisedActor, n times: a fresh mailbox and `go a.run()`.
SpawnActors(n) ==
    /\ spawned + n <= MaxRefs
    /\ spawned' = spawned + n
    /\ status' = [r \in Ref |-> IF r \in (spawned + 1)..(spawned + n)
                                THEN "idle" ELSE status[r]]
    /\ UNCHANGED <<closed, mailbox, current, callVars, replied, sentTo, handled>>

\* close(ref.Mailbox): what is buffered stays readable, senders panic.
CloseMailbox(r) ==
    /\ ~closed[r]
    /\ closed' = [closed EXCEPT ![r] = TRUE]
    /\ UNCHANGED <<spawned, status, mailbox, current, callVars, replied, sentTo, handled>>

-----------------------------------------------------------------------------
(* The actor's goroutine: Actor.run. *)

\* What Receive could be: leaving the message where it was, or taking the
\* newest first.
ReceivePeek(r) ==
    /\ status[r] = "idle"
    /\ mailbox[r] # <<>>
    /\ status' = [status EXCEPT ![r] = "busy"]
    /\ current' = [current EXCEPT ![r] = Head(mailbox[r])]
    /\ UNCHANGED mailbox
    /\ UNCHANGED <<spawned, closed, callVars, replied, sentTo, handled>>

ReceiveNewest(r) ==
    /\ status[r] = "idle"
    /\ mailbox[r] # <<>>
    /\ status' = [status EXCEPT ![r] = "busy"]
    /\ current' = [current EXCEPT ![r] = mailbox[r][Len(mailbox[r])]]
    /\ mailbox' = [mailbox EXCEPT ![r] = SubSeq(@, 1, Len(@) - 1)]
    /\ UNCHANGED <<spawned, closed, callVars, replied, sentTo, handled>>

\* for msg := range a.mailbox
Receive(r) ==
    /\ status[r] = "idle"
    /\ mailbox[r] # <<>>
    /\ status' = [status EXCEPT ![r] = "busy"]
    /\ current' = [current EXCEPT ![r] = Head(mailbox[r])]
    /\ mailbox' = [mailbox EXCEPT ![r] = Tail(@)]
    /\ UNCHANGED <<spawned, closed, callVars, replied, sentTo, handled>>

\* The handler returns; the reply goes to the message's own channel, whose
\* one-element buffer never makes the actor wait.
Finish(r) ==
    /\ status[r] = "busy"
    /\ status' = [status EXCEPT ![r] = "idle"]
    /\ current' = [current EXCEPT ![r] = 0]
    /\ replied' = replied \cup ({current[r]} \cap expects)
    /\ handled' = handled \cup {current[r]}
    /\ UNCHANGED <<spawned, closed, mailbox, callVars, sentTo>>

\* The handler panics: run recovers, closes Done and leaves the mailbox open.
Panic(r) ==
    /\ status[r] = "busy"
    /\ status' = [status EXCEPT ![r] = "crashed"]
    /\ current' = [current EXCEPT ![r] = 0]
    /\ UNCHANGED <<spawned, closed, mailbox, callVars, replied, sentTo, handled>>

\* What Exit could be: leaving as soon as the mailbox is closed.
ExitUndrained(r) ==
    /\ status[r] = "idle"
    /\ closed[r]
    /\ status' = [status EXCEPT ![r] = "exited"]
    /\ UNCHANGED <<spawned, closed, mailbox, current, callVars, replied, sentTo, handled>>

\* The range over a closed channel ends once its buffer is empty.
Exit(r) ==
    /\ status[r] = "idle"
    /\ closed[r]
    /\ mailbox[r] = <<>>
    /\ status' = [status EXCEPT ![r] = "exited"]
    /\ UNCHANGED <<spawned, closed, mailbox, current, callVars, replied, sentTo, handled>>

-----------------------------------------------------------------------------
(* The callers: evalSend, evalActorAskFromAST, evalAgentChat. *)

\* Script code evaluates a call of kind k on ref r and builds its message.
BeginCall(c, r, k) ==
    /\ call[c].pc = "idle"
    /\ calls < MaxMsgs
    /\ calls' = calls + 1
    /\ call' = [call EXCEPT ![c] =
         [pc |-> "sending", kind |-> k, to |-> r, id |-> calls + 1, outcome |-> "none"]]
    /\ expects' = IF k = "send" THEN expects ELSE expects \cup {calls + 1}
    /\ UNCHANGED <<actorVars, replied, sentTo, handled>>

\* Client c's call moves on to pc l with outcome o.
Moves(c, l, o) == call' = [call EXCEPT ![c] = [@ EXCEPT !.pc = l, !.outcome = o]]

Return(c, o) == Moves(c, "idle", o)

\* `ref.Mailbox <- msg` succeeds: the buffer has room.
Enqueue(c) ==
    LET r == call[c].to IN
    /\ call[c].pc = "sending"
    /\ ~closed[r]
    /\ Len(mailbox[r]) < Capacity
    /\ mailbox' = [mailbox EXCEPT ![r] = Append(@, call[c].id)]
    /\ sentTo' = [sentTo EXCEPT ![call[c].id] = r]
    /\ IF call[c].kind = "send"
       THEN Return(c, "sent")
       ELSE Moves(c, "waiting", "none")
    /\ UNCHANGED <<spawned, status, closed, current, calls, expects, replied, handled>>

\* The mailbox is, or becomes while the sender is blocked, closed.  Only .ask
\* goes through safeMailboxSend; in the others the send panics.
SendOnClosed(c) ==
    /\ call[c].pc = "sending"
    /\ closed[call[c].to]
    /\ IF call[c].kind = "ask"
       THEN Return(c, "actor_stopped")
       ELSE Moves(c, "panicked", "none")
    /\ UNCHANGED <<actorVars, calls, expects, replied, sentTo, handled>>

\* What GetReply could be: a reply channel shared by all the calls.
GetAnyReply(c) ==
    /\ call[c].pc = "waiting"
    /\ replied # {}
    /\ Return(c, "ok")
    /\ UNCHANGED <<actorVars, calls, expects, replied, sentTo, handled>>

\* select { case result := <-msg.ReplyCh
GetReply(c) ==
    /\ call[c].pc = "waiting"
    /\ call[c].id \in replied
    /\ Return(c, "ok")
    /\ UNCHANGED <<actorVars, calls, expects, replied, sentTo, handled>>

\* case <-ref.Done: only .ask waits for it.  Go picks at random among the
\* cases that are ready, so this is possible although a reply is there.
SeeDone(c) ==
    /\ call[c].pc = "waiting"
    /\ call[c].kind = "ask"
    /\ Done(call[c].to)
    /\ Return(c, "actor_stopped")
    /\ UNCHANGED <<actorVars, calls, expects, replied, sentTo, handled>>

\* What TimeOut could be: a timer in .ask only.
TimeOutOfAsk(c) ==
    /\ call[c].pc = "waiting"
    /\ call[c].kind = "ask"
    /\ call[c].id \notin replied
    /\ ~Done(call[c].to)
    /\ Return(c, "timeout")
    /\ UNCHANGED <<actorVars, calls, expects, replied, sentTo, handled>>

\* case <-time.After(AskTimeout or ChatTimeout): seconds after the select
\* began, hence only when none of its other cases is ready.
TimeOut(c) ==
    /\ call[c].pc = "waiting"
    /\ call[c].id \notin replied
    /\ ~(call[c].kind = "ask" /\ Done(call[c].to))
    /\ Return(c, "timeout")
    /\ UNCHANGED <<actorVars, calls, expects, replied, sentTo, handled>>

-----------------------------------------------------------------------------
ActorStep(r)  == Receive(r) \/ Finish(r) \/ Panic(r) \/ Exit(r)
ClientStep(c) == Enqueue(c) \/ SendOnClosed(c) \/ GetReply(c) \/ SeeDone(c) \/ TimeOut(c)

Next ==
    \/ \E n \in 1..MaxRefs : SpawnActors(n)
    \/ \E r \in Spawned : CloseMailbox(r)
    \/ \E r \in Ref : ActorStep(r)
    \/ \E c \in Clients, r \in Spawned, k \in Kinds : BeginCall(c, r, k)
    \/ \E c \in Clients : ClientStep(c)

Spec == Init /\ [][Next]_vars

(***************************************************************************)
(* A goroutine that can run does run, a handler returns or panics, and Go  *)
(* queues the senders blocked on a channel in order, so that one of them   *)
(* is not overtaken forever (strong fairness of Enqueue).                  *)
(***************************************************************************)
RuntimeFairness ==
    /\ \A r \in Ref : /\ WF_vars(Receive(r))
                      /\ WF_vars(Finish(r) \/ Panic(r))
                      /\ WF_vars(Exit(r))
    /\ \A c \in Clients : /\ SF_vars(Enqueue(c))
                          /\ WF_vars(ClientStep(c))

FairSpec == Spec /\ RuntimeFairness
-----------------------------------------------------------------------------
(* Properties. *)

Buffered(r) == Range(mailbox[r])

\* Every message a mailbox accepted is waiting, being handled, or handled,
\* unless its actor crashed.
Accounted ==
    \A m \in MsgId : sentTo[m] # 0 =>
        LET r == sentTo[m] IN
        \/ m \in handled \cup Buffered(r)
        \/ m = current[r]
        \/ status[r] = "crashed"

\* Closing a mailbox is a graceful stop: an actor that left its receive loop
\* without crashing has handled every message its mailbox ever accepted, also
\* those a sender slipped in while the owner was about to close it.
GracefulStopDrains ==
    \A r \in Ref, m \in MsgId :
        status[r] = "exited" /\ sentTo[m] = r => m \in handled

\* No message runs its handler twice, is queued twice, is queued while it is
\* running or sits in the mailbox of an actor it was not sent to.
AtMostOnce ==
    \A r \in Ref :
        /\ IsInjective(mailbox[r])
        /\ current[r] \notin Buffered(r)
        /\ \A m \in Buffered(r) \cup ({current[r]} \ {0}) : m \notin handled /\ sentTo[m] = r

\* What a call reports is what happened to its message: an Ok reply means the
\* handler of that very message ran, actor_stopped that the actor it was sent
\* to was stopped or had crashed, and a returned `<-` that the actor has the
\* message.
TruthfulOutcome ==
    \A c \in Clients :
        /\ call[c].outcome = "ok" => call[c].id \in handled
        /\ call[c].outcome = "actor_stopped" => closed[call[c].to] \/ Done(call[c].to)
        /\ call[c].outcome = "sent" => sentTo[call[c].id] = call[c].to

\* A sender on a full mailbox nobody will ever read or close.
Jammed(c) ==
    /\ call[c].pc = "sending"
    /\ status[call[c].to] = "crashed"
    /\ ~closed[call[c].to]
    /\ Len(mailbox[call[c].to]) = Capacity

\* Every call comes back (with a reply, an error or a panic) unless it found
\* the mailbox of a crashed actor full.
CallsReturn == \A c \in Clients : Pending(c) ~> (~Pending(c) \/ Jammed(c))

\* An actor whose mailbox was closed gets to the end of what is buffered and
\* closes Done: the wait `<-Done` of the closer ends.
ClosedActorsEnd == \A r \in Ref : closed[r] ~> Done(r)

\* Nobody waits forever: neither callers nor the closer of an actor.
NobodyWaitsForever == CallsReturn /\ ClosedActorsEnd

\* docs, spawn-send-ask.md: `.ask` blocks "until the actor produces a reply or
\* AskTimeout (5 seconds by default) fires".
AskReturns ==
    \A c \in Clients :
        (Pending(c) /\ call[c].kind = "ask") ~> ~(Pending(c) /\ call[c].kind = "ask")
-----------------------------------------------------------------------------
(* The inductive invariant behind the safety properties.                    *)

\* Where a ref's goroutine is fits what it holds.
ActorsConsistent ==
    \A r \in Ref :
        /\ status[r] = "unborn" <=> r > spawned
        /\ current[r] # 0 <=> status[r] = "busy"
        /\ status[r] = "exited" => closed[r] /\ mailbox[r] = <<>>

\* Only calls that were made have messages, only accepted ones are handled and
\* only handled ones are answered.
MessagesConsistent ==
    /\ \A m \in MsgId : m > calls => sentTo[m] = 0
    /\ \A m \in handled : sentTo[m] # 0
    /\ replied \subseteq handled

\* A message has one owner; it is accepted when its call left the send.
CallsConsistent ==
    \A c \in Clients :
        /\ call[c].id <= calls
        /\ Pending(c) => /\ call[c].id # 0
                         /\ call[c].to # 0
                         /\ call[c].outcome = "none"
        /\ call[c].pc = "sending" => sentTo[call[c].id] = 0
        /\ call[c].pc = "waiting" => sentTo[call[c].id] = call[c].to
        /\ call[c].outcome \in {"ok", "sent", "actor_stopped"} =>
              call[c].id # 0 /\ call[c].to # 0
        /\ \A d \in Clients : call[c].id = call[d].id /\ call[c].id # 0 => c = d

RuntimeInv ==
    /\ TypeOK
    /\ ActorsConsistent
    /\ MessagesConsistent
    /\ CallsConsistent
    /\ Accounted
    /\ AtMostOnce
    /\ TruthfulOutcome
=============================================================================
