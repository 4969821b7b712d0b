----------------------------- MODULE ActorInbox -----------------------------
(***************************************************************************)
(* What an actor promises its senders (docs, spawn-send-ask.md): an inbox  *)
(* without a bound whose messages are handled one at a time in the order   *)
(* of their arrival, until the actor crashes or, having handled them all,  *)
(* stops.  ActorRuntime implements it with a bounded channel and the       *)
(* message its goroutine has taken out of that channel.                    *)
(***************************************************************************)
EXTENDS Naturals, Sequences

CONSTANTS Actors, Messages

VARIABLES
    inbox,      \* per actor: what arrived and is not yet handled, oldest first
    life,       \* per actor: "up", "crashed" or "stopped"
    done        \* the messages handled

vars == <<inbox, life, done>>

Init ==
    /\ inbox = [a \in Actors |-> <<>>]
    /\ life = [a \in Actors |-> "up"]
    /\ done = {}

\* A message that was never accepted before joins the end of an inbox.  It may
\* still arrive after a crash, and then nobody reads it.
Arrive(a, m) ==
    /\ life[a] # "stopped"
    /\ m \notin done
    /\ \A b \in Actors : \A i \in 1..Len(inbox[b]) : inbox[b][i] # m
    /\ inbox' = [inbox EXCEPT ![a] = Append(@, m)]
    /\ UNCHANGED <<life, done>>

\* The oldest message is handled to completion.
Handle(a) ==
    /\ life[a] = "up"
    /\ inbox[a] # <<>>
    /\ done' = done \cup {Head(inbox[a])}
    /\ inbox' = [inbox EXCEPT ![a] = Tail(@)]
    /\ UNCHANGED life

\* Handling the oldest message kills the actor: that message is gone.
Crash(a) ==
    /\ life[a] = "up"
    /\ inbox[a] # <<>>
    /\ life' = [life EXCEPT ![a] = "crashed"]
    /\ inbox' = [inbox EXCEPT ![a] = Tail(@)]
    /\ UNCHANGED done

\* Only an actor with nothing left to do stops.
Stop(a) ==
    /\ life[a] = "up"
    /\ inbox[a] = <<>>
    /\ life' = [life EXCEPT ![a] = "stopped"]
    /\ UNCHANGED <<inbox, done>>

Next ==
    \/ \E a \in Actors, m \in Messages : Arrive(a, m)
    \/ \E a \in Actors : Handle(a) \/ Crash(a) \/ Stop(a)

\* An actor that is up does not leave its inbox unread.
Spec ==
    /\ Init
    /\ [][Next]_vars
    /\ \A a \in Actors : WF_vars(Handle(a) \/ Crash(a))
=============================================================================
