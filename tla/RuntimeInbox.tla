---------------------------- MODULE RuntimeInbox ----------------------------
(***************************************************************************)
(* How the runtime implements ActorInbox: the inbox of an actor is the     *)
(* message its handler runs followed by the channel's buffer.              *)
(***************************************************************************)
EXTENDS ActorRuntime

InHand(r)  == IF current[r] = 0 THEN <<>> ELSE <<current[r]>>
InboxOf(r) == InHand(r) \o mailbox[r]

Life(r) == IF status[r] = "crashed" THEN "crashed"
           ELSE IF status[r] = "exited" THEN "stopped"
           ELSE "up"

Inbox == INSTANCE ActorInbox WITH
    Actors   <- Ref,
    Messages <- MsgId,
    inbox    <- [r \in Ref |-> InboxOf(r)],
    life     <- [r \in Ref |-> Life(r)],
    done     <- handled

\* The runtime keeps the promise of ActorInbox: order of arrival, one message
\* at a time, no message handled twice, none skipped, none left unread.
ImplementsInbox == Inbox!Spec
=============================================================================
