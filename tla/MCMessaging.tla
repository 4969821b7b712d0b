---------------------------- MODULE MCMessaging ------------------------------
(* Messages and who handles them: the mailboxes of actors, and the queues of *)
(* the brokers.  They share nothing: a behaviour is one of the one or of the *)
(* other.                                                                    *)
EXTENDS MCActorRuntime, Brokers

VARIABLE part       \* which of them, never changes

MCInit ==
    \/ part = "actors"  /\ system = "kafka" /\ BrInit /\ Init
    \/ part = "brokers" /\ Init /\ BrInit

MCNext ==
    /\ UNCHANGED part
    /\ \/ part = "actors"  /\ Next   /\ UNCHANGED brVars
       \/ part = "brokers" /\ BrNext /\ UNCHANGED vars

\* Fairness asks nothing of the one that stays where it began.
MCSpec ==
    /\ MCInit /\ [][MCNext]_<<part, vars, brVars>>
    /\ RuntimeFairness /\ BrFairness

\* The state of both is well formed.
MessagingTypeOK == TypeOK /\ BrTypeOK
=============================================================================
