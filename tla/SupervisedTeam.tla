--------------------------- MODULE SupervisedTeam ---------------------------
(***************************************************************************)
(* What a supervisor promises about a fixed team (docs, supervision.md):   *)
(* a crash makes it restart the children its strategy names, those and no  *)
(* others, or shut the team down for good; a child is only ever stopped    *)
(* because it is about to be restarted or because the team is shut down,   *)
(* and only ever restarted after its incarnation has ended.                *)
(***************************************************************************)
EXTENDS Naturals

CONSTANT Size

Slot == 1..Size

VARIABLES
    strategy, \* which children a crash restarts; never changes
    team,   \* "idle", "running" or "down"
    child,  \* per slot: "none", "up", "crashed" or "stopped"
    scope   \* the slots that are being restarted

vars == <<strategy, team, child, scope>>

Init ==
    /\ strategy \in {"one_for_one", "one_for_all", "rest_for_one"}
    /\ team = "idle"
    /\ child = [i \in Slot |-> "none"]
    /\ scope = {}

Affected(i) ==
    CASE strategy = "one_for_one"  -> {i}
      [] strategy = "one_for_all"  -> Slot
      [] strategy = "rest_for_one" -> {j \in Slot : j >= i}

Start ==
    /\ team = "idle"
    /\ team' = "running"
    /\ child' = [i \in Slot |-> "up"]
    /\ UNCHANGED <<strategy, scope>>

Crash(i) ==
    /\ child[i] = "up"
    /\ child' = [child EXCEPT ![i] = "crashed"]
    /\ UNCHANGED <<strategy, team, scope>>

\* The answer to a crash: the strategy's scope ...
Decide(i) ==
    /\ team = "running"
    /\ child[i] = "crashed"
    /\ scope = {}
    /\ scope' = Affected(i)
    /\ UNCHANGED <<strategy, team, child>>

\* ... or the end of the team, which may also be asked for.
ShutDown ==
    /\ team = "running"
    /\ scope = {}
    /\ team' = "down"
    /\ UNCHANGED <<strategy, child, scope>>

Leaving(i) == i \in scope \/ team = "down"

Retire(i) ==
    /\ child[i] = "up"
    /\ Leaving(i)
    /\ child' = [child EXCEPT ![i] = "stopped"]
    /\ UNCHANGED <<strategy, team, scope>>

Restart(i) ==
    /\ team = "running"
    /\ i \in scope
    /\ child[i] \in {"crashed", "stopped"}
    /\ child' = [child EXCEPT ![i] = "up"]
    /\ scope' = scope \ {i}
    /\ UNCHANGED <<strategy, team>>

Next ==
    \/ Start
    \/ ShutDown
    \/ \E i \in Slot : Crash(i) \/ Decide(i) \/ Retire(i) \/ Restart(i)

\* A crash is answered, a restart that began is finished, and a team that is
\* shut down does go down.
Spec ==
    /\ Init
    /\ [][Next]_vars
    /\ \A i \in Slot :
          /\ SF_vars(Decide(i) \/ (child[i] = "crashed" /\ ShutDown))
          /\ WF_vars(Leaving(i) /\ (Retire(i) \/ Crash(i)))
          /\ WF_vars(Restart(i))
=============================================================================
