--------------------------- MODULE SupervisorTeam ---------------------------
(***************************************************************************)
(* How a supervisor implements SupervisedTeam: the children a restart job  *)
(* still has to come to are the scope of the restart, and a child is up    *)
(* until its goroutine has ended.  Only for scripts that follow the        *)
(* lifecycle and a list that does not change.                              *)
(***************************************************************************)
EXTENDS Supervisor

CONSTANT TeamSize    \* the number of children

TeamState == IF stopped THEN "down" ELSE IF starts = 0 THEN "idle" ELSE "running"

ChildState(i) ==
    IF children[i].ref = 0 THEN "none"
    ELSE IF status[children[i].ref] = "crashed" THEN "crashed"
    ELSE IF status[children[i].ref] = "exited" THEN "stopped"
    ELSE "up"

RestartScope == IF job.mode = "restart" THEN job.at..job.last ELSE {}

Team == INSTANCE SupervisedTeam WITH
    Size     <- TeamSize,
    strategy <- setup.strategy,
    team     <- TeamState,
    child    <- [i \in 1..TeamSize |-> ChildState(i)],
    scope    <- RestartScope

\* The supervisor keeps the promise of SupervisedTeam.
ImplementsTeam == Team!Spec
=============================================================================
