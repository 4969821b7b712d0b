--------------------------- MODULE MCDynamicScopes ---------------------------
(* DynamicScopes for one goroutine, and for several that are kept apart or   *)
(* are not.                                                                  *)
EXTENDS DynamicScopes

\* A script: everything, first without panics, then with the REPL and
\* DB.transaction recovering from them.
Script == [procs |-> {Main}, kinds |-> Kinds, panics |-> FALSE]
Repl   == [Script EXCEPT !.panics = TRUE]

\* Concurrent requests that use closures and capabilities only.
Requests == [procs |-> Procs, kinds |-> {"call", "capability"}, panics |-> TRUE]

\* A request alone, which calls global functions and opens sessions and transactions.
OneRequest == [procs |-> {CHOOSE p \in Procs : TRUE}, kinds |-> Kinds, panics |-> FALSE]

\* An agent alone.
OneAgent == [procs |-> {CHOOSE p \in Procs : TRUE},
             kinds |-> {"tool", "call", "capability"}, panics |-> FALSE]

ApartSetups == {Script, Repl, Requests, OneRequest, OneAgent}

\* Concurrent requests that also call the program's functions.
MixedSetups == {[Requests EXCEPT !.kinds = @ \cup {"global"}, !.panics = FALSE]}
=============================================================================
