---------------------------- MODULE MCSupervisor ----------------------------
(* Supervisor on small teams.                                               *)
EXTENDS SupervisorTeam, TLC

CONSTANTS na, nb

MCNames == {na, nb}
ClientSymmetry == Permutations(Clients)

\* Two children that scripts start, stop, list and ask.
Static(s) ==
    [specs |-> <<na, nb>>, strategy |-> s, maxRestarts |-> 1, window |-> 1,
     clientOps |-> {"start", "stop", "children"}, handlerOps |-> {}, inOrder |-> TRUE,
     starts |-> 1, children |-> 2, calls |-> 2, time |-> 0]

\* One child that crashes again and again while time passes.
Crashing ==
    [Static("one_for_one") EXCEPT !.specs = <<na>>, !.calls = 3, !.time = 3,
        !.clientOps = {"start", "children"}]

\* One child, then one more; children are removed.
Dynamic ==
    [Static("one_for_one") EXCEPT !.specs = <<na>>, !.calls = 1,
        !.clientOps = {"start", "stop", "add", "remove"}]

\* Any method at any time, start twice, handlers that list the children.
AnyOrder ==
    [Static("one_for_one") EXCEPT !.specs = <<na>>, !.calls = 1, !.children = 3,
        !.clientOps = {"start", "stop", "add"}, !.handlerOps = {"children"},
        !.inOrder = FALSE, !.starts = 2]

LiveSetups ==
    {Static("one_for_one"), Static("one_for_all"), Static("rest_for_one")}
SafetySetups ==
    LiveSetups \cup {Crashing, Dynamic, AnyOrder}

\* A team whose handlers look at their own siblings.
SelfListing ==
    {[Static("one_for_one") EXCEPT !.specs = <<na>>, !.handlerOps = {"children"}]}

\* A team that two scripts add to.
Growing ==
    {[Dynamic EXCEPT !.children = 3, !.clientOps = {"start", "add", "children"}]}
=============================================================================
