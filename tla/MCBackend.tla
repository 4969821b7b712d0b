----------------------------- MODULE MCBackend -------------------------------
(* What a service is made of: the stores behind it, and in front of them the *)
(* rate limit, the chain of middlewares and the routes.  They share nothing: *)
(* a behaviour is one of one of them.                                        *)
EXTENDS Database, FileStore, RateLimiter, Service, Routes, TLC

VARIABLE part       \* which of them, never changes

\* Where the others stay.
StoresRest  == DBInit /\ FSInit
LimiterRest == perIP = FALSE /\ RLInit
ServiceRest == declared = <<>> /\ SvInit
RoutesRest  == prefix = <<>> /\ routes = <<>> /\ RtInit

MCInit ==
    \/ part \in {"db", "fs"} /\ LimiterRest /\ ServiceRest /\ RoutesRest /\ StoresRest
    \/ part = "limiter" /\ StoresRest /\ ServiceRest /\ RoutesRest /\ RLInit
    \/ part = "chain"   /\ StoresRest /\ LimiterRest /\ RoutesRest /\ SvInit
    \/ part = "routes"  /\ StoresRest /\ LimiterRest /\ ServiceRest /\ RtInit

MCNext ==
    /\ UNCHANGED part
    /\ \/ part = "db"      /\ DBNext /\ UNCHANGED <<fsVars, rlVars, svVars, rtVars>>
       \/ part = "fs"      /\ FSNext /\ UNCHANGED <<dbVars, rlVars, svVars, rtVars>>
       \/ part = "limiter" /\ RLNext /\ UNCHANGED <<dbVars, fsVars, svVars, rtVars>>
       \/ part = "chain"   /\ SvNext /\ UNCHANGED <<dbVars, fsVars, rlVars, rtVars>>
       \/ part = "routes"  /\ RtNext /\ UNCHANGED <<dbVars, fsVars, rlVars, svVars>>

MCSpec == MCInit /\ [][MCNext]_<<part, dbVars, fsVars, rlVars, svVars, rtVars>>

Symmetry == Permutations(Users) \cup Permutations(Goroutines) \cup Permutations(Keys)

\* The segments a, :x, a:x and :x-t, and paths of a and a:x.
Word(w) == [before |-> w, name |-> Blank, after |-> Blank]
Colon(b, a) == [before |-> b, name |-> "x", after |-> a]
TestTexts == {Word("a"), Colon(Blank, Blank), Colon("a", Blank), Colon(Blank, "-t")}
TestParts == {Word("a"), Colon("a", Blank)}

\* The state of all of them is well formed.
BackendTypeOK == DBTypeOK /\ FSTypeOK /\ RLTypeOK /\ SvTypeOK /\ RtTypeOK
=============================================================================
