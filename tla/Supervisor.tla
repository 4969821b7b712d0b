----------------------------- MODULE Supervisor -----------------------------
(***************************************************************************)
(* interpreter/supervisor.go on top of the actor runtime: a supervisor     *)
(* owns a list of children, closes their mailboxes, and respawns them when *)
(* a crashed child's goroutine calls back into handleCrash.                *)
(*                                                                         *)
(* All of it runs under one mutex, s.mu, taken by script goroutines, by    *)
(* handlers that were handed the supervisor, and by one goroutine per      *)
(* crash.  What a critical section does to the children in turn (close the *)
(* mailbox, wait for Done, spawn) is interleaved with everything that does *)
(* not need the mutex: it is a job worked off one child at a time.         *)
(***************************************************************************)
EXTENDS ActorRuntime, FiniteSets

CONSTANTS
    Names,        \* actor and agent declarations
    Setups,       \* the supervisors, with the scripts that use them
    NoOne         \* nobody holds the mutex

Ops  == {"start", "stop", "children", "add", "remove"}
Proc == Clients \cup Ref

\* What Supervisor.new is given, which methods scripts and message handlers
\* call, and whether they follow the documented lifecycle: start, once, before
\* anything else.  The last four are bounds: on the calls of start, the length
\* of the list of children, the calls to actors and the clock.
Setup == [specs       : Seq(Names),
          strategy    : {"one_for_one", "one_for_all", "rest_for_one"},
          maxRestarts : Nat,
          window      : Nat,
          clientOps   : SUBSET Ops,
          handlerOps  : SUBSET Ops,
          inOrder     : BOOLEAN,
          starts      : Nat,
          children    : Nat,
          calls       : Nat,
          time        : Nat]

ASSUME SupervisorAssumption ==
    /\ Setups \subseteq Setup
    /\ NoOne \notin Proc
    /\ Clients \cap Ref = {}

VARIABLES
    setup,        \* never changes
    children,     \* s.children
    childNames,   \* SupervisorVal.ChildNames, kept by the caller's goroutine
    unnamed,      \* added children whose name is not appended yet
    starts,       \* calls of start so far
    stopped,      \* s.stopped
    now,          \* time.Now()
    op,           \* per process: the method it is in, "crash" for handleCrash
    holder,       \* who holds s.mu
    job,          \* the children the holder still has to deal with
    known,        \* the refs script code has obtained
    faulted       \* a nil dereference or a second close panicked

listVars  == <<children, childNames, unnamed>>
lockVars  == <<op, holder, job>>
supVars   == <<setup, listVars, starts, stopped, now, lockVars, known, faulted>>
allVars   == <<vars, supVars>>

\* One entry of s.children; its ref is 0 (nil) before start.  A child crashes
\* at most once per ref, so crashTimes is a set of pairs.  panics is history:
\* when its incarnations really panicked.
Event == Ref \X Nat
Child == [name : Names, ref : 0..MaxRefs, crashTimes : SUBSET Event, panics : SUBSET Event]

NoJob == [mode |-> "none", at |-> 0, last |-> 0, closing |-> FALSE]
Job   == [mode : {"none", "restart", "stop", "remove"}, at : Nat, last : Nat, closing : BOOLEAN]

SupTypeOK ==
    /\ TypeOK
    /\ setup \in Setups
    /\ children \in Seq(Child)
    /\ childNames \in Seq(Names)
    /\ unnamed \subseteq Proc \X Names
    /\ starts \in Nat
    /\ stopped \in BOOLEAN
    /\ now \in Nat
    /\ op \in [Proc -> Ops \cup {"none", "crash", "naming"}]
    /\ holder \in Proc \cup {NoOne}
    /\ job \in Job
    /\ known \subseteq Ref
    /\ faulted \in BOOLEAN

\* NewSupervisor: the children are listed, none is spawned.
SupInit ==
    /\ Init
    /\ setup \in Setups
    /\ children = [i \in 1..Len(setup.specs) |->
                     [name |-> setup.specs[i], ref |-> 0, crashTimes |-> {}, panics |-> {}]]
    /\ childNames = setup.specs
    /\ unnamed = {}
    /\ starts = 0
    /\ stopped = FALSE
    /\ now = 0
    /\ op = [p \in Proc |-> "none"]
    /\ holder = NoOne
    /\ job = NoJob
    /\ known = {}
    /\ faulted = FALSE

Slots      == 1..Len(children)
Tracked(r) == \E i \in Slots : children[i].ref = r

-----------------------------------------------------------------------------
(* Taking the mutex and giving it back. *)

Requests(p, o) == op' = [op EXCEPT ![p] = o]

\* Scripts follow the documented lifecycle: start, once, before the rest.
InOrder(o) == setup.inOrder =>
    IF o = "start" THEN starts = 0 /\ \A p \in Proc : op[p] # "start" ELSE starts > 0

\* The calls the bounds leave room for; remove needs a ref to name.
InBounds(o) ==
    LET waiting == Cardinality({p \in Proc : op[p] = o}) IN
    /\ o = "start"  => starts + waiting < setup.starts
    /\ o = "add"    => Len(children) + waiting < setup.children
    /\ o = "remove" => known # {}

\* A script goroutine calls a method and waits for the mutex.
ClientRequest(c, o) ==
    /\ call[c].pc = "idle"
    /\ op[c] = "none"
    /\ InOrder(o) /\ InBounds(o)
    /\ Requests(c, o)
    /\ UNCHANGED <<setup, vars, listVars, starts, stopped, now, holder, job, known, faulted>>

\* So does the handler that runs on ref r.
HandlerRequest(r, o) ==
    /\ status[r] = "busy"
    /\ op[r] = "none"
    /\ InOrder(o) /\ InBounds(o)
    /\ Requests(r, o)
    /\ UNCHANGED <<setup, vars, listVars, starts, stopped, now, holder, job, known, faulted>>

Enters(p, o) == op[p] = o /\ holder = NoOne

\* The critical section is over and done with in this step.
Leaves(p) == op' = [op EXCEPT ![p] = "none"] /\ UNCHANGED <<holder, job>>

\* p keeps the mutex and works through children first..last.
Works(p, m, first, last) ==
    IF first <= last
    THEN /\ holder' = p
         /\ job' = [mode |-> m, at |-> first, last |-> last, closing |-> FALSE]
         /\ UNCHANGED op
    ELSE Leaves(p)

-----------------------------------------------------------------------------
(* The methods. *)

\* Start: every child is spawned, also one that has a running incarnation.
Start(p) ==
    /\ Enters(p, "start")
    /\ starts' = starts + 1
    /\ SpawnActors(Len(children))
    /\ children' = [i \in Slots |-> [children[i] EXCEPT !.ref = spawned + i]]
    /\ Leaves(p)
    /\ UNCHANGED <<setup, childNames, unnamed, stopped, now, known, faulted>>

\* What Stop could be: a loop that does not reach the last child.
StopAllButLast(p) ==
    /\ Enters(p, "stop")
    /\ stopped' = TRUE
    /\ Works(p, "stop", 1, Len(children) - 1)
    /\ UNCHANGED <<setup, vars, listVars, starts, now, known, faulted>>

\* Stop.
Stop(p) ==
    /\ Enters(p, "stop")
    /\ stopped' = TRUE
    /\ Works(p, "stop", 1, Len(children))
    /\ UNCHANGED <<setup, vars, listVars, starts, now, known, faulted>>

\* What Listing could be: nil refs included.
ListingWithNil ==
    {<<childNames[i], children[i].ref>> : i \in {j \in Slots : j <= Len(childNames)}}

\* The children() builtin: name -> ref, pairing the two lists by position; a
\* nil ref is skipped, and a name that occurs twice keeps its last ref.
Listing ==
    {<<childNames[i], children[i].ref>> : i \in
        {j \in Slots : /\ children[j].ref # 0
                       /\ j <= Len(childNames)
                       /\ \A k \in Slots : j < k /\ k <= Len(childNames) =>
                             ~(childNames[k] = childNames[j] /\ children[k].ref # 0)}}

Children(p) ==
    /\ Enters(p, "children")
    /\ known' = known \cup {e[2] : e \in Listing}
    /\ Leaves(p)
    /\ UNCHANGED <<setup, vars, listVars, starts, stopped, now, faulted>>

\* AddChild spawns without looking at s.stopped.  The builtin appends the name
\* afterwards, without the mutex.
AddChild(p, n) ==
    /\ Enters(p, "add")
    /\ SpawnActors(1)
    /\ children' = Append(children,
         [name |-> n, ref |-> spawned + 1, crashTimes |-> {}, panics |-> {}])
    /\ unnamed' = unnamed \cup {<<p, n>>}
    /\ known' = known \cup {spawned + 1}
    /\ op' = [op EXCEPT ![p] = "naming"]
    /\ UNCHANGED <<setup, childNames, starts, stopped, now, holder, job, faulted>>

\* Two appends that overlap race for the slice: one of the names may be lost.
NameChild(p, n) ==
    /\ <<p, n>> \in unnamed
    /\ \/ childNames' = Append(childNames, n)
       \/ unnamed # {<<p, n>>} /\ UNCHANGED childNames
    /\ unnamed' = unnamed \ {<<p, n>>}
    /\ op' = [op EXCEPT ![p] = "none"]
    /\ UNCHANGED <<setup, vars, children, starts, stopped, now, holder, job, known, faulted>>

\* RemoveChild(ref), which only the Go API offers.
RemoveChild(p, r) ==
    /\ Enters(p, "remove")
    /\ IF Tracked(r)
       THEN \E i \in Slots : children[i].ref = r /\ Works(p, "remove", i, i)
       ELSE Leaves(p)
    /\ UNCHANGED <<setup, vars, listVars, starts, stopped, now, known, faulted>>

\* What the strategies could be: the last child left out, nothing before the
\* crashed one.
AffectsAllButLast(i) == Len(children) - 1
AffectsNoSooner(i)   == i

\* The children a crash of child i restarts.
LastAffected(i)  == IF setup.strategy = "one_for_one" THEN i ELSE Len(children)
FirstAffected(i) == IF setup.strategy = "one_for_all" THEN 1 ELSE i

\* Crashes of a child that are still inside the window, one at t included.
Recent(events, t) == {e \in events : e[2] + setup.window >= t}

\* What handleCrash could be: keeping only the last crash.
HandleCrashForgetful(r, i) ==
    /\ Enters(r, "crash")
    /\ ~stopped
    /\ children[i].ref = r
    /\ children' = [children EXCEPT ![i].crashTimes = {<<r, now>>}]
    /\ IF setup.maxRestarts < 1
       THEN /\ stopped' = TRUE
            /\ Works(r, "stop", 1, Len(children))
       ELSE /\ Works(r, "restart", FirstAffected(i), LastAffected(i))
            /\ UNCHANGED stopped
    /\ UNCHANGED <<setup, vars, childNames, unnamed, starts, now, known, faulted>>

\* handleCrash(ref) in the goroutine Actor.run started for it.
IgnoreCrash(r) ==
    /\ Enters(r, "crash")
    /\ stopped \/ ~Tracked(r)
    /\ Leaves(r)
    /\ UNCHANGED <<setup, vars, listVars, starts, stopped, now, known, faulted>>

HandleCrash(r, i) ==
    LET inWindow == Recent(children[i].crashTimes \cup {<<r, now>>}, now) IN
    /\ Enters(r, "crash")
    /\ ~stopped
    /\ children[i].ref = r
    /\ children' = [children EXCEPT ![i].crashTimes = inWindow]
    /\ IF Cardinality(inWindow) > setup.maxRestarts
       THEN /\ stopped' = TRUE
            /\ Works(r, "stop", 1, Len(children))
       ELSE /\ Works(r, "restart", FirstAffected(i), LastAffected(i))
            /\ UNCHANGED stopped
    /\ UNCHANGED <<setup, vars, childNames, unnamed, starts, now, known, faulted>>

-----------------------------------------------------------------------------
(* Working off a job: restartChild, stopAll and RemoveChild treat the child *)
(* they are at alike until its Done is closed.                              *)

Subject == children[job.at].ref

\* default: close(oldRef.Mailbox), then <-oldRef.Done.
CloseChild ==
    /\ job.mode # "none"
    /\ Subject # 0
    /\ ~Done(Subject)
    /\ ~job.closing
    /\ CloseMailbox(Subject)
    /\ job' = [job EXCEPT !.closing = TRUE]
    /\ UNCHANGED <<setup, listVars, starts, stopped, now, op, holder, known, faulted>>

\* A child that was never spawned is dereferenced, or a mailbox somebody
\* closed before is closed again: the goroutine panics.  In the goroutine of a
\* crash and in a script's own nobody recovers, and the process ends.
Fault ==
    /\ job.mode # "none"
    /\ \/ Subject = 0
       \/ Subject # 0 /\ ~Done(Subject) /\ ~job.closing /\ closed[Subject]
    /\ faulted' = TRUE
    /\ UNCHANGED <<setup, vars, listVars, starts, stopped, now, lockVars, known>>

\* What NextChild could be: the loop ends and the mutex stays locked.
NextChildKeepsLock ==
    IF job.at < job.last
    THEN /\ job' = [job EXCEPT !.at = @ + 1, !.closing = FALSE]
         /\ UNCHANGED <<op, holder>>
    ELSE /\ job' = NoJob
         /\ op' = [op EXCEPT ![holder] = "none"]
         /\ UNCHANGED holder

NextChild ==
    IF job.at < job.last
    THEN /\ job' = [job EXCEPT !.at = @ + 1, !.closing = FALSE]
         /\ UNCHANGED <<op, holder>>
    ELSE /\ job' = NoJob
         /\ holder' = NoOne
         /\ op' = [op EXCEPT ![holder] = "none"]

\* What Settles could be: close(Mailbox) without waiting for Done.
SettlesEarly(m) == job.mode = m /\ Subject # 0 /\ (Done(Subject) \/ job.closing)

Settles(m) == job.mode = m /\ Subject # 0 /\ Done(Subject)

\* What RespawnChild could be: a stale index.
RespawnFirst ==
    /\ Settles("restart")
    /\ SpawnActors(1)
    /\ children' = [children EXCEPT ![1].ref = spawned + 1]
    /\ NextChild
    /\ UNCHANGED <<setup, childNames, unnamed, starts, stopped, now, known, faulted>>

\* child.ref = s.spawnChild(child.spec)
RespawnChild ==
    /\ Settles("restart")
    /\ SpawnActors(1)
    /\ children' = [children EXCEPT ![job.at].ref = spawned + 1]
    /\ NextChild
    /\ UNCHANGED <<setup, childNames, unnamed, starts, stopped, now, known, faulted>>

PassChild ==
    /\ Settles("stop")
    /\ NextChild
    /\ UNCHANGED <<setup, vars, listVars, starts, stopped, now, known, faulted>>

DropChild ==
    /\ Settles("remove")
    /\ children' = [i \in 1..(Len(children) - 1) |->
                      IF i < job.at THEN children[i] ELSE children[i + 1]]
    /\ NextChild
    /\ UNCHANGED <<setup, vars, childNames, unnamed, starts, stopped, now, known, faulted>>

JobStep == CloseChild \/ Fault \/ RespawnChild \/ PassChild \/ DropChild

-----------------------------------------------------------------------------
(* The runtime's own steps, seen from here. *)

\* A handler in the middle of a supervisor call neither returns nor panics.
SupFinish(r) == Finish(r) /\ op[r] = "none" /\ UNCHANGED supVars

\* The deferred function of run: close(done), then `go a.onCrash(a.ref, ...)`.
SupPanic(r) ==
    /\ Panic(r)
    /\ op[r] = "none"
    /\ op' = [op EXCEPT ![r] = "crash"]
    /\ children' = [i \in Slots |->
         IF children[i].ref = r
         THEN [children[i] EXCEPT !.panics = @ \cup {<<r, now>>}]
         ELSE children[i]]
    /\ UNCHANGED <<setup, childNames, unnamed, starts, stopped, now, holder, job, known, faulted>>

SupReceive(r) == Receive(r) /\ UNCHANGED supVars
SupExit(r)    == Exit(r) /\ UNCHANGED supVars

\* Scripts call actors whose ref they were given.
SupBeginCall(c, r, k) ==
    /\ r \in known
    /\ op[c] = "none"
    /\ calls < setup.calls
    /\ BeginCall(c, r, k)
    /\ UNCHANGED supVars

SupClientStep(c) == ClientStep(c) /\ UNCHANGED supVars

Tick ==
    /\ now < setup.time
    /\ now' = now + 1
    /\ UNCHANGED <<setup, vars, listVars, starts, stopped, lockVars, known, faulted>>

-----------------------------------------------------------------------------
Acquire(p) ==
    \/ Start(p)
    \/ Stop(p)
    \/ Children(p)
    \/ \E n \in Names : AddChild(p, n)
    \/ \E r \in known : RemoveChild(p, r)

CrashStep(r) == IgnoreCrash(r) \/ \E i \in Slots : HandleCrash(r, i)

SupActorStep(r) == SupReceive(r) \/ SupFinish(r) \/ SupPanic(r) \/ SupExit(r)

\* Nothing is followed past a fault.
SupNext ==
    /\ ~faulted
    /\ \/ \E c \in Clients, o \in setup.clientOps : ClientRequest(c, o)
       \/ \E r \in Ref, o \in setup.handlerOps : HandlerRequest(r, o)
       \/ \E p \in Proc : Acquire(p)
       \/ \E p \in Proc, n \in Names : NameChild(p, n)
       \/ \E r \in Ref : CrashStep(r)
       \/ JobStep
       \/ \E r \in Ref : SupActorStep(r)
       \/ \E c \in Clients, r \in Spawned, k \in Kinds : SupBeginCall(c, r, k)
       \/ \E c \in Clients : SupClientStep(c)
       \/ Tick

SupSpec == SupInit /\ [][SupNext]_allVars

(***************************************************************************)
(* Goroutines that can run do run, handlers return or panic, and Go's      *)
(* mutex hands itself to a waiter it has starved: of the goroutines of     *)
(* crashes, and of the callers, one that keeps finding the mutex free in   *)
(* vain gets it in the end (strong fairness).                              *)
(***************************************************************************)
SupFairness ==
    /\ \A r \in Ref : /\ WF_allVars(~faulted /\ SupReceive(r))
                      /\ WF_allVars(~faulted /\ (SupFinish(r) \/ SupPanic(r)))
                      /\ WF_allVars(~faulted /\ SupExit(r))
    /\ SF_allVars(~faulted /\ \E r \in Ref : CrashStep(r))
    /\ SF_allVars(~faulted /\ \E p \in Proc : Acquire(p))
    /\ WF_allVars(~faulted /\ JobStep)
    /\ WF_allVars(~faulted /\ \E p \in Proc, n \in Names : NameChild(p, n))

SupFairSpec == SupSpec /\ SupFairness
-----------------------------------------------------------------------------
(* Properties. *)

\* Whoever runs is supervised: an actor the supervisor spawned and no longer
\* lists has ended, so that a child never has two live incarnations, neither
\* while it is restarted nor after it was removed.
NoOrphans == setup.inOrder => \A r \in Spawned : Done(r) \/ Tracked(r)

\* No sequence of calls and crashes makes the supervisor close a mailbox twice
\* or dereference the ref of a child that was never spawned; either panic
\* would take the process down from the goroutine of a crash.
NoFault == setup.inOrder => ~faulted

\* A crash is never lost: while a listed child is down because it panicked, its
\* handleCrash is still to come, or the running job will come to that child,
\* or the team was stopped.
CrashIsSupervised ==
    \A i \in Slots :
        children[i].ref # 0 /\ status[children[i].ref] = "crashed" =>
            \/ op[children[i].ref] = "crash"
            \/ job.mode = "restart" /\ i \in job.at..job.last
            \/ stopped

\* No incarnation gets away from the supervisor: what it spawned is listed or
\* has ended, and what is listed and crashed is about to be handled.
NoneIsForgotten == NoOrphans /\ CrashIsSupervised

\* After stop, or after the crash budget ran out, and once the mutex is free
\* again, no child of the team runs; unless scripts go on to start or to add,
\* which spawn without looking at s.stopped.
StoppedTeamIsDown ==
    stopped /\ holder = NoOne /\ setup.inOrder /\ "add" \notin setup.clientOps =>
        \A i \in Slots : children[i].ref # 0 => Done(children[i].ref)

\* docs, supervision.md: "If a single child crashes more than max_restarts
\* times within window_seconds, the supervisor shuts the entire team down":
\* once the crashes that happened are dealt with, a running team has no child
\* that really panicked more often than that in the window before now.  With
\* the other strategies a child that panics while it is about to be restarted
\* for a sibling's crash is replaced and not counted; and a second start loses
\* track of the running incarnations, whose crashes are then ignored.
CrashBudget ==
    setup.strategy = "one_for_one" /\ setup.inOrder /\ ~stopped /\
    holder = NoOne /\ (\A r \in Ref : op[r] # "crash") =>
        \A i \in Slots : Cardinality(Recent(children[i].panics, now)) <= setup.maxRestarts

\* What children() pairs with a name is a child of that name.
ListingIsCorrect ==
    \A e \in Listing : \E i \in Slots : children[i].name = e[1] /\ children[i].ref = e[2]

\* A listed child that panicked is replaced (or removed) or the team is down.
CrashIsRepaired ==
    \A r \in Ref :
        (status[r] = "crashed" /\ Tracked(r)) ~> (~Tracked(r) \/ stopped)

\* Every method returns: the mutex is never waited for, or held, forever.
MethodsReturn == \A p \in Proc : (op[p] # "none") ~> (op[p] = "none")

\* docs, supervision.md: "sup.stop() // shuts down every child": after a call
\* of stop, a moment comes when no actor the supervisor spawned is running.
StopShutsDown ==
    (\E p \in Proc : op[p] = "stop") ~> (\A r \in Spawned : Done(r))

\* Scripts get what they call for: their methods return, and stop stops.
MethodsDoTheirWork == MethodsReturn /\ StopShutsDown
=============================================================================
