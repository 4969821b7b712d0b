-------------------------- MODULE SupervisorProofs --------------------------
(***************************************************************************)
(* Proofs about Supervisor, for every set of scripts and of names, every   *)
(* supervisor and every bound.                                             *)
(***************************************************************************)
EXTENDS SupervisorTeam, ActorRuntimeProofs, FiniteSetTheorems

-----------------------------------------------------------------------------
(* The first invariant: what the mutex protects is well formed.             *)

\* A ref is that of an actor spawned, and listed once.
ChildrenFit ==
    /\ \A i \in Slots : children[i].ref <= spawned
    /\ \A i, j \in Slots : children[i].ref = children[j].ref /\ children[i].ref # 0 => i = j

\* A goroutine of a crash has a crashed actor, a handler in a method a busy one;
\* whoever is to append a name is at that.
OpsFit ==
    /\ \A c \in Clients : op[c] # "crash"
    /\ \A r \in Ref : /\ op[r] = "crash" => status[r] = "crashed"
                      /\ op[r] \notin {"none", "crash"} => status[r] = "busy"
    /\ \A u \in unnamed : op[u[1]] = "naming"
    /\ \A u, v \in unnamed : u[1] = v[1] => u = v

\* The mutex is held for a job over listed children, and by whoever's method
\* that job is.
JobFits ==
    /\ job.mode = "none" => holder = NoOne /\ job = NoJob
    /\ job.mode # "none" => holder \in Proc /\ job.at \in Slots /\ job.last \in job.at..Len(children)
    /\ job.mode = "restart" => holder \in Ref /\ op[holder] = "crash" /\ ~stopped
    /\ job.mode = "remove" => op[holder] = "remove" /\ job.at = job.last
    /\ job.mode = "stop" => op[holder] \in {"stop", "crash"} /\ stopped /\ job.last = Len(children)

TeamInv == RuntimeInv /\ SupTypeOK /\ ChildrenFit /\ OpsFit /\ JobFits

USE SupervisorAssumption

-----------------------------------------------------------------------------
(* What the steps do to the lists and to the actors.                        *)

LEMMA IsAList ==
    ASSUME NEW S, NEW n \in Nat, NEW f,
           f = [i \in 1..n |-> f[i]], \A i \in 1..n : f[i] \in S
    PROVE  f \in Seq(S) /\ Len(f) = n
  OBVIOUS

LEMMA ProcIsWhole ==
    /\ Clients \subseteq Proc /\ Ref \subseteq Proc /\ NoOne \notin Proc
    /\ \A p \in Proc : p \in Clients \/ p \in Ref
    /\ \A c \in Clients : c \notin Ref
  BY DEF Proc

LEMMA SetupType ==
    ASSUME setup \in Setups
    PROVE  /\ setup.specs \in Seq(Names)
           /\ setup.maxRestarts \in Nat /\ setup.window \in Nat
           /\ setup.strategy \in {"one_for_one", "one_for_all", "rest_for_one"}
           /\ setup.clientOps \subseteq Ops /\ setup.handlerOps \subseteq Ops
           /\ setup.inOrder \in BOOLEAN
  BY DEF Setup

LEMMA ChildType ==
    ASSUME SupTypeOK
    PROVE  /\ Len(children) \in Nat /\ Slots = 1..Len(children)
           /\ \A i \in Slots : /\ children[i] \in Child
                               /\ children[i].name \in Names /\ children[i].ref \in 0..MaxRefs
                               /\ children[i].crashTimes \subseteq Event
                               /\ children[i].panics \subseteq Event
<1>1. /\ children \in Seq(Child) /\ Len(children) \in Nat /\ Slots = 1..Len(children)
      /\ \A i \in Slots : children[i] \in Child
  BY DEF SupTypeOK, Slots
<1>2. \A c \in Child : /\ c.name \in Names /\ c.ref \in 0..MaxRefs
                       /\ c.crashTimes \subseteq Event /\ c.panics \subseteq Event
  BY DEF Child
<1>3. QED
  BY <1>1, <1>2

\* Two entries of the same child, of one incarnation or another.
SameChild(c, d) == c.name = d.name /\ c.crashTimes = d.crashTimes /\ c.panics = d.panics

LEMMA WithRef ==
    ASSUME NEW c \in Child, NEW r \in 0..MaxRefs
    PROVE  LET d == [c EXCEPT !.ref = r] IN d \in Child /\ d.ref = r /\ SameChild(d, c)
  BY DEF Child, SameChild

LEMMA SpawnDoes ==
    ASSUME RuntimeInv, NEW n \in Nat, SpawnActors(n)
    PROVE  /\ spawned \in Nat /\ spawned' = spawned + n /\ spawned' <= MaxRefs
           /\ \A r \in Ref : IF r \in spawned + 1..spawned'
                             THEN status[r] = "unborn" /\ status'[r] = "idle"
                             ELSE status'[r] = status[r]
           /\ closed' = closed
           /\ [Next]_vars
<1>1. /\ spawned \in 0..MaxRefs /\ MaxRefs \in Nat /\ status \in [Ref -> Status]
      /\ spawned' = spawned + n /\ spawned + n <= MaxRefs
      /\ status' = [r \in Ref |-> IF r \in (spawned + 1)..(spawned + n)
                                  THEN "idle" ELSE status[r]]
      /\ UNCHANGED <<closed, mailbox, current, callVars, replied, sentTo, handled>>
  BY RuntimeAssumption DEF RuntimeInv, TypeOK, SpawnActors
<1>2. \A r \in Ref : r > spawned => status[r] = "unborn"
  BY DEF RuntimeInv, ActorsConsistent
<1>3. \A r \in Ref : IF r \in spawned + 1..spawned'
                     THEN status[r] = "unborn" /\ status'[r] = "idle"
                     ELSE status'[r] = status[r]
  BY <1>1, <1>2 DEF Ref
<1>4. [Next]_vars
  <2>1. CASE n = 0
    <3>1. spawned' = spawned /\ status' = status
      BY <1>1, <2>1
    <3>2. QED
      BY <1>1, <3>1 DEF vars, actorVars
  <2>2. CASE n # 0
    <3>1. n \in 1..MaxRefs
      BY <1>1, <2>2
    <3>2. QED
      BY <3>1 DEF Next
  <2>3. QED
    BY <2>1, <2>2
<1>5. QED
  BY <1>1, <1>3, <1>4

LEMMA CloseDoes ==
    ASSUME RuntimeInv, NEW r \in Spawned, CloseMailbox(r)
    PROVE  /\ spawned' = spawned /\ status' = status /\ r \in Ref /\ ~closed[r]
           /\ \A q \in Ref : closed'[q] <=> closed[q] \/ q = r
           /\ [Next]_vars
<1>1. r \in Ref
  BY RuntimeAssumption DEF RuntimeInv, TypeOK, Spawned, Ref
<1>2. QED
  BY <1>1 DEF CloseMailbox, RuntimeInv, TypeOK, Next

\* Where the goroutine of r may go in a step of its own; the others stay.
LEMMA ActorDoes ==
    ASSUME RuntimeInv, NEW r \in Ref, ActorStep(r)
    PROVE  /\ spawned' = spawned /\ closed' = closed
           /\ \A q \in Ref \ {r} : status'[q] = status[q]
           /\ \/ Receive(r) /\ status[r] = "idle" /\ status'[r] = "busy"
              \/ Finish(r) /\ status[r] = "busy" /\ status'[r] = "idle"
              \/ Panic(r) /\ status[r] = "busy" /\ status'[r] = "crashed"
              \/ Exit(r) /\ status[r] = "idle" /\ status'[r] = "exited"
           /\ [Next]_vars
<1>1. status \in [Ref -> Status]
  BY DEF RuntimeInv, TypeOK
<1>2. [Next]_vars
  BY DEF Next
<1>3. QED
  BY <1>1, <1>2 DEF ActorStep, Receive, Finish, Panic, Exit

LEMMA CallDoes ==
    ASSUME RuntimeInv,
           \/ \E c \in Clients, r \in Spawned, k \in Kinds : BeginCall(c, r, k)
           \/ \E c \in Clients : ClientStep(c)
    PROVE  UNCHANGED <<spawned, status, closed>> /\ [Next]_vars
<1>1. [Next]_vars
  BY DEF Next
<1>2. QED
  BY <1>1 DEF ClientStep, BeginCall, Enqueue, SendOnClosed, GetReply, SeeDone, TimeOut, actorVars

LEMMA IdleRuntime ==
    ASSUME UNCHANGED vars
    PROVE  UNCHANGED <<spawned, status, closed>> /\ [Next]_vars
  BY DEF vars, actorVars

-----------------------------------------------------------------------------
(* Each kind of step keeps the first invariant.                             *)

\* The runtime, the clock or what scripts know moves on.
LEMMA QuietInv ==
    ASSUME TeamInv, RuntimeInv', spawned' = spawned,
           UNCHANGED <<setup, listVars, starts, stopped, lockVars>>,
           now' \in Nat, known' \subseteq Ref, faulted' \in BOOLEAN,
           \A r \in Ref : \/ status'[r] = status[r] \/ op[r] = "none"
                         \/ status[r] \notin {"busy", "crashed"}
    PROVE  TeamInv'
<1> USE DEF TeamInv
<1>1. UNCHANGED <<children, childNames, unnamed, op, holder, job>> /\ Slots' = Slots
  BY DEF listVars, lockVars, Slots
<1>2. SupTypeOK'
  BY <1>1 DEF SupTypeOK, RuntimeInv
<1>3. ChildrenFit' /\ JobFits'
  BY <1>1 DEF ChildrenFit, JobFits
<1>4. OpsFit'
  BY <1>1 DEF OpsFit
<1>5. QED
  BY <1>2, <1>3, <1>4

\* Process p enters a method or leaves one, and nobody moves a child.
LEMMA OpInv ==
    ASSUME TeamInv, RuntimeInv', UNCHANGED <<spawned, status, children, unnamed, childNames>>,
           UNCHANGED <<setup, starts, now, holder, job, faulted>>, known' \subseteq Ref,
           stopped' \in BOOLEAN, job.mode # "none" => stopped' = stopped,
           NEW p \in Proc, NEW o \in Ops \cup {"none"}, op' = [op EXCEPT ![p] = o],
           p # holder, op[p] # "naming", p \in Ref /\ o # "none" => status[p] = "busy"
    PROVE  TeamInv'
<1> USE DEF TeamInv
<1>1. Slots' = Slots
  BY DEF Slots
<1>2. /\ op \in [Proc -> Ops \cup {"none", "crash", "naming"}]
      /\ op'[p] = o /\ \A q \in Proc \ {p} : op'[q] = op[q]
  BY DEF SupTypeOK
<1>3. SupTypeOK'
  BY <1>2 DEF SupTypeOK, RuntimeInv
<1>4. ChildrenFit'
  BY <1>1 DEF ChildrenFit
<1>5. JobFits'
  <2>1. job.mode # "none" => op'[holder] = op[holder]
    BY <1>2 DEF JobFits
  <2>2. QED
    BY <1>1, <2>1 DEF JobFits, SupTypeOK, Job
<1>6. OpsFit'
  <2>1. o # "crash" /\ unnamed \subseteq Proc \X Names
    BY DEF Ops, SupTypeOK
  <2>2. \A u \in unnamed : op'[u[1]] = "naming"
    BY <1>2, <2>1 DEF OpsFit
  <2>3. QED
    BY <1>2, <2>1, <2>2, ProcIsWhole DEF OpsFit
<1>7. QED
  BY <1>3, <1>4, <1>5, <1>6

\* Process p, which has the mutex, sets out to deal with children first..last.
LEMMA WorksInv ==
    ASSUME TeamInv, RuntimeInv', UNCHANGED <<spawned, status, unnamed, childNames>>,
           UNCHANGED <<setup, starts, now, known, faulted>>, holder = NoOne,
           NEW p \in Proc, NEW m \in {"restart", "stop", "remove"},
           NEW first \in Nat, NEW last \in Nat, Works(p, m, first, last), first <= last,
           1 <= first, last <= Len(children), stopped' \in BOOLEAN,
           children' \in Seq(Child), Len(children') = Len(children),
           \A i \in Slots : children'[i].ref = children[i].ref,
           m = "restart" => p \in Ref /\ op[p] = "crash" /\ ~stopped',
           m = "remove" => op[p] = "remove" /\ first = last,
           m = "stop" => op[p] \in {"stop", "crash"} /\ stopped' /\ last = Len(children)
    PROVE  TeamInv'
<1> USE DEF TeamInv
<1>1. Slots' = Slots /\ Slots = 1..Len(children) /\ Len(children) \in Nat
  BY ChildType DEF Slots
<1>2. /\ holder' = p /\ op' = op
      /\ job' = [mode |-> m, at |-> first, last |-> last, closing |-> FALSE]
  BY DEF Works
<1>3. SupTypeOK'
  BY <1>2 DEF SupTypeOK, RuntimeInv, Job
<1>4. ChildrenFit'
  BY <1>1 DEF ChildrenFit
<1>5. JobFits'
  BY <1>1, <1>2 DEF JobFits
<1>6. OpsFit'
  BY <1>2 DEF OpsFit
<1>7. QED
  BY <1>3, <1>4, <1>5, <1>6

\* What becomes of the mutex once a child is dealt with.
LEMMA NextChildDoes ==
    ASSUME TeamInv, job.mode # "none", NextChild
    PROVE  /\ holder \in Proc /\ job.at \in Slots /\ job.last \in job.at..Len(children)
           /\ job' \in Job /\ holder' \in Proc \cup {NoOne}
           /\ op' \in [Proc -> Ops \cup {"none", "crash", "naming"}]
           /\ job'.closing = FALSE
           /\ \/ /\ job.at < job.last /\ op' = op /\ holder' = holder
                 /\ job'.mode = job.mode /\ job'.at = job.at + 1 /\ job'.last = job.last
              \/ /\ job.at = job.last /\ job' = NoJob /\ job'.mode = "none" /\ holder' = NoOne
                 /\ op'[holder] = "none" /\ \A q \in Proc \ {holder} : op'[q] = op[q]
<1>1. /\ holder \in Proc /\ job.at \in Slots /\ job.last \in job.at..Len(children)
      /\ job \in Job /\ op \in [Proc -> Ops \cup {"none", "crash", "naming"}]
      /\ holder \in Proc \cup {NoOne} /\ Len(children) \in Nat /\ Slots = 1..Len(children)
  BY ChildType DEF TeamInv, JobFits, SupTypeOK
<1>2. CASE job.at < job.last
  <2>1. /\ job' = [job EXCEPT !.at = @ + 1, !.closing = FALSE]
        /\ op' = op /\ holder' = holder
    BY <1>2 DEF NextChild
  <2>2. /\ job.mode \in {"none", "restart", "stop", "remove"}
        /\ job.at \in Nat /\ job.last \in Nat
        /\ job = [mode |-> job.mode, at |-> job.at, last |-> job.last, closing |-> job.closing]
    BY <1>1 DEF Job
  <2>3. job' = [mode |-> job.mode, at |-> job.at + 1, last |-> job.last, closing |-> FALSE]
    BY <2>1, <2>2
  <2>4. /\ job' \in Job /\ job'.closing = FALSE
        /\ job'.mode = job.mode /\ job'.at = job.at + 1 /\ job'.last = job.last
    BY <2>2, <2>3 DEF Job
  <2>5. QED
    BY <1>1, <1>2, <2>1, <2>4
<1>3. CASE ~(job.at < job.last)
  <2>1. job' = NoJob /\ holder' = NoOne /\ op' = [op EXCEPT ![holder] = "none"]
    BY <1>3 DEF NextChild
  <2>2. job.at = job.last
    BY <1>1, <1>3
  <2>3. NoJob \in Job /\ NoJob.mode = "none" /\ NoJob.closing = FALSE
    BY DEF NoJob, Job
  <2>4. QED
    BY <1>1, <2>1, <2>2, <2>3
<1>4. QED
  BY <1>2, <1>3

\* A child is dealt with, whatever became of the list.
LEMMA NextChildInv ==
    ASSUME TeamInv, RuntimeInv', job.mode # "none", NextChild,
           UNCHANGED <<setup, childNames, unnamed, starts, stopped, now, known, faulted>>,
           children' \in Seq(Child), ChildrenFit',
           job.at < job.last => Len(children') = Len(children),
           \A r \in Ref : status[r] # "unborn" => status'[r] = status[r]
    PROVE  TeamInv'
<1> USE DEF TeamInv
<1>1. /\ holder \in Proc /\ job.at \in Slots /\ job.last \in job.at..Len(children)
      /\ job' \in Job /\ holder' \in Proc \cup {NoOne}
      /\ op' \in [Proc -> Ops \cup {"none", "crash", "naming"}]
      /\ \/ /\ job.at < job.last /\ op' = op /\ holder' = holder
            /\ job'.mode = job.mode /\ job'.at = job.at + 1 /\ job'.last = job.last
         \/ /\ job.at = job.last /\ job' = NoJob /\ job'.mode = "none" /\ holder' = NoOne
            /\ op'[holder] = "none" /\ \A q \in Proc \ {holder} : op'[q] = op[q]
  BY NextChildDoes
<1>2. /\ Len(children) \in Nat /\ Slots = 1..Len(children) /\ job \in Job
      /\ Slots' = 1..Len(children')
  BY ChildType DEF SupTypeOK, Slots
<1>3. SupTypeOK'
  BY <1>1 DEF SupTypeOK, RuntimeInv
<1>4. JobFits'
  <2>1. CASE job.at < job.last
    <3>1. job.at + 1 \in 1..Len(children) /\ job.last \in job.at + 1..Len(children)
      BY <1>1, <1>2, <2>1 DEF Job
    <3>2. QED
      BY <1>1, <1>2, <2>1, <3>1 DEF JobFits
  <2>2. CASE job.at = job.last
    BY <1>1, <2>2 DEF JobFits
  <2>3. QED
    BY <1>1, <2>1, <2>2
<1>5. OpsFit'
  <2>1. op[holder] # "naming"
    BY DEF JobFits, SupTypeOK, Job
  <2>2. \A u \in unnamed : u[1] \in Proc /\ op'[u[1]] = "naming"
    BY <1>1, <2>1 DEF OpsFit, SupTypeOK
  <2>3. \A q \in Proc : op'[q] = op[q] \/ op'[q] = "none"
    BY <1>1
  <2>4. QED
    BY <1>1, <2>2, <2>3, ProcIsWhole DEF OpsFit
<1>6. QED
  BY <1>3, <1>4, <1>5

-----------------------------------------------------------------------------
(* What the steps that spawn, close or crash do to the list.                *)

\* A critical section begins: the mutex was free.
LEMMA EntersDoes ==
    ASSUME TeamInv, NEW p \in Proc, NEW o, Enters(p, o)
    PROVE  holder = NoOne /\ op[p] = o /\ job.mode = "none" /\ job = NoJob /\ p # holder
<1>1. holder = NoOne /\ op[p] = o /\ p # holder
  BY ProcIsWhole DEF Enters
<1>2. job.mode = "none"
  BY <1>1, ProcIsWhole DEF TeamInv, JobFits
<1>3. QED
  BY <1>1, <1>2 DEF TeamInv, JobFits

LEMMA StartDoes ==
    ASSUME TeamInv, NEW p \in Proc, Start(p)
    PROVE  /\ [Next]_vars
           /\ holder = NoOne /\ op[p] = "start" /\ job = NoJob
           /\ spawned \in Nat /\ spawned' = spawned + Len(children) /\ spawned' <= MaxRefs
           /\ \A r \in Ref : IF r \in spawned + 1..spawned'
                             THEN status[r] = "unborn" /\ status'[r] = "idle"
                             ELSE status'[r] = status[r]
           /\ closed' = closed
           /\ children' \in Seq(Child) /\ Len(children') = Len(children) /\ Slots' = Slots
           /\ \A i \in Slots : children'[i].ref = spawned + i /\ SameChild(children'[i], children[i])
           /\ op' = [op EXCEPT ![p] = "none"] /\ UNCHANGED <<holder, job>>
           /\ starts' = starts + 1
           /\ UNCHANGED <<setup, childNames, unnamed, stopped, now, known, faulted>>
<1>1. /\ holder = NoOne /\ op[p] = "start" /\ job = NoJob /\ SpawnActors(Len(children))
      /\ children' = [i \in Slots |-> [children[i] EXCEPT !.ref = spawned + i]]
      /\ op' = [op EXCEPT ![p] = "none"] /\ UNCHANGED <<holder, job>> /\ starts' = starts + 1
      /\ UNCHANGED <<setup, childNames, unnamed, stopped, now, known, faulted>>
  BY EntersDoes DEF Start, Leaves
<1>2. /\ Len(children) \in Nat /\ Slots = 1..Len(children)
      /\ \A i \in Slots : children[i] \in Child
  BY ChildType DEF TeamInv
<1>3. /\ spawned \in Nat /\ spawned' = spawned + Len(children) /\ spawned' <= MaxRefs
      /\ \A r \in Ref : IF r \in spawned + 1..spawned'
                        THEN status[r] = "unborn" /\ status'[r] = "idle"
                        ELSE status'[r] = status[r]
      /\ closed' = closed /\ [Next]_vars
  BY <1>1, <1>2, SpawnDoes DEF TeamInv
<1>4. ASSUME NEW i \in Slots
      PROVE  /\ children'[i] \in Child /\ children'[i].ref = spawned + i
             /\ SameChild(children'[i], children[i])
  <2>1. spawned + i \in 0..MaxRefs /\ children[i] \in Child
    BY <1>2, <1>3, RuntimeAssumption
  <2>2. children'[i] = [children[i] EXCEPT !.ref = spawned + i]
    BY <1>1
  <2>3. QED
    BY <2>1, <2>2, WithRef
<1>5. children' = [i \in 1..Len(children) |-> children'[i]]
  BY <1>1, <1>2
<1>6. children' \in Seq(Child) /\ Len(children') = Len(children)
  BY <1>2, <1>4, <1>5
<1>7. QED
  BY <1>1, <1>2, <1>3, <1>4, <1>6 DEF Slots

LEMMA AddChildDoes ==
    ASSUME TeamInv, NEW p \in Proc, NEW n \in Names, AddChild(p, n)
    PROVE  /\ [Next]_vars
           /\ holder = NoOne /\ op[p] = "add" /\ job = NoJob
           /\ spawned \in Nat /\ spawned' = spawned + 1 /\ spawned' <= MaxRefs
           /\ \A r \in Ref : IF r = spawned + 1
                             THEN status[r] = "unborn" /\ status'[r] = "idle"
                             ELSE status'[r] = status[r]
           /\ closed' = closed
           /\ children' \in Seq(Child) /\ Len(children) \in Nat /\ Slots = 1..Len(children)
           /\ Len(children') = Len(children) + 1 /\ Slots' = 1..Len(children) + 1
           /\ \A i \in Slots : children'[i] = children[i]
           /\ children'[Len(children) + 1].ref = spawned + 1
           /\ children'[Len(children) + 1].crashTimes = {}
           /\ children'[Len(children) + 1].panics = {}
           /\ op' = [op EXCEPT ![p] = "naming"] /\ unnamed' = unnamed \cup {<<p, n>>}
           /\ known' = known \cup {spawned + 1}
           /\ UNCHANGED <<setup, childNames, starts, stopped, now, holder, job, faulted>>
<1> DEFINE new == [name |-> n, ref |-> spawned + 1, crashTimes |-> {}, panics |-> {}]
<1>1. /\ holder = NoOne /\ op[p] = "add" /\ job = NoJob /\ SpawnActors(1)
      /\ children' = Append(children, new)
      /\ op' = [op EXCEPT ![p] = "naming"] /\ unnamed' = unnamed \cup {<<p, n>>}
      /\ known' = known \cup {spawned + 1}
      /\ UNCHANGED <<setup, childNames, starts, stopped, now, holder, job, faulted>>
  BY EntersDoes DEF AddChild
<1>2. /\ spawned \in Nat /\ spawned' = spawned + 1 /\ spawned' <= MaxRefs
      /\ \A r \in Ref : IF r = spawned + 1
                        THEN status[r] = "unborn" /\ status'[r] = "idle"
                        ELSE status'[r] = status[r]
      /\ closed' = closed /\ [Next]_vars
  BY <1>1, SpawnDoes DEF TeamInv
<1>3. /\ new \in Child
      /\ new.ref = spawned + 1 /\ new.crashTimes = {} /\ new.panics = {}
  BY <1>2, RuntimeAssumption DEF Child
<1>4. children \in Seq(Child) /\ Len(children) \in Nat /\ Slots = 1..Len(children)
  BY ChildType DEF TeamInv, SupTypeOK
<1> HIDE DEF new
<1>5. /\ children' \in Seq(Child) /\ Len(children') = Len(children) + 1
      /\ \A i \in Slots : children'[i] = children[i]
      /\ children'[Len(children) + 1] = new
  BY <1>1, <1>3, <1>4, AppendProperties
<1>6. QED
  BY <1>1, <1>2, <1>3, <1>4, <1>5 DEF Slots

\* A child of a job has ended and is dealt with.
LEMMA SettlesDoes ==
    ASSUME TeamInv, NEW m \in {"restart", "stop", "remove"}, Settles(m)
    PROVE  /\ job.mode = m /\ job.at \in Slots /\ job.last \in job.at..Len(children)
           /\ Subject \in Ref /\ Subject \in Spawned /\ Done(Subject)
<1>1. job.mode = m /\ job.at \in Slots /\ job.last \in job.at..Len(children)
  BY DEF Settles, TeamInv, JobFits
<1>2. Subject \in 0..MaxRefs /\ Subject # 0 /\ Subject <= spawned /\ Done(Subject)
  BY <1>1, ChildType DEF Settles, TeamInv, ChildrenFit, Subject
<1>3. QED
  BY <1>1, <1>2, RuntimeAssumption DEF Ref, Spawned, TeamInv, RuntimeInv, TypeOK

LEMMA RespawnDoes ==
    ASSUME TeamInv, RespawnChild
    PROVE  /\ [Next]_vars
           /\ job.mode = "restart" /\ job.at \in Slots /\ Done(Subject) /\ Subject \in Spawned
           /\ spawned \in Nat /\ spawned' = spawned + 1 /\ spawned' <= MaxRefs
           /\ \A r \in Ref : IF r = spawned + 1
                             THEN status[r] = "unborn" /\ status'[r] = "idle"
                             ELSE status'[r] = status[r]
           /\ closed' = closed
           /\ children' \in Seq(Child) /\ Len(children') = Len(children) /\ Slots' = Slots
           /\ \A i \in Slots \ {job.at} : children'[i] = children[i]
           /\ children'[job.at].ref = spawned + 1
           /\ SameChild(children'[job.at], children[job.at])
           /\ NextChild
           /\ UNCHANGED <<setup, childNames, unnamed, starts, stopped, now, known, faulted>>
<1>1. /\ job.mode = "restart" /\ job.at \in Slots /\ Done(Subject) /\ Subject \in Spawned
      /\ SpawnActors(1)
      /\ children' = [children EXCEPT ![job.at].ref = spawned + 1]
      /\ NextChild
      /\ UNCHANGED <<setup, childNames, unnamed, starts, stopped, now, known, faulted>>
  BY SettlesDoes DEF RespawnChild
<1>2. /\ spawned \in Nat /\ spawned' = spawned + 1 /\ spawned' <= MaxRefs
      /\ \A r \in Ref : IF r = spawned + 1
                        THEN status[r] = "unborn" /\ status'[r] = "idle"
                        ELSE status'[r] = status[r]
      /\ closed' = closed /\ [Next]_vars
  BY <1>1, SpawnDoes DEF TeamInv
<1>3. children \in Seq(Child) /\ Slots = 1..Len(children) /\ children[job.at] \in Child
  BY <1>1, ChildType DEF TeamInv, SupTypeOK
<1> DEFINE new == [children[job.at] EXCEPT !.ref = spawned + 1]
<1>4. new \in Child /\ new.ref = spawned + 1 /\ SameChild(new, children[job.at])
  BY <1>2, <1>3, WithRef, RuntimeAssumption
<1>5. children' = [children EXCEPT ![job.at] = new]
  BY <1>1
<1> HIDE DEF new
<1>6. /\ children' \in Seq(Child) /\ Len(children') = Len(children)
      /\ \A i \in Slots \ {job.at} : children'[i] = children[i]
      /\ children'[job.at] = new
  BY <1>1, <1>3, <1>4, <1>5, ExceptSeq
<1>7. QED
  BY <1>1, <1>2, <1>4, <1>6 DEF Slots

LEMMA DropDoes ==
    ASSUME TeamInv, DropChild
    PROVE  /\ UNCHANGED vars
           /\ job.mode = "remove" /\ job.at \in Slots /\ job.at = job.last
           /\ Done(Subject) /\ Subject \in Spawned
           /\ children' \in Seq(Child) /\ Len(children) \in Nat /\ Slots = 1..Len(children)
           /\ Len(children') = Len(children) - 1 /\ Slots' = 1..Len(children) - 1
           /\ \A i \in Slots' : /\ i < job.at => children'[i] = children[i]
                                /\ i >= job.at => children'[i] = children[i + 1]
           /\ NextChild
           /\ UNCHANGED <<setup, childNames, unnamed, starts, stopped, now, known, faulted>>
<1>1. /\ job.mode = "remove" /\ job.at \in Slots /\ Done(Subject) /\ Subject \in Spawned
      /\ children' = [i \in 1..(Len(children) - 1) |->
                        IF i < job.at THEN children[i] ELSE children[i + 1]]
      /\ NextChild /\ UNCHANGED vars
      /\ UNCHANGED <<setup, childNames, unnamed, starts, stopped, now, known, faulted>>
  BY SettlesDoes DEF DropChild
<1>2. job.at = job.last
  BY <1>1 DEF TeamInv, JobFits
<1>3. /\ Len(children) \in Nat /\ Slots = 1..Len(children) /\ Len(children) - 1 \in Nat
      /\ \A i \in Slots : children[i] \in Child
  BY <1>1, ChildType DEF TeamInv
<1>4. \A i \in 1..Len(children) - 1 :
         /\ i < job.at => children'[i] = children[i]
         /\ i >= job.at => children'[i] = children[i + 1]
         /\ children'[i] \in Child
  BY <1>1, <1>3
<1>5. children' = [i \in 1..(Len(children) - 1) |-> children'[i]]
  BY <1>1
<1>6. children' \in Seq(Child) /\ Len(children') = Len(children) - 1
  BY <1>3, <1>4, <1>5
<1>7. QED
  BY <1>1, <1>2, <1>3, <1>4, <1>6 DEF Slots

LEMMA PanicDoes ==
    ASSUME TeamInv, NEW r \in Ref, SupPanic(r)
    PROVE  /\ [Next]_vars
           /\ spawned' = spawned /\ closed' = closed
           /\ \A q \in Ref \ {r} : status'[q] = status[q]
           /\ status[r] = "busy" /\ status'[r] = "crashed"
           /\ op[r] = "none" /\ op' = [op EXCEPT ![r] = "crash"]
           /\ children' \in Seq(Child) /\ Len(children') = Len(children) /\ Slots' = Slots
           /\ \A i \in Slots :
                 /\ children'[i].ref = children[i].ref /\ children'[i].name = children[i].name
                 /\ children'[i].crashTimes = children[i].crashTimes
                 /\ children'[i].panics = children[i].panics \cup
                       (IF children[i].ref = r THEN {<<r, now>>} ELSE {})
           /\ UNCHANGED <<setup, childNames, unnamed, starts, stopped, now, holder, job, known, faulted>>
<1>1. /\ op[r] = "none" /\ op' = [op EXCEPT ![r] = "crash"]
      /\ children' = [i \in Slots |->
            IF children[i].ref = r
            THEN [children[i] EXCEPT !.panics = @ \cup {<<r, now>>}]
            ELSE children[i]]
      /\ UNCHANGED <<setup, childNames, unnamed, starts, stopped, now, holder, job, known, faulted>>
      /\ ActorStep(r) /\ Panic(r)
  BY DEF SupPanic, ActorStep
<1>2. /\ spawned' = spawned /\ closed' = closed /\ [Next]_vars
      /\ \A q \in Ref \ {r} : status'[q] = status[q]
      /\ status[r] = "busy" /\ status'[r] = "crashed"
  <2>1. status[r] = "busy" /\ status'[r] = "crashed"
    BY <1>1 DEF Panic, TeamInv, RuntimeInv, TypeOK
  <2>2. QED
    BY <1>1, <2>1, ActorDoes DEF TeamInv
<1>3. /\ Len(children) \in Nat /\ Slots = 1..Len(children)
      /\ \A i \in Slots : children[i] \in Child
  BY ChildType DEF TeamInv
<1>4. ASSUME NEW i \in Slots
      PROVE  /\ children'[i] \in Child
             /\ children'[i].ref = children[i].ref /\ children'[i].name = children[i].name
             /\ children'[i].crashTimes = children[i].crashTimes
             /\ children'[i].panics = children[i].panics \cup
                   (IF children[i].ref = r THEN {<<r, now>>} ELSE {})
  <2>1. now \in Nat /\ <<r, now>> \in Event
    BY DEF TeamInv, SupTypeOK, Event
  <2>2. children[i] \in Child
    BY <1>3
  <2>3. CASE children[i].ref = r
    <3> DEFINE c == children[i]
    <3>1. children'[i] = [c EXCEPT !.panics = c.panics \cup {<<r, now>>}]
      BY <1>1, <2>3
    <3>2. c \in Child
      BY <2>2
    <3> HIDE DEF c
    <3>3. /\ children'[i] \in Child
          /\ children'[i].ref = c.ref /\ children'[i].name = c.name
          /\ children'[i].crashTimes = c.crashTimes /\ children'[i].panics = c.panics \cup {<<r, now>>}
      BY <2>1, <3>1, <3>2 DEF Child
    <3>4. QED
      BY <2>3, <3>3 DEF c
  <2>4. CASE children[i].ref # r
    BY <1>1, <2>2, <2>4
  <2>5. QED
    BY <2>3, <2>4
<1>5. children' = [i \in 1..Len(children) |-> children'[i]]
  BY <1>1, <1>3
<1>6. children' \in Seq(Child) /\ Len(children') = Len(children)
  BY <1>3, <1>4, <1>5
<1>7. QED
  BY <1>1, <1>2, <1>3, <1>4, <1>6 DEF Slots

LEMMA CloseChildDoes ==
    ASSUME TeamInv, CloseChild
    PROVE  /\ [Next]_vars
           /\ spawned' = spawned /\ status' = status /\ Subject \in Ref /\ ~closed[Subject]
           /\ \A q \in Ref : closed'[q] <=> closed[q] \/ q = Subject
           /\ job.mode # "none" /\ job.at \in Slots /\ job' \in Job
           /\ job'.closing = TRUE /\ job'.mode = job.mode
           /\ job'.at = job.at /\ job'.last = job.last
           /\ UNCHANGED <<setup, listVars, starts, stopped, now, op, holder, known, faulted>>
<1>1. /\ job.mode # "none" /\ Subject # 0 /\ CloseMailbox(Subject)
      /\ job' = [job EXCEPT !.closing = TRUE]
      /\ UNCHANGED <<setup, listVars, starts, stopped, now, op, holder, known, faulted>>
  BY DEF CloseChild
<1>2. job.at \in Slots /\ Subject <= spawned /\ Subject \in 0..MaxRefs
  BY <1>1, ChildType DEF TeamInv, JobFits, ChildrenFit, Subject
<1>3. Subject \in Spawned
  BY <1>1, <1>2 DEF Spawned, TeamInv, RuntimeInv, TypeOK
<1>4. job' \in Job /\ job'.closing = TRUE /\ job'.mode = job.mode
      /\ job'.at = job.at /\ job'.last = job.last
  BY <1>1 DEF TeamInv, SupTypeOK, Job
<1>5. QED
  BY <1>1, <1>2, <1>3, <1>4, CloseDoes DEF TeamInv

\* The crashes of child i that handleCrash counts.
InWindow(r, i) == Recent(children[i].crashTimes \cup {<<r, now>>}, now)

\* handleCrash gives the team up, or restarts what the strategy names.
GivesUp(r, i) ==
    /\ Cardinality(InWindow(r, i)) > setup.maxRestarts
    /\ stopped' = TRUE
    /\ Works(r, "stop", 1, Len(children))

Restarts(r, i) ==
    /\ ~(Cardinality(InWindow(r, i)) > setup.maxRestarts)
    /\ stopped' = stopped
    /\ Works(r, "restart", FirstAffected(i), LastAffected(i))

LEMMA HandleCrashDoes ==
    ASSUME TeamInv, NEW r \in Ref, NEW i \in Slots, HandleCrash(r, i)
    PROVE  /\ UNCHANGED vars
           /\ holder = NoOne /\ op[r] = "crash" /\ ~stopped /\ job = NoJob
           /\ children[i].ref = r /\ status[r] = "crashed"
           /\ children' \in Seq(Child) /\ Len(children') = Len(children) /\ Slots' = Slots
           /\ \A j \in Slots \ {i} : children'[j] = children[j]
           /\ children'[i].name = children[i].name /\ children'[i].ref = r
           /\ children'[i].crashTimes = InWindow(r, i)
           /\ children'[i].panics = children[i].panics
           /\ GivesUp(r, i) \/ Restarts(r, i)
           /\ UNCHANGED <<setup, childNames, unnamed, starts, now, known, faulted>>
<1>1. /\ UNCHANGED vars
      /\ Enters(r, "crash") /\ ~stopped /\ children[i].ref = r
      /\ children' = [children EXCEPT ![i].crashTimes = InWindow(r, i)]
      /\ GivesUp(r, i) \/ Restarts(r, i)
      /\ UNCHANGED <<setup, childNames, unnamed, starts, now, known, faulted>>
  BY DEF HandleCrash, InWindow, GivesUp, Restarts
<1>2. holder = NoOne /\ op[r] = "crash" /\ job = NoJob /\ status[r] = "crashed"
  BY <1>1, EntersDoes, ProcIsWhole DEF TeamInv, OpsFit
<1>3. children \in Seq(Child) /\ Slots = 1..Len(children) /\ children[i] \in Child
  BY ChildType DEF TeamInv, SupTypeOK
<1>4. InWindow(r, i) \subseteq Event
  BY <1>3, ChildType DEF InWindow, Recent, Event, TeamInv, SupTypeOK
<1> DEFINE c == children[i]
           new == [c EXCEPT !.crashTimes = InWindow(r, i)]
<1>5. c \in Child /\ c.ref = r
  BY <1>1, <1>3
<1>6. children' = [children EXCEPT ![i] = new]
  BY <1>1
<1> HIDE DEF c
<1>7. /\ new \in Child /\ new.name = c.name /\ new.ref = c.ref
      /\ new.crashTimes = InWindow(r, i) /\ new.panics = c.panics
  BY <1>4, <1>5 DEF Child
<1> HIDE DEF new
<1>8. /\ children' \in Seq(Child) /\ Len(children') = Len(children)
      /\ \A j \in Slots \ {i} : children'[j] = children[j]
      /\ children'[i] = new
  BY <1>3, <1>6, <1>7, ExceptSeq
<1>9. QED
  BY <1>1, <1>2, <1>3, <1>5, <1>7, <1>8 DEF Slots, c

\* The children the strategy names are listed ones, the crashed one among them.
LEMMA AffectedFit ==
    ASSUME TeamInv, NEW i \in Slots
    PROVE  /\ FirstAffected(i) \in 1..i /\ LastAffected(i) \in i..Len(children)
           /\ setup.strategy = "one_for_one" => FirstAffected(i) = i /\ LastAffected(i) = i
<1>1. Len(children) \in Nat /\ Slots = 1..Len(children)
  BY ChildType DEF TeamInv
<1>2. QED
  BY <1>1 DEF FirstAffected, LastAffected

-----------------------------------------------------------------------------
(* Every step keeps the first invariant.                                    *)

LEMMA StartInv ==
    ASSUME TeamInv, RuntimeInv', NEW p \in Proc, Start(p)
    PROVE  TeamInv'
<1> USE DEF TeamInv
<1>1. /\ holder = NoOne /\ op[p] = "start" /\ job = NoJob
      /\ spawned \in Nat /\ spawned' = spawned + Len(children)
      /\ \A r \in Ref : status[r] # "unborn" => status'[r] = status[r]
      /\ children' \in Seq(Child) /\ Slots' = Slots
      /\ \A i \in Slots : children'[i].ref = spawned + i
      /\ op' = [op EXCEPT ![p] = "none"] /\ UNCHANGED <<holder, job>>
      /\ starts' = starts + 1
      /\ UNCHANGED <<setup, childNames, unnamed, stopped, now, known, faulted>>
  BY StartDoes
<1>2. Len(children) \in Nat /\ Slots = 1..Len(children)
  BY ChildType
<1>3. /\ op' \in [Proc -> Ops \cup {"none", "crash", "naming"}]
      /\ op'[p] = "none" /\ \A q \in Proc \ {p} : op'[q] = op[q]
  BY <1>1 DEF SupTypeOK
<1>4. SupTypeOK'
  BY <1>1, <1>3 DEF SupTypeOK, RuntimeInv
<1>5. ChildrenFit'
  BY <1>1, <1>2 DEF ChildrenFit
<1>6. OpsFit'
  <2>1. \A u \in unnamed : u[1] \in Proc /\ op'[u[1]] = "naming"
    BY <1>1, <1>3 DEF OpsFit, SupTypeOK
  <2>2. QED
    BY <1>1, <1>3, <2>1, ProcIsWhole DEF OpsFit
<1>7. JobFits'
  BY <1>1 DEF JobFits, NoJob
<1>8. QED
  BY <1>4, <1>5, <1>6, <1>7

LEMMA StopInv ==
    ASSUME TeamInv, RuntimeInv', NEW p \in Proc, Stop(p)
    PROVE  TeamInv'
<1>1. /\ holder = NoOne /\ op[p] = "stop" /\ job.mode = "none" /\ p # holder
      /\ stopped' = TRUE /\ Works(p, "stop", 1, Len(children))
      /\ UNCHANGED <<setup, vars, listVars, starts, now, known, faulted>>
  BY EntersDoes DEF Stop
<1>2. UNCHANGED <<spawned, status, children, childNames, unnamed>>
  BY <1>1 DEF vars, actorVars, listVars
<1>3. Len(children) \in Nat /\ children \in Seq(Child) /\ known \subseteq Ref
  BY ChildType DEF TeamInv, SupTypeOK
<1>4. CASE 1 <= Len(children)
  BY <1>1, <1>2, <1>3, <1>4, WorksInv
<1>5. CASE ~(1 <= Len(children))
  <2>1. op' = [op EXCEPT ![p] = "none"] /\ UNCHANGED <<holder, job>>
    BY <1>1, <1>5 DEF Works, Leaves
  <2>2. QED
    BY <1>1, <1>2, <1>3, <2>1, OpInv
<1>6. QED
  BY <1>4, <1>5

LEMMA ChildrenInv ==
    ASSUME TeamInv, RuntimeInv', NEW p \in Proc, Children(p)
    PROVE  TeamInv'
<1>1. /\ holder = NoOne /\ op[p] = "children" /\ job.mode = "none" /\ p # holder
      /\ known' = known \cup {e[2] : e \in Listing}
      /\ op' = [op EXCEPT ![p] = "none"] /\ UNCHANGED <<holder, job>>
      /\ UNCHANGED <<setup, vars, listVars, starts, stopped, now, faulted>>
  BY EntersDoes DEF Children, Leaves
<1>2. UNCHANGED <<spawned, status, children, childNames, unnamed>>
  BY <1>1 DEF vars, actorVars, listVars
<1>3. known' \subseteq Ref
  <2>1. \A i \in Slots : children[i].ref # 0 => children[i].ref \in Ref
    BY ChildType DEF TeamInv, Ref
  <2>2. \A e \in Listing : e[2] \in Ref
    BY <2>1 DEF Listing
  <2>3. QED
    BY <1>1, <2>2 DEF TeamInv, SupTypeOK
<1>4. stopped \in BOOLEAN
  BY DEF TeamInv, SupTypeOK
<1>5. QED
  BY <1>1, <1>2, <1>3, <1>4, OpInv

LEMMA AddChildInv ==
    ASSUME TeamInv, RuntimeInv', NEW p \in Proc, NEW n \in Names, AddChild(p, n)
    PROVE  TeamInv'
<1> USE DEF TeamInv
<1>1. /\ holder = NoOne /\ op[p] = "add" /\ job = NoJob
      /\ spawned \in Nat /\ spawned' = spawned + 1 /\ spawned' <= MaxRefs
      /\ \A r \in Ref : status[r] # "unborn" => status'[r] = status[r]
      /\ children' \in Seq(Child) /\ Len(children) \in Nat /\ Slots = 1..Len(children)
      /\ Slots' = 1..Len(children) + 1
      /\ \A i \in Slots : children'[i].ref = children[i].ref
      /\ children'[Len(children) + 1].ref = spawned + 1
      /\ op' = [op EXCEPT ![p] = "naming"] /\ unnamed' = unnamed \cup {<<p, n>>}
      /\ known' = known \cup {spawned + 1}
      /\ UNCHANGED <<setup, childNames, starts, stopped, now, holder, job, faulted>>
  BY AddChildDoes
<1>2. /\ op' \in [Proc -> Ops \cup {"none", "crash", "naming"}]
      /\ op'[p] = "naming" /\ \A q \in Proc \ {p} : op'[q] = op[q]
  BY <1>1 DEF SupTypeOK
<1>3. spawned + 1 \in Ref /\ <<p, n>> \in Proc \X Names
  BY <1>1 DEF Ref
<1>4. SupTypeOK'
  BY <1>1, <1>2, <1>3 DEF SupTypeOK, RuntimeInv
<1>5. ChildrenFit'
  <2>1. \A i \in Slots : children[i].ref <= spawned /\ children[i].ref \in 0..MaxRefs
    BY ChildType DEF ChildrenFit
  <2>2. \A i \in Slots' :
           \/ i \in Slots /\ children'[i].ref = children[i].ref /\ children'[i].ref # spawned + 1
           \/ i = Len(children) + 1 /\ children'[i].ref = spawned + 1
    BY <1>1, <2>1
  <2>3. \A i \in Slots' : children'[i].ref <= spawned'
    BY <1>1, <2>1, <2>2
  <2>4. \A i, j \in Slots' : children'[i].ref = children'[j].ref /\ children'[i].ref # 0 => i = j
    BY <2>2 DEF ChildrenFit
  <2>5. QED
    BY <2>3, <2>4 DEF ChildrenFit
<1>6. OpsFit'
  <2>1. \A u \in unnamed : u[1] \in Proc /\ u[1] # p
    BY <1>1 DEF OpsFit, SupTypeOK
  <2>2. \A u \in unnamed' : op'[u[1]] = "naming"
    BY <1>1, <1>2, <2>1 DEF OpsFit
  <2>3. \A u, v \in unnamed' : u[1] = v[1] => u = v
    BY <1>1, <2>1 DEF OpsFit
  <2>4. p \in Ref => status[p] = "busy"
    BY <1>1 DEF OpsFit
  <2>5. QED
    BY <1>1, <1>2, <2>2, <2>3, <2>4, ProcIsWhole DEF OpsFit
<1>7. JobFits'
  BY <1>1 DEF JobFits, NoJob
<1>8. QED
  BY <1>4, <1>5, <1>6, <1>7

LEMMA NameChildInv ==
    ASSUME TeamInv, RuntimeInv', NEW p \in Proc, NEW n \in Names, NameChild(p, n)
    PROVE  TeamInv'
<1> USE DEF TeamInv
<1>1. /\ <<p, n>> \in unnamed
      /\ childNames' = Append(childNames, n) \/ childNames' = childNames
      /\ unnamed' = unnamed \ {<<p, n>>}
      /\ op' = [op EXCEPT ![p] = "none"]
      /\ UNCHANGED <<setup, vars, children, starts, stopped, now, holder, job, known, faulted>>
  BY DEF NameChild
<1>2. UNCHANGED <<spawned, status>> /\ Slots' = Slots
  BY <1>1 DEF vars, actorVars, Slots
<1>3. /\ op[p] = "naming" /\ op' \in [Proc -> Ops \cup {"none", "crash", "naming"}]
      /\ op'[p] = "none" /\ \A q \in Proc \ {p} : op'[q] = op[q]
  BY <1>1 DEF OpsFit, SupTypeOK
<1>4. childNames' \in Seq(Names)
  <2>1. childNames \in Seq(Names)
    BY DEF SupTypeOK
  <2>2. QED
    BY <1>1, <2>1, AppendProperties
<1>5. SupTypeOK'
  BY <1>1, <1>3, <1>4 DEF SupTypeOK, RuntimeInv
<1>6. ChildrenFit'
  BY <1>1, <1>2 DEF ChildrenFit
<1>7. OpsFit'
  <2>1. \A u \in unnamed' : u \in unnamed /\ u[1] # p /\ u[1] \in Proc
    BY <1>1 DEF OpsFit, SupTypeOK
  <2>2. QED
    BY <1>2, <1>3, <2>1, ProcIsWhole DEF OpsFit
<1>8. JobFits'
  <2>1. job.mode # "none" => holder # p
    BY <1>3 DEF JobFits, SupTypeOK, Job
  <2>2. job.mode # "none" => op'[holder] = op[holder]
    BY <1>3, <2>1 DEF JobFits
  <2>3. QED
    BY <1>1, <1>2, <2>2 DEF JobFits, SupTypeOK, Job
<1>9. QED
  BY <1>5, <1>6, <1>7, <1>8

LEMMA RemoveChildInv ==
    ASSUME TeamInv, RuntimeInv', NEW p \in Proc, NEW r \in known, RemoveChild(p, r)
    PROVE  TeamInv'
<1>1. /\ holder = NoOne /\ op[p] = "remove" /\ job.mode = "none" /\ p # holder
      /\ \/ \E i \in Slots : Works(p, "remove", i, i)
         \/ op' = [op EXCEPT ![p] = "none"] /\ UNCHANGED <<holder, job>>
      /\ UNCHANGED <<setup, vars, listVars, starts, stopped, now, known, faulted>>
  BY EntersDoes DEF RemoveChild, Leaves
<1>2. UNCHANGED <<spawned, status, children, childNames, unnamed>>
  BY <1>1 DEF vars, actorVars, listVars
<1>3. /\ Len(children) \in Nat /\ Slots = 1..Len(children)
      /\ children \in Seq(Child) /\ known \subseteq Ref /\ stopped \in BOOLEAN
  BY ChildType DEF TeamInv, SupTypeOK
<1>4. ASSUME NEW i \in Slots, Works(p, "remove", i, i) PROVE TeamInv'
  BY <1>1, <1>2, <1>3, <1>4, WorksInv
<1>5. ASSUME op' = [op EXCEPT ![p] = "none"], UNCHANGED <<holder, job>> PROVE TeamInv'
  BY <1>1, <1>2, <1>3, <1>5, OpInv
<1>6. QED
  BY <1>1, <1>4, <1>5

LEMMA IgnoreCrashInv ==
    ASSUME TeamInv, RuntimeInv', NEW r \in Ref, IgnoreCrash(r)
    PROVE  TeamInv'
<1>1. /\ holder = NoOne /\ op[r] = "crash" /\ job.mode = "none" /\ r # holder
      /\ op' = [op EXCEPT ![r] = "none"] /\ UNCHANGED <<holder, job>>
      /\ UNCHANGED <<setup, vars, listVars, starts, stopped, now, known, faulted>>
  BY EntersDoes, ProcIsWhole DEF IgnoreCrash, Leaves
<1>2. UNCHANGED <<spawned, status, children, childNames, unnamed>>
  BY <1>1 DEF vars, actorVars, listVars
<1>3. stopped \in BOOLEAN /\ known \subseteq Ref /\ r \in Proc
  BY ProcIsWhole DEF TeamInv, SupTypeOK
<1>4. QED
  BY <1>1, <1>2, <1>3, OpInv

LEMMA HandleCrashInv ==
    ASSUME TeamInv, RuntimeInv', NEW r \in Ref, NEW i \in Slots, HandleCrash(r, i)
    PROVE  TeamInv'
<1>1. /\ UNCHANGED vars
      /\ holder = NoOne /\ op[r] = "crash" /\ ~stopped
      /\ children[i].ref = r
      /\ children' \in Seq(Child) /\ Len(children') = Len(children)
      /\ \A j \in Slots \ {i} : children'[j] = children[j]
      /\ children'[i].ref = r
      /\ GivesUp(r, i) \/ Restarts(r, i)
      /\ UNCHANGED <<setup, childNames, unnamed, starts, now, known, faulted>>
  BY HandleCrashDoes
<1>2. /\ UNCHANGED <<spawned, status>> /\ r \in Proc
      /\ \A j \in Slots : children'[j].ref = children[j].ref
  BY <1>1, ProcIsWhole DEF vars, actorVars
<1>3. /\ Len(children) \in Nat /\ Slots = 1..Len(children) /\ stopped \in BOOLEAN
      /\ FirstAffected(i) \in 1..i /\ LastAffected(i) \in i..Len(children)
  BY ChildType, AffectedFit DEF TeamInv, SupTypeOK
<1>4. CASE GivesUp(r, i)
  BY <1>1, <1>2, <1>3, <1>4, WorksInv DEF GivesUp
<1>5. CASE Restarts(r, i)
  <2>1. /\ FirstAffected(i) \in Nat /\ LastAffected(i) \in Nat
        /\ FirstAffected(i) <= LastAffected(i)
        /\ 1 <= FirstAffected(i) /\ LastAffected(i) <= Len(children)
    BY <1>3
  <2>2. QED
    BY <1>1, <1>2, <1>3, <1>5, <2>1, WorksInv DEF Restarts
<1>6. QED
  BY <1>1, <1>4, <1>5

LEMMA CloseChildInv ==
    ASSUME TeamInv, RuntimeInv', CloseChild
    PROVE  TeamInv'
<1> USE DEF TeamInv
<1>1. /\ spawned' = spawned /\ status' = status
      /\ job.mode # "none" /\ job' \in Job
      /\ job'.mode = job.mode /\ job'.at = job.at /\ job'.last = job.last
      /\ UNCHANGED <<setup, listVars, starts, stopped, now, op, holder, known, faulted>>
  BY CloseChildDoes
<1>2. UNCHANGED <<children, childNames, unnamed>> /\ Slots' = Slots
  BY <1>1 DEF listVars, Slots
<1>3. SupTypeOK'
  BY <1>1, <1>2 DEF SupTypeOK, RuntimeInv
<1>4. ChildrenFit' /\ OpsFit' /\ JobFits'
  BY <1>1, <1>2 DEF ChildrenFit, OpsFit, JobFits
<1>5. QED
  BY <1>3, <1>4

LEMMA RespawnInv ==
    ASSUME TeamInv, RuntimeInv', RespawnChild
    PROVE  TeamInv'
<1>1. /\ job.mode = "restart" /\ job.at \in Slots
      /\ spawned \in Nat /\ spawned' = spawned + 1
      /\ \A r \in Ref : status[r] # "unborn" => status'[r] = status[r]
      /\ children' \in Seq(Child) /\ Len(children') = Len(children) /\ Slots' = Slots
      /\ \A i \in Slots \ {job.at} : children'[i] = children[i]
      /\ children'[job.at].ref = spawned + 1
      /\ NextChild
      /\ UNCHANGED <<setup, childNames, unnamed, starts, stopped, now, known, faulted>>
  BY RespawnDoes
<1>2. \A i \in Slots : children[i].ref <= spawned /\ children[i].ref \in Nat
  BY ChildType DEF TeamInv, ChildrenFit
<1>3. ChildrenFit'
  <2>1. \A i \in Slots : children'[i].ref <= spawned'
    BY <1>1, <1>2
  <2>2. \A i \in Slots \ {job.at} :
           children'[i].ref = children[i].ref /\ children'[i].ref # spawned + 1
    BY <1>1, <1>2
  <2>3. \A i, j \in Slots : children'[i].ref = children'[j].ref /\ children'[i].ref # 0 => i = j
    BY <1>1, <2>2 DEF TeamInv, ChildrenFit
  <2>4. QED
    BY <1>1, <2>1, <2>3 DEF ChildrenFit
<1>4. QED
  BY <1>1, <1>3, NextChildInv

LEMMA PassInv ==
    ASSUME TeamInv, RuntimeInv', PassChild
    PROVE  TeamInv'
<1>1. /\ job.mode = "stop" /\ NextChild
      /\ UNCHANGED <<setup, vars, listVars, starts, stopped, now, known, faulted>>
  BY DEF PassChild, Settles
<1>2. UNCHANGED <<spawned, status, children, childNames, unnamed>> /\ children \in Seq(Child)
  BY <1>1 DEF vars, actorVars, listVars, TeamInv, SupTypeOK
<1>3. ChildrenFit'
  BY <1>2 DEF TeamInv, ChildrenFit, Slots
<1>4. QED
  BY <1>1, <1>2, <1>3, NextChildInv

LEMMA DropInv ==
    ASSUME TeamInv, RuntimeInv', DropChild
    PROVE  TeamInv'
<1>1. /\ UNCHANGED vars
      /\ job.mode = "remove" /\ job.at \in Slots /\ job.at = job.last
      /\ children' \in Seq(Child) /\ Len(children) \in Nat /\ Slots = 1..Len(children)
      /\ Slots' = 1..Len(children) - 1
      /\ \A i \in Slots' : /\ i < job.at => children'[i] = children[i]
                           /\ i >= job.at => children'[i] = children[i + 1]
      /\ NextChild
      /\ UNCHANGED <<setup, childNames, unnamed, starts, stopped, now, known, faulted>>
  BY DropDoes
<1>2. UNCHANGED <<spawned, status>>
  BY <1>1 DEF vars, actorVars
<1>3. ChildrenFit'
  <2>1. ASSUME NEW i \in Slots'
        PROVE  \/ i < job.at /\ i \in Slots /\ children'[i] = children[i]
               \/ i >= job.at /\ i + 1 \in Slots /\ children'[i] = children[i + 1]
    BY <1>1
  <2>2. \A i \in Slots' : children'[i].ref <= spawned'
    BY <1>2, <2>1 DEF TeamInv, ChildrenFit
  <2>3. ASSUME NEW i \in Slots', NEW j \in Slots',
               children'[i].ref = children'[j].ref, children'[i].ref # 0
        PROVE  i = j
    <3>1. job.at \in Int /\ i \in Int /\ j \in Int
      BY <1>1
    <3>2. \A k, l \in Slots : children[k].ref = children[l].ref /\ children[k].ref # 0 => k = l
      BY DEF TeamInv, ChildrenFit
    <3>3. QED
      BY <2>1, <2>3, <3>1, <3>2
  <2>4. QED
    BY <2>2, <2>3 DEF ChildrenFit
<1>4. QED
  BY <1>1, <1>2, <1>3, NextChildInv

LEMMA PanicInv ==
    ASSUME TeamInv, RuntimeInv', NEW r \in Ref, SupPanic(r)
    PROVE  TeamInv'
<1> USE DEF TeamInv
<1>1. /\ spawned' = spawned
      /\ \A q \in Ref \ {r} : status'[q] = status[q]
      /\ status'[r] = "crashed"
      /\ op[r] = "none" /\ op' = [op EXCEPT ![r] = "crash"]
      /\ children' \in Seq(Child) /\ Len(children') = Len(children) /\ Slots' = Slots
      /\ \A i \in Slots : children'[i].ref = children[i].ref
      /\ UNCHANGED <<setup, childNames, unnamed, starts, stopped, now, holder, job, known, faulted>>
  BY PanicDoes
<1>2. /\ op' \in [Proc -> Ops \cup {"none", "crash", "naming"}]
      /\ op'[r] = "crash" /\ \A q \in Proc \ {r} : op'[q] = op[q]
  BY <1>1, ProcIsWhole DEF SupTypeOK
<1>3. SupTypeOK'
  BY <1>1, <1>2 DEF SupTypeOK, RuntimeInv
<1>4. ChildrenFit'
  BY <1>1 DEF ChildrenFit
<1>5. OpsFit'
  <2>1. \A u \in unnamed : u[1] \in Proc /\ u[1] # r
    BY <1>1 DEF OpsFit, SupTypeOK
  <2>2. QED
    BY <1>1, <1>2, <2>1, ProcIsWhole DEF OpsFit
<1>6. JobFits'
  <2>1. job.mode # "none" => holder # r
    BY <1>1 DEF JobFits, SupTypeOK, Job
  <2>2. job.mode # "none" => op'[holder] = op[holder]
    BY <1>2, <2>1 DEF JobFits
  <2>3. QED
    BY <1>1, <2>2 DEF JobFits, SupTypeOK, Job
<1>7. QED
  BY <1>3, <1>4, <1>5, <1>6

\* What a goroutine of an actor does that is no panic.
LEMMA SupActorDoes ==
    ASSUME TeamInv, NEW r \in Ref, SupReceive(r) \/ SupFinish(r) \/ SupExit(r)
    PROVE  /\ [Next]_vars /\ UNCHANGED <<spawned, closed>> /\ UNCHANGED supVars
           /\ \A q \in Ref \ {r} : status'[q] = status[q]
           /\ \/ status[r] = "idle" /\ status'[r] = "busy"
              \/ status[r] = "busy" /\ status'[r] = "idle" /\ op[r] = "none"
              \/ status[r] = "idle" /\ status'[r] = "exited"
<1>1. ActorStep(r) /\ UNCHANGED supVars /\ (Finish(r) => op[r] = "none")
  <2>1. SupReceive(r) \/ SupExit(r) => ~Finish(r)
    BY DEF SupReceive, SupExit, Receive, Exit, Finish
  <2>2. QED
    BY <2>1 DEF ActorStep, SupReceive, SupFinish, SupExit
<1>2. ~Panic(r)
  <2>1. status \in [Ref -> Status]
    BY DEF TeamInv, RuntimeInv, TypeOK
  <2>2. QED
    BY <2>1 DEF Panic, SupReceive, SupFinish, SupExit, Receive, Finish, Exit
<1>3. QED
  BY <1>1, <1>2, ActorDoes DEF TeamInv

LEMMA SupActorInv ==
    ASSUME TeamInv, RuntimeInv', NEW r \in Ref, SupReceive(r) \/ SupFinish(r) \/ SupExit(r)
    PROVE  TeamInv'
<1>1. /\ spawned' = spawned /\ UNCHANGED supVars
      /\ \A q \in Ref : \/ status'[q] = status[q] \/ op[q] = "none"
                        \/ status[q] \notin {"busy", "crashed"}
  BY SupActorDoes
<1>2. UNCHANGED <<setup, listVars, starts, stopped, now, lockVars, known, faulted>>
  BY <1>1 DEF supVars
<1>3. QED
  BY <1>1, <1>2, QuietInv DEF TeamInv, SupTypeOK

\* What a caller of an actor, the clock and a fault do to the supervisor.
Calls == \/ \E c \in Clients, r \in Spawned, k \in Kinds : SupBeginCall(c, r, k)
         \/ \E c \in Clients : SupClientStep(c)

LEMMA CallsDo ==
    ASSUME TeamInv, Calls
    PROVE  [Next]_vars /\ UNCHANGED <<spawned, status, closed>> /\ UNCHANGED supVars
<1>1. /\ UNCHANGED supVars
      /\ \/ \E c \in Clients, r \in Spawned, k \in Kinds : BeginCall(c, r, k)
         \/ \E c \in Clients : ClientStep(c)
  BY DEF Calls, SupBeginCall, SupClientStep
<1>2. QED
  BY <1>1, CallDoes DEF TeamInv

LEMMA CallsInv == ASSUME TeamInv, RuntimeInv', Calls PROVE TeamInv'
<1>1. UNCHANGED <<spawned, status, closed>> /\ UNCHANGED supVars
  BY CallsDo
<1>2. UNCHANGED <<setup, listVars, starts, stopped, now, lockVars, known, faulted>>
  BY <1>1 DEF supVars
<1>3. QED
  BY <1>1, <1>2, QuietInv DEF TeamInv, SupTypeOK

LEMMA TickInv == ASSUME TeamInv, RuntimeInv', Tick PROVE TeamInv'
<1>1. /\ now' = now + 1
      /\ UNCHANGED <<setup, vars, listVars, starts, stopped, lockVars, known, faulted>>
  BY DEF Tick
<1>2. UNCHANGED <<spawned, status>>
  BY <1>1 DEF vars, actorVars
<1>3. QED
  BY <1>1, <1>2, QuietInv DEF TeamInv, SupTypeOK

LEMMA FaultInv == ASSUME TeamInv, RuntimeInv', Fault PROVE TeamInv'
<1>1. faulted' = TRUE /\ UNCHANGED <<setup, vars, listVars, starts, stopped, now, lockVars, known>>
  BY DEF Fault
<1>2. UNCHANGED <<spawned, status>>
  BY <1>1 DEF vars, actorVars
<1>3. QED
  BY <1>1, <1>2, QuietInv DEF TeamInv, SupTypeOK

\* Somebody waits for the mutex.
Waits(p, o) ==
    /\ op[p] = "none" /\ o \in Ops
    /\ p \in Ref => status[p] = "busy"
    /\ InOrder(o) /\ Requests(p, o)
    /\ p \in Clients => o \in setup.clientOps
    /\ p \in Ref => o \in setup.handlerOps
    /\ UNCHANGED <<setup, vars, listVars, starts, stopped, now, holder, job, known, faulted>>

LEMMA RequestsAre ==
    ASSUME TeamInv
    PROVE  /\ \A c \in Clients, o \in setup.clientOps : ClientRequest(c, o) => Waits(c, o)
           /\ \A r \in Ref, o \in setup.handlerOps : HandlerRequest(r, o) => Waits(r, o)
<1>1. setup.clientOps \subseteq Ops /\ setup.handlerOps \subseteq Ops
  BY SetupType DEF TeamInv, SupTypeOK
<1>2. QED
  BY <1>1, ProcIsWhole DEF ClientRequest, HandlerRequest, Waits

LEMMA WaitsInv ==
    ASSUME TeamInv, RuntimeInv', NEW p \in Proc, NEW o, Waits(p, o)
    PROVE  TeamInv'
<1>1. /\ op[p] = "none" /\ o \in Ops /\ op' = [op EXCEPT ![p] = o]
      /\ p \in Ref => status[p] = "busy"
      /\ UNCHANGED <<setup, vars, listVars, starts, stopped, now, holder, job, known, faulted>>
  BY DEF Waits, Requests
<1>2. UNCHANGED <<spawned, status, children, childNames, unnamed>>
  BY <1>1 DEF vars, actorVars, listVars
<1>3. p # holder
  BY <1>1, ProcIsWhole DEF TeamInv, JobFits, SupTypeOK, Job
<1>4. stopped \in BOOLEAN /\ known \subseteq Ref
  BY DEF TeamInv, SupTypeOK
<1>5. QED
  BY <1>1, <1>2, <1>3, <1>4, OpInv

-----------------------------------------------------------------------------
(* What is true of every step of every supervised team.                     *)

\* Process p enters the critical section of a method, or names a child.
MethodStep(p) ==
    \/ Start(p) \/ Stop(p) \/ Children(p)
    \/ \E n \in Names : AddChild(p, n) \/ NameChild(p, n)
    \/ \E r \in known : RemoveChild(p, r)

\* The steps, by what they are proved with.
LEMMA StepKinds ==
    ASSUME TeamInv, SupNext
    PROVE  /\ faulted = FALSE
           /\ \/ \E p \in Proc, o \in Ops : Waits(p, o)
              \/ \E p \in Proc : MethodStep(p)
              \/ \E r \in Ref : IgnoreCrash(r) \/ \E i \in Slots : HandleCrash(r, i)
              \/ CloseChild \/ Fault \/ RespawnChild \/ PassChild \/ DropChild
              \/ \E r \in Ref : SupReceive(r) \/ SupFinish(r) \/ SupExit(r)
              \/ \E r \in Ref : SupPanic(r)
              \/ Calls \/ Tick
<1>1. faulted = FALSE
  BY DEF SupNext, TeamInv, SupTypeOK
<1>2. \A p \in Proc : \A o : Waits(p, o) => o \in Ops
  BY DEF Waits
<1>3. CASE \E c \in Clients, o \in setup.clientOps : ClientRequest(c, o)
  BY <1>1, <1>2, <1>3, RequestsAre, ProcIsWhole
<1>4. CASE \E r \in Ref, o \in setup.handlerOps : HandlerRequest(r, o)
  BY <1>1, <1>2, <1>4, RequestsAre, ProcIsWhole
<1>5. CASE \E p \in Proc : Acquire(p)
  BY <1>1, <1>5 DEF Acquire, MethodStep
<1>6. CASE \E p \in Proc, n \in Names : NameChild(p, n)
  BY <1>1, <1>6 DEF MethodStep
<1>7. CASE \E r \in Ref : CrashStep(r)
  BY <1>1, <1>7 DEF CrashStep
<1>8. CASE JobStep
  BY <1>1, <1>8 DEF JobStep
<1>9. CASE \E r \in Ref : SupActorStep(r)
  BY <1>1, <1>9 DEF SupActorStep
<1>10. CASE \/ \E c \in Clients, r \in Spawned, k \in Kinds : SupBeginCall(c, r, k)
            \/ \E c \in Clients : SupClientStep(c)
  BY <1>1, <1>10 DEF Calls
<1>11. CASE Tick
  BY <1>1, <1>11
<1>12. QED
  BY <1>3, <1>4, <1>5, <1>6, <1>7, <1>8, <1>9, <1>10, <1>11 DEF SupNext

\* What the supervisor does is, for its actors, a step of the runtime.
LEMMA StepOfRuntime ==
    ASSUME TeamInv, [SupNext]_allVars
    PROVE  [Next]_vars
<1>1. CASE UNCHANGED vars
  BY <1>1
<1>2. CASE UNCHANGED allVars
  BY <1>2 DEF allVars
<1>3. CASE SupNext
  <2>1. CASE \E p \in Proc, o \in Ops : Waits(p, o)
    BY <2>1 DEF Waits
  <2>2. CASE \E p \in Proc : MethodStep(p)
    <3>1. ASSUME NEW p \in Proc, MethodStep(p)
          PROVE  [Next]_vars
      <4>1. CASE Start(p)
        BY <4>1, StartDoes
      <4>2. CASE \E n \in Names : AddChild(p, n)
        BY <4>2, AddChildDoes
      <4>3. CASE Stop(p) \/ Children(p) \/ \E r \in known : RemoveChild(p, r)
        BY <4>3 DEF Stop, Children, RemoveChild
      <4>4. CASE \E n \in Names : NameChild(p, n)
        BY <4>4 DEF NameChild
      <4>5. QED
        BY <3>1, <4>1, <4>2, <4>3, <4>4 DEF MethodStep
    <3>2. QED
      BY <2>2, <3>1
  <2>3. CASE \E r \in Ref : IgnoreCrash(r) \/ \E i \in Slots : HandleCrash(r, i)
    BY <2>3 DEF IgnoreCrash, HandleCrash
  <2>4. CASE CloseChild
    BY <2>4, CloseChildDoes
  <2>5. CASE Fault \/ PassChild \/ DropChild \/ Tick
    BY <2>5 DEF Fault, PassChild, DropChild, Tick
  <2>6. CASE RespawnChild
    BY <2>6, RespawnDoes
  <2>7. CASE \E r \in Ref : SupReceive(r) \/ SupFinish(r) \/ SupExit(r)
    BY <2>7, SupActorDoes
  <2>8. CASE \E r \in Ref : SupPanic(r)
    BY <2>8, PanicDoes
  <2>9. CASE Calls
    BY <2>9, CallsDo
  <2>10. QED
    BY <1>3, <2>1, <2>2, <2>3, <2>4, <2>5, <2>6, <2>7, <2>8, <2>9, StepKinds
<1>4. QED
  BY <1>2, <1>3

LEMMA TeamStart == SupInit => TeamInv
<1> SUFFICES ASSUME SupInit PROVE TeamInv
  OBVIOUS
<1>1. RuntimeInv /\ TypeOK /\ spawned = 0
  BY RuntimeStart DEF SupInit, Init, RuntimeInv
<1>2. /\ setup \in Setups /\ setup.specs \in Seq(Names)
      /\ Len(setup.specs) \in Nat
      /\ children = [i \in 1..Len(setup.specs) |->
                       [name |-> setup.specs[i], ref |-> 0, crashTimes |-> {}, panics |-> {}]]
      /\ childNames = setup.specs /\ unnamed = {} /\ starts = 0 /\ stopped = FALSE /\ now = 0
      /\ op = [p \in Proc |-> "none"] /\ holder = NoOne /\ job = NoJob
      /\ known = {} /\ faulted = FALSE
  BY SetupType DEF SupInit
<1>3. \A i \in 1..Len(setup.specs) : children[i] \in Child /\ children[i].ref = 0
  BY <1>2, RuntimeAssumption DEF Child
<1>4. children \in Seq(Child) /\ Slots = 1..Len(setup.specs)
  <2>1. children = [i \in 1..Len(setup.specs) |-> children[i]]
    BY <1>2
  <2>2. children \in Seq(Child) /\ Len(children) = Len(setup.specs)
    <3>1. Len(setup.specs) \in Nat /\ \A i \in 1..Len(setup.specs) : children[i] \in Child
      BY <1>2, <1>3
    <3>2. QED
      BY <2>1, <3>1, IsAList
  <2>3. QED
    BY <2>2 DEF Slots
<1>5. NoJob \in Job /\ NoJob.mode = "none"
  BY DEF NoJob, Job
<1>6. SupTypeOK
  BY <1>1, <1>2, <1>4, <1>5 DEF SupTypeOK, Ops
<1>7. ChildrenFit
  BY <1>1, <1>3, <1>4 DEF ChildrenFit
<1>8. OpsFit /\ JobFits
  BY <1>2, <1>5, ProcIsWhole DEF OpsFit, JobFits
<1>9. QED
  BY <1>1, <1>6, <1>7, <1>8 DEF TeamInv

LEMMA TeamStep == TeamInv /\ [SupNext]_allVars => TeamInv'
<1> SUFFICES ASSUME TeamInv, [SupNext]_allVars PROVE TeamInv'
  OBVIOUS
<1>1. RuntimeInv'
  BY StepOfRuntime, RuntimeStep DEF TeamInv
<1>2. CASE SupNext
  <2>1. ASSUME NEW p \in Proc, MethodStep(p)
        PROVE  TeamInv'
    BY <1>1, <2>1, StartInv, StopInv, ChildrenInv, AddChildInv, NameChildInv, RemoveChildInv
       DEF MethodStep
  <2>2. ASSUME NEW r \in Ref, IgnoreCrash(r) \/ \E i \in Slots : HandleCrash(r, i)
        PROVE  TeamInv'
    BY <1>1, <2>2, IgnoreCrashInv, HandleCrashInv
  <2>3. CASE CloseChild \/ Fault \/ RespawnChild \/ PassChild \/ DropChild
    BY <1>1, <2>3, CloseChildInv, FaultInv, RespawnInv, PassInv, DropInv
  <2>4. ASSUME NEW r \in Ref, SupReceive(r) \/ SupFinish(r) \/ SupExit(r) \/ SupPanic(r)
        PROVE  TeamInv'
    BY <1>1, <2>4, SupActorInv, PanicInv
  <2>5. CASE Calls \/ Tick
    BY <1>1, <2>5, CallsInv, TickInv
  <2>6. CASE \E p \in Proc, o \in Ops : Waits(p, o)
    BY <1>1, <2>6, WaitsInv
  <2>7. QED
    BY <1>2, <2>1, <2>2, <2>3, <2>4, <2>5, <2>6, StepKinds
<1>3. CASE UNCHANGED allVars
  <2>1. /\ UNCHANGED vars /\ UNCHANGED supVars
        /\ UNCHANGED <<setup, listVars, starts, stopped, now, lockVars, known, faulted>>
    BY <1>3 DEF allVars, supVars
  <2>2. UNCHANGED <<spawned, status>>
    BY <2>1 DEF vars, actorVars
  <2>3. QED
    BY <1>1, <2>1, <2>2, QuietInv DEF TeamInv, SupTypeOK
<1>4. QED
  BY <1>2, <1>3

\* The first invariant holds throughout.
LEMMA TeamAlways == SupSpec => []TeamInv
  BY TeamStart, TeamStep, PTL DEF SupSpec

\* Every variable of a supervised team keeps its type, whatever scripts and
\* handlers call, in whatever order and however often.
THEOREM TeamIsTyped == SupSpec => []SupTypeOK
<1>1. TeamInv => SupTypeOK
  BY DEF TeamInv
<1>2. QED
  BY <1>1, TeamAlways, PTL

\* Supervised actors are actors: all that is proved of the runtime alone holds
\* of the actors a supervisor spawns, closes and replaces.
THEOREM SupervisedActorsAreActors == SupSpec => Spec
<1>1. SupInit => Init
  BY DEF SupInit
<1>2. TeamInv /\ [SupNext]_allVars => [Next]_vars
  BY StepOfRuntime
<1>3. QED
  BY <1>1, <1>2, TeamAlways, PTL DEF SupSpec, Spec
-----------------------------------------------------------------------------
(* Steps alike, seen from the list of children.                             *)

\* Nobody moves a child: somebody waits, leaves or names, an actor goes on.
QuietStep ==
    \/ \E p \in Proc, o \in Ops : Waits(p, o)
    \/ \E p \in Proc : Children(p) \/ \E n \in Names : NameChild(p, n)
    \/ \E r \in Ref : IgnoreCrash(r)
    \/ \E r \in Ref : SupReceive(r) \/ SupFinish(r) \/ SupExit(r)
    \/ Calls \/ Tick

LEMMA QuietDoes ==
    ASSUME TeamInv, QuietStep
    PROVE  /\ UNCHANGED <<setup, children, starts, stopped, holder, job, spawned, closed>>
           /\ faulted' = faulted /\ Slots' = Slots
           /\ \A q \in Ref : \/ status'[q] = status[q]
                             \/ status[q] = "idle" /\ status'[q] = "busy"
                             \/ status[q] = "busy" /\ status'[q] = "idle" /\ op[q] = "none"
                             \/ status[q] = "idle" /\ status'[q] = "exited"
           /\ \/ op' = op
              \/ \E p \in Proc, o \in Ops : Waits(p, o)
              \/ \E p \in Proc : op[p] \in {"children", "naming"} /\ op' = [op EXCEPT ![p] = "none"]
              \/ \E r \in Ref : IgnoreCrash(r) /\ op' = [op EXCEPT ![r] = "none"]
<1>1. CASE \E p \in Proc, o \in Ops : Waits(p, o)
  BY <1>1, IdleRuntime DEF Waits, listVars, Slots
<1>2. CASE \E p \in Proc : Children(p) \/ \E n \in Names : NameChild(p, n)
  <2>1. ASSUME NEW p \in Proc, Children(p)
        PROVE  /\ UNCHANGED <<setup, children, starts, stopped, holder, job, vars, faulted>>
               /\ op[p] = "children" /\ op' = [op EXCEPT ![p] = "none"]
    BY <2>1 DEF Children, Enters, Leaves, listVars
  <2>2. ASSUME NEW p \in Proc, NEW n \in Names, NameChild(p, n)
        PROVE  /\ UNCHANGED <<setup, children, starts, stopped, holder, job, vars, faulted>>
               /\ op[p] = "naming" /\ op' = [op EXCEPT ![p] = "none"]
    BY <2>2 DEF NameChild, TeamInv, OpsFit
  <2>3. QED
    BY <1>2, <2>1, <2>2, IdleRuntime DEF Slots
<1>3. CASE \E r \in Ref : IgnoreCrash(r)
  BY <1>3, IdleRuntime DEF IgnoreCrash, Leaves, listVars, Slots
<1>4. CASE \E r \in Ref : SupReceive(r) \/ SupFinish(r) \/ SupExit(r)
  <2>1. PICK r \in Ref : SupReceive(r) \/ SupFinish(r) \/ SupExit(r)
    BY <1>4
  <2>2. /\ UNCHANGED <<spawned, closed>> /\ UNCHANGED supVars
        /\ \A q \in Ref \ {r} : status'[q] = status[q]
        /\ \/ status[r] = "idle" /\ status'[r] = "busy"
           \/ status[r] = "busy" /\ status'[r] = "idle" /\ op[r] = "none"
           \/ status[r] = "idle" /\ status'[r] = "exited"
    BY <2>1, SupActorDoes
  <2>3. UNCHANGED <<setup, children, starts, stopped, holder, job, op, faulted>>
    BY <2>2 DEF supVars, listVars, lockVars
  <2>4. QED
    BY <2>2, <2>3 DEF Slots
<1>5. CASE Calls
  <2>1. UNCHANGED <<spawned, status, closed>> /\ UNCHANGED supVars
    BY <1>5, CallsDo
  <2>2. QED
    BY <2>1 DEF supVars, listVars, lockVars, Slots
<1>6. CASE Tick
  BY <1>6, IdleRuntime DEF Tick, listVars, lockVars, Slots
<1>7. QED
  BY <1>1, <1>2, <1>3, <1>4, <1>5, <1>6 DEF QuietStep

\* Somebody gets the mutex for a job, which may turn out to be empty.
JobBegins ==
    \/ \E p \in Proc : Stop(p) \/ \E r \in known : RemoveChild(p, r)
    \/ \E r \in Ref, i \in Slots : HandleCrash(r, i)

LEMMA JobBeginsDoes ==
    ASSUME TeamInv, JobBegins
    PROVE  /\ UNCHANGED <<setup, starts, spawned, status, closed>>
           /\ faulted' = faulted /\ Slots' = Slots /\ job.mode = "none" /\ job = NoJob /\ holder = NoOne
           /\ Len(children') = Len(children)
           /\ \A i \in Slots : children'[i].ref = children[i].ref
           /\ \E p \in Proc :
                 /\ op[p] \in {"stop", "remove", "crash"}
                 /\ \/ /\ UNCHANGED <<holder, job>> /\ op' = [op EXCEPT ![p] = "none"]
                       /\ op[p] = "stop" => stopped' = TRUE /\ Slots = {}
                       /\ op[p] = "remove" => stopped' = stopped
                       /\ op[p] # "crash"
                    \/ /\ holder' = p /\ op' = op /\ job'.closing = FALSE
                       /\ \/ job'.mode = "stop" /\ job'.at = 1 /\ stopped' = TRUE
                          \/ job'.mode = "remove" /\ stopped' = stopped
                          \/ /\ job'.mode = "restart" /\ stopped' = FALSE /\ stopped = FALSE
                             /\ \E i \in Slots : children[i].ref = p /\ i \in job'.at..job'.last
<1>1. /\ Len(children) \in Nat /\ Slots = 1..Len(children) /\ stopped \in BOOLEAN
  BY ChildType DEF TeamInv, SupTypeOK
<1>2. CASE \E p \in Proc : Stop(p)
  <2>1. PICK p \in Proc : Stop(p)
    BY <1>2
  <2>2. /\ holder = NoOne /\ op[p] = "stop" /\ job.mode = "none" /\ job = NoJob
        /\ stopped' = TRUE /\ Works(p, "stop", 1, Len(children))
        /\ UNCHANGED <<setup, vars, listVars, starts, now, known, faulted>>
    BY <2>1, EntersDoes DEF Stop
  <2>3. UNCHANGED children /\ Slots' = Slots /\ UNCHANGED <<spawned, status, closed>>
    BY <2>2, IdleRuntime DEF listVars, Slots
  <2>4. \/ UNCHANGED <<holder, job>> /\ op' = [op EXCEPT ![p] = "none"] /\ Slots = {}
        \/ /\ holder' = p /\ op' = op /\ job'.closing = FALSE
           /\ job'.mode = "stop" /\ job'.at = 1
    BY <1>1, <2>2 DEF Works, Leaves
  <2>5. QED
    BY <2>2, <2>3, <2>4
<1>3. CASE \E p \in Proc, r \in known : RemoveChild(p, r)
  <2>1. PICK p \in Proc, r \in known : RemoveChild(p, r)
    BY <1>3
  <2>2. /\ holder = NoOne /\ op[p] = "remove" /\ job.mode = "none" /\ job = NoJob
        /\ \/ \E i \in Slots : Works(p, "remove", i, i)
           \/ op' = [op EXCEPT ![p] = "none"] /\ UNCHANGED <<holder, job>>
        /\ UNCHANGED <<setup, vars, listVars, starts, stopped, now, known, faulted>>
    BY <2>1, EntersDoes DEF RemoveChild, Leaves
  <2>3. UNCHANGED children /\ Slots' = Slots
    BY <2>2 DEF listVars, Slots
  <2>4. QED
    BY <1>1, <2>2, <2>3, IdleRuntime DEF Works
<1>4. CASE \E r \in Ref, i \in Slots : HandleCrash(r, i)
  <2>1. PICK r \in Ref, i \in Slots : HandleCrash(r, i)
    BY <1>4
  <2>2. /\ UNCHANGED vars
        /\ holder = NoOne /\ op[r] = "crash" /\ ~stopped /\ job = NoJob
        /\ children[i].ref = r
        /\ Len(children') = Len(children) /\ Slots' = Slots
        /\ \A j \in Slots \ {i} : children'[j] = children[j]
        /\ children'[i].ref = r
        /\ GivesUp(r, i) \/ Restarts(r, i)
        /\ UNCHANGED <<setup, childNames, unnamed, starts, now, known, faulted>>
    BY <2>1, HandleCrashDoes
  <2>3. /\ UNCHANGED <<spawned, status, closed>> /\ r \in Proc /\ job.mode = "none"
        /\ \A j \in Slots : children'[j].ref = children[j].ref
    BY <2>2, IdleRuntime, ProcIsWhole DEF NoJob
  <2>4. FirstAffected(i) \in 1..i /\ LastAffected(i) \in i..Len(children)
    BY AffectedFit
  <2>5. CASE GivesUp(r, i)
    <3>1. 1 <= Len(children)
      BY <1>1
    <3>2. /\ holder' = r /\ op' = op /\ stopped' = TRUE
          /\ job' = [mode |-> "stop", at |-> 1, last |-> Len(children), closing |-> FALSE]
      BY <2>5, <3>1 DEF GivesUp, Works
    <3>3. QED
      BY <2>2, <2>3, <3>2
  <2>6. CASE Restarts(r, i)
    <3>1. FirstAffected(i) <= LastAffected(i) /\ i \in FirstAffected(i)..LastAffected(i)
      BY <1>1, <2>4
    <3>2. /\ holder' = r /\ op' = op /\ stopped' = FALSE
          /\ job' = [mode |-> "restart", at |-> FirstAffected(i),
                     last |-> LastAffected(i), closing |-> FALSE]
      BY <1>1, <2>2, <2>6, <3>1 DEF Restarts, Works
    <3>3. QED
      BY <2>2, <2>3, <3>1, <3>2
  <2>7. QED
    BY <2>2, <2>5, <2>6
<1>5. QED
  BY <1>2, <1>3, <1>4 DEF JobBegins

\* The steps once more, by what the list of children sees of them.
LEMMA TeamSteps ==
    ASSUME TeamInv, [SupNext]_allVars
    PROVE  \/ UNCHANGED allVars
           \/ /\ faulted = FALSE
              /\ \/ QuietStep \/ JobBegins
                 \/ \E p \in Proc : Start(p) \/ \E n \in Names : AddChild(p, n)
                 \/ CloseChild \/ Fault \/ RespawnChild \/ PassChild \/ DropChild
                 \/ \E r \in Ref : SupPanic(r)
<1>1. ASSUME NEW p \in Proc, MethodStep(p)
      PROVE  \/ QuietStep \/ JobBegins
             \/ Start(p) \/ \E n \in Names : AddChild(p, n)
  BY <1>1 DEF MethodStep, QuietStep, JobBegins
<1>2. ASSUME SupNext, NEW p \in Proc, MethodStep(p)
      PROVE  \/ QuietStep \/ JobBegins
             \/ \E q \in Proc : Start(q) \/ \E n \in Names : AddChild(q, n)
  BY <1>1, <1>2
<1>3. QED
  BY <1>2, StepKinds DEF QuietStep, JobBegins
-----------------------------------------------------------------------------
(* The second invariant: no crash is lost.                                  *)

\* The child whose crash is being handled is restarted before the job ends.
CrashedIsAhead ==
    job.mode = "restart" =>
        \A i \in Slots : children[i].ref = holder => i \in job.at..job.last

CrashInv == CrashIsSupervised /\ CrashedIsAhead

\* A ref of the list that is not nil is a ref.
LEMMA RefsAreRefs ==
    ASSUME TeamInv
    PROVE  /\ Len(children) \in Nat /\ Slots = 1..Len(children)
           /\ \A i \in Slots : /\ children[i].ref \in 0..MaxRefs /\ children[i].ref \in Nat
                               /\ children[i].ref <= spawned
                               /\ children[i].ref # 0 => children[i].ref \in Ref /\ children[i].ref \in Spawned
<1>1. MaxRefs \in Nat /\ spawned \in Nat
  BY RuntimeAssumption DEF TeamInv, RuntimeInv, TypeOK
<1>2. QED
  BY <1>1, ChildType DEF TeamInv, ChildrenFit, Ref, Spawned

LEMMA CrashQuiet == ASSUME TeamInv, TeamInv', CrashInv, QuietStep PROVE CrashInv'
<1>1. /\ UNCHANGED <<children, stopped, holder, job>> /\ Slots' = Slots
      /\ \A q \in Ref : status'[q] = "crashed" => status[q] = "crashed"
      /\ \/ op' = op
         \/ \E p \in Proc, o \in Ops : Waits(p, o)
         \/ \E p \in Proc : op[p] \in {"children", "naming"} /\ op' = [op EXCEPT ![p] = "none"]
         \/ \E r \in Ref : IgnoreCrash(r) /\ op' = [op EXCEPT ![r] = "none"]
  BY QuietDoes
<1>2. \A p \in Proc, o \in Ops : Waits(p, o) => op[p] = "none" /\ op' = [op EXCEPT ![p] = o]
  BY DEF Waits, Requests
<1>3. ASSUME NEW i \in Slots, children[i].ref # 0, op[children[i].ref] = "crash"
      PROVE  op'[children[i].ref] = "crash" \/ stopped
  <2>1. children[i].ref \in Proc /\ op \in [Proc -> Ops \cup {"none", "crash", "naming"}]
    BY <1>3, RefsAreRefs, ProcIsWhole DEF TeamInv, SupTypeOK
  <2>2. ASSUME NEW p \in Proc, NEW o, op[p] # "crash", op' = [op EXCEPT ![p] = o]
        PROVE  op'[children[i].ref] = "crash"
    BY <1>3, <2>1, <2>2
  <2>3. ASSUME NEW r \in Ref, IgnoreCrash(r), op' = [op EXCEPT ![r] = "none"]
        PROVE  op'[children[i].ref] = "crash" \/ stopped
    <3>1. stopped \/ children[i].ref # r
      BY <2>3 DEF IgnoreCrash, Tracked
    <3>2. QED
      BY <1>3, <2>1, <2>3, <3>1
  <2>4. QED
    BY <1>1, <1>2, <1>3, <2>2, <2>3
<1>4. CrashIsSupervised'
  BY <1>1, <1>3, RefsAreRefs DEF CrashInv, CrashIsSupervised
<1>5. CrashedIsAhead'
  BY <1>1 DEF CrashInv, CrashedIsAhead
<1>6. QED
  BY <1>4, <1>5 DEF CrashInv

LEMMA CrashBegins == ASSUME TeamInv, TeamInv', CrashInv, JobBegins PROVE CrashInv'
<1>1. /\ UNCHANGED status /\ Slots' = Slots /\ job.mode = "none"
      /\ \A i \in Slots : children'[i].ref = children[i].ref
  BY JobBeginsDoes
<1>2. PICK p \in Proc :
         /\ op[p] \in {"stop", "remove", "crash"}
         /\ \/ /\ UNCHANGED <<holder, job>> /\ op' = [op EXCEPT ![p] = "none"]
               /\ op[p] = "stop" => stopped' = TRUE /\ Slots = {}
               /\ op[p] = "remove" => stopped' = stopped
               /\ op[p] # "crash"
            \/ /\ holder' = p /\ op' = op /\ job'.closing = FALSE
               /\ \/ job'.mode = "stop" /\ job'.at = 1 /\ stopped' = TRUE
                  \/ job'.mode = "remove" /\ stopped' = stopped
                  \/ /\ job'.mode = "restart" /\ stopped' = FALSE /\ stopped = FALSE
                     /\ \E i \in Slots : children[i].ref = p /\ i \in job'.at..job'.last
  BY JobBeginsDoes
<1>3. /\ stopped' = stopped \/ stopped' = TRUE \/ stopped = FALSE
      /\ \A q \in Proc : op[q] = "crash" => op'[q] = "crash"
  BY <1>2 DEF TeamInv, SupTypeOK
<1>4. CrashIsSupervised'
  BY <1>1, <1>3, RefsAreRefs, ProcIsWhole DEF CrashInv, CrashIsSupervised
<1>5. CrashedIsAhead'
  <2>1. ASSUME job'.mode = "restart", NEW i \in Slots, children'[i].ref = holder'
        PROVE  i \in job'.at..job'.last
    <3>1. p = holder' /\ \E j \in Slots : children[j].ref = p /\ j \in job'.at..job'.last
      BY <1>1, <1>2, <2>1
    <3>2. p \in Ref
      BY <2>1, <3>1 DEF TeamInv, JobFits
    <3>3. p # 0
      BY <3>2 DEF Ref
    <3>4. QED
      BY <1>1, <2>1, <3>1, <3>3 DEF TeamInv, ChildrenFit
  <2>2. QED
    BY <1>1, <2>1 DEF CrashedIsAhead
<1>6. QED
  BY <1>4, <1>5 DEF CrashInv

LEMMA CrashSpawns ==
    ASSUME TeamInv, TeamInv', CrashInv, NEW p \in Proc,
           Start(p) \/ \E n \in Names : AddChild(p, n)
    PROVE  CrashInv'
<1>1. CASE Start(p)
  <2>1. /\ job = NoJob /\ job' = job /\ Slots' = Slots /\ spawned \in Nat
        /\ spawned' = spawned + Len(children) /\ spawned' <= MaxRefs
        /\ \A r \in Ref : r \in spawned + 1..spawned' => status'[r] = "idle"
        /\ \A i \in Slots : children'[i].ref = spawned + i
    BY <1>1, StartDoes
  <2>2. \A i \in Slots : spawned + i \in Ref /\ spawned + i \in spawned + 1..spawned'
    BY <2>1, RefsAreRefs, RuntimeAssumption DEF Ref
  <2>3. QED
    BY <2>1, <2>2 DEF CrashInv, CrashIsSupervised, CrashedIsAhead, NoJob
<1>2. CASE \E n \in Names : AddChild(p, n)
  <2>1. /\ job = NoJob /\ job' = job /\ stopped' = stopped
        /\ spawned \in Nat /\ spawned' = spawned + 1 /\ spawned' <= MaxRefs
        /\ \A r \in Ref : IF r = spawned + 1 THEN status'[r] = "idle" ELSE status'[r] = status[r]
        /\ Slots = 1..Len(children) /\ Slots' = 1..Len(children) + 1
        /\ \A i \in Slots : children'[i] = children[i]
        /\ children'[Len(children) + 1].ref = spawned + 1
        /\ op[p] = "add" /\ op' = [op EXCEPT ![p] = "naming"]
    BY <1>2, AddChildDoes
  <2>2. \A q \in Proc : op[q] = "crash" => op'[q] = "crash"
    BY <2>1 DEF TeamInv, SupTypeOK
  <2>3. spawned + 1 \in Ref
    BY <2>1, RuntimeAssumption DEF Ref
  <2>4. \A i \in Slots' : i \in Slots \/ i = Len(children) + 1
    BY <2>1, RefsAreRefs
  <2>5. CrashIsSupervised'
    BY <2>1, <2>2, <2>3, <2>4, RefsAreRefs, ProcIsWhole DEF CrashInv, CrashIsSupervised
  <2>6. QED
    BY <2>1, <2>5 DEF CrashInv, CrashedIsAhead, NoJob
<1>3. QED
  BY <1>1, <1>2

LEMMA CrashCloses == ASSUME TeamInv, TeamInv', CrashInv, CloseChild PROVE CrashInv'
<1>1. /\ status' = status /\ UNCHANGED <<listVars, stopped, op, holder>>
      /\ job'.mode = job.mode /\ job'.at = job.at /\ job'.last = job.last
  BY CloseChildDoes
<1>2. UNCHANGED children /\ Slots' = Slots
  BY <1>1 DEF listVars, Slots
<1>3. QED
  BY <1>1, <1>2 DEF CrashInv, CrashIsSupervised, CrashedIsAhead

LEMMA CrashRespawns == ASSUME TeamInv, TeamInv', CrashInv, RespawnChild PROVE CrashInv'
<1>1. /\ job.mode = "restart" /\ job.at \in Slots
      /\ spawned \in Nat /\ spawned' = spawned + 1 /\ spawned' <= MaxRefs
      /\ \A r \in Ref : IF r = spawned + 1 THEN status'[r] = "idle" ELSE status'[r] = status[r]
      /\ Slots' = Slots /\ stopped' = stopped
      /\ \A i \in Slots \ {job.at} : children'[i] = children[i]
      /\ children'[job.at].ref = spawned + 1
      /\ NextChild
  BY RespawnDoes
<1>2. /\ holder \in Proc /\ job.at \in Slots /\ job.last \in job.at..Len(children)
      /\ \/ /\ job.at < job.last /\ op' = op /\ holder' = holder
            /\ job'.mode = job.mode /\ job'.at = job.at + 1 /\ job'.last = job.last
         \/ /\ job.at = job.last /\ job'.mode = "none"
            /\ op'[holder] = "none" /\ \A q \in Proc \ {holder} : op'[q] = op[q]
  BY <1>1, NextChildDoes
<1>3. /\ spawned + 1 \in Ref /\ status'[spawned + 1] = "idle"
      /\ job.at \in Int /\ job.last \in Int /\ Slots \subseteq Int
  BY <1>1, <1>2, RefsAreRefs, RuntimeAssumption DEF Ref
<1>4. ASSUME NEW i \in Slots, i # job.at, children[i].ref # 0, status[children[i].ref] = "crashed"
      PROVE  \/ op'[children[i].ref] = "crash"
             \/ job'.mode = "restart" /\ i \in job'.at..job'.last
             \/ stopped'
  <2>1. children[i].ref \in Proc
    BY <1>4, RefsAreRefs, ProcIsWhole
  <2>2. \/ op[children[i].ref] = "crash"
        \/ i \in job.at..job.last
        \/ stopped'
    BY <1>1, <1>4 DEF CrashInv, CrashIsSupervised
  <2>3. CASE job.at < job.last
    BY <1>1, <1>2, <1>3, <1>4, <2>2, <2>3
  <2>4. CASE job.at = job.last
    <3>1. i \notin job.at..job.last
      BY <1>3, <1>4, <2>4
    <3>2. children[i].ref # holder
      BY <1>1, <3>1 DEF CrashInv, CrashedIsAhead
    <3>3. QED
      BY <1>2, <2>1, <2>2, <2>4, <3>1, <3>2
  <2>5. QED
    BY <1>2, <2>3, <2>4
<1>5. CrashIsSupervised'
  <2>1. ASSUME NEW i \in Slots, children'[i].ref # 0, status'[children'[i].ref] = "crashed"
        PROVE  \/ op'[children'[i].ref] = "crash"
               \/ job'.mode = "restart" /\ i \in job'.at..job'.last
               \/ stopped'
    <3>1. i # job.at
      BY <1>1, <1>3, <2>1
    <3>2. children'[i] = children[i]
      BY <1>1, <3>1
    <3>3. children[i].ref \in Ref
      BY <2>1, <3>2, RefsAreRefs
    <3>4. status[children[i].ref] = "crashed"
      BY <1>1, <1>3, <2>1, <3>2, <3>3
    <3>5. QED
      BY <1>4, <2>1, <3>1, <3>2, <3>4
  <2>2. QED
    BY <1>1, <2>1 DEF CrashIsSupervised
<1>6. CrashedIsAhead'
  <2>1. ASSUME job'.mode = "restart", NEW i \in Slots, children'[i].ref = holder'
        PROVE  i \in job'.at..job'.last
    <3>1. /\ job.at < job.last /\ holder' = holder /\ holder \in Ref
          /\ job'.at = job.at + 1 /\ job'.last = job.last
      BY <1>1, <1>2, <2>1 DEF TeamInv, JobFits
    <3>2. i # job.at
      <4>1. status[holder] = "crashed" /\ status[spawned + 1] = "unborn"
        <5>1. op[holder] = "crash"
          BY <1>1 DEF TeamInv, JobFits
        <5>2. QED
          BY <1>1, <1>3, <3>1, <5>1 DEF TeamInv, OpsFit, RuntimeInv, ActorsConsistent
      <4>2. QED
        BY <1>1, <2>1, <3>1, <4>1
    <3>3. i \in job.at..job.last
      BY <1>1, <2>1, <3>1, <3>2 DEF CrashInv, CrashedIsAhead
    <3>4. QED
      BY <1>3, <3>1, <3>2, <3>3
  <2>2. QED
    BY <1>1, <2>1 DEF CrashedIsAhead
<1>7. QED
  BY <1>5, <1>6 DEF CrashInv

LEMMA CrashPasses == ASSUME TeamInv, TeamInv', CrashInv, PassChild PROVE CrashInv'
<1>1. job.mode = "stop" /\ NextChild /\ UNCHANGED stopped
  BY DEF PassChild, Settles
<1>2. stopped' /\ job'.mode # "restart"
  BY <1>1, NextChildDoes DEF TeamInv, JobFits
<1>3. QED
  BY <1>2 DEF CrashInv, CrashIsSupervised, CrashedIsAhead

LEMMA CrashDrops == ASSUME TeamInv, TeamInv', CrashInv, DropChild PROVE CrashInv'
<1>1. /\ UNCHANGED vars /\ job.mode = "remove" /\ job.at \in Slots /\ job.at = job.last
      /\ Len(children) \in Nat /\ Slots = 1..Len(children) /\ Slots' = 1..Len(children) - 1
      /\ \A i \in Slots' : /\ i < job.at => children'[i] = children[i]
                           /\ i >= job.at => children'[i] = children[i + 1]
      /\ NextChild /\ UNCHANGED stopped
  BY DropDoes
<1>2. /\ UNCHANGED status /\ holder \in Proc /\ job'.mode = "none"
      /\ \A q \in Proc \ {holder} : op'[q] = op[q]
  BY <1>1, IdleRuntime, NextChildDoes
<1>3. op[holder] = "remove"
  BY <1>1 DEF TeamInv, JobFits
<1>4. \A q \in Proc : op[q] = "crash" => op'[q] = "crash"
  BY <1>2, <1>3
<1>5. \A i \in Slots' : \E j \in Slots : children'[i] = children[j]
  BY <1>1
<1>6. CrashIsSupervised'
  <2>1. ASSUME NEW j \in Slots, children[j].ref # 0, status[children[j].ref] = "crashed"
        PROVE  op'[children[j].ref] = "crash" \/ stopped
    BY <1>1, <1>4, <2>1, RefsAreRefs, ProcIsWhole DEF CrashInv, CrashIsSupervised
  <2>2. ASSUME NEW i \in Slots', children'[i].ref # 0, status'[children'[i].ref] = "crashed"
        PROVE  op'[children'[i].ref] = "crash" \/ stopped
    BY <1>2, <1>5, <2>1, <2>2
  <2>3. QED
    BY <1>1, <2>2 DEF CrashIsSupervised
<1>7. QED
  BY <1>2, <1>6 DEF CrashInv, CrashedIsAhead

LEMMA CrashPanics == ASSUME TeamInv, TeamInv', CrashInv, NEW r \in Ref, SupPanic(r) PROVE CrashInv'
<1>1. /\ \A q \in Ref \ {r} : status'[q] = status[q]
      /\ op[r] = "none" /\ op' = [op EXCEPT ![r] = "crash"] /\ Slots' = Slots
      /\ \A i \in Slots : children'[i].ref = children[i].ref
      /\ UNCHANGED <<stopped, holder, job>>
  BY PanicDoes
<1>2. op'[r] = "crash" /\ \A q \in Proc : op[q] = "crash" => op'[q] = "crash"
  BY <1>1, ProcIsWhole DEF TeamInv, SupTypeOK
<1>3. CrashIsSupervised'
  BY <1>1, <1>2, RefsAreRefs, ProcIsWhole DEF CrashInv, CrashIsSupervised
<1>4. QED
  BY <1>1, <1>3 DEF CrashInv, CrashedIsAhead

LEMMA CrashStays == TeamInv /\ TeamInv' /\ CrashInv /\ [SupNext]_allVars => CrashInv'
<1> SUFFICES ASSUME TeamInv, TeamInv', CrashInv, [SupNext]_allVars PROVE CrashInv'
  OBVIOUS
<1>1. CASE UNCHANGED allVars
  BY <1>1 DEF allVars, vars, actorVars, supVars, listVars, lockVars, Slots,
       CrashInv, CrashIsSupervised, CrashedIsAhead
<1>2. CASE Fault
  BY <1>2 DEF Fault, vars, actorVars, listVars, lockVars, Slots,
       CrashInv, CrashIsSupervised, CrashedIsAhead
<1>3. QED
  BY <1>1, <1>2, TeamSteps, CrashQuiet, CrashBegins, CrashSpawns, CrashCloses, CrashRespawns,
     CrashPasses, CrashDrops, CrashPanics
-----------------------------------------------------------------------------
(* The third invariant: whoever runs is listed, and no mailbox is closed     *)
(* twice, if scripts follow the lifecycle.                                  *)

\* A mailbox is closed by the job that waits for its actor, or the actor ended.
ClosedFits ==
    \A r \in Ref : closed[r] => Done(r) \/ (job.closing = TRUE /\ Subject = r)

\* Nothing happens before start; after it every child has an incarnation, and
\* start is not called again.
OrderFits ==
    setup.inOrder =>
        /\ starts = 0 =>
              /\ spawned = 0 /\ holder = NoOne /\ ~stopped
              /\ \A p \in Proc : op[p] \in {"none", "start"}
              /\ \A p, q \in Proc : op[p] = "start" /\ op[q] = "start" => p = q
        /\ starts # 0 =>
              /\ \A i \in Slots : children[i].ref # 0
              /\ \A p \in Proc : op[p] # "start"

OrderInv == ClosedFits /\ OrderFits /\ NoOrphans /\ NoFault

LEMMA SpawnedAreRefs ==
    ASSUME TeamInv
    PROVE  /\ Spawned \subseteq Ref
           /\ spawned' = spawned + 1 => Spawned' = Spawned \cup {spawned + 1}
<1>1. MaxRefs \in Nat /\ spawned \in 0..MaxRefs
  BY RuntimeAssumption DEF TeamInv, RuntimeInv, TypeOK
<1>2. QED
  BY <1>1 DEF Spawned, Ref

\* Once an actor has ended it stays so.
LEMMA DoneStays ==
    ASSUME \A q \in Ref : \/ status'[q] = status[q]
                          \/ status[q] \in {"unborn", "idle", "busy"},
           NEW r \in Ref, Done(r)
    PROVE  Done(r)' /\ status[r] # "unborn"
  BY DEF Done

LEMMA OrderQuiet == ASSUME TeamInv, TeamInv', OrderInv, QuietStep PROVE OrderInv'
<1>1. /\ UNCHANGED <<setup, children, starts, stopped, holder, job, spawned, closed>>
      /\ faulted' = faulted /\ Slots' = Slots
      /\ \A q \in Ref : status'[q] = status[q] \/ status[q] \in {"unborn", "idle", "busy"}
      /\ \/ op' = op
         \/ \E p \in Proc, o \in Ops : Waits(p, o)
         \/ \E p \in Proc : op[p] \in {"children", "naming"} /\ op' = [op EXCEPT ![p] = "none"]
         \/ \E r \in Ref : IgnoreCrash(r) /\ op' = [op EXCEPT ![r] = "none"]
  BY QuietDoes
<1>2. \A r \in Ref : Done(r) => Done(r)'
  BY <1>1, DoneStays
<1>3. ClosedFits'
  BY <1>1, <1>2 DEF OrderInv, ClosedFits, Subject
<1>4. NoOrphans'
  BY <1>1, <1>2, SpawnedAreRefs DEF OrderInv, NoOrphans, Tracked, Spawned
<1>5. NoFault'
  BY <1>1 DEF OrderInv, NoFault
<1>6. OrderFits'
  <2>1. op \in [Proc -> Ops \cup {"none", "crash", "naming"}]
    BY DEF TeamInv, SupTypeOK
  <2>2. ASSUME NEW p \in Proc, NEW o \in Ops, Waits(p, o)
        PROVE  OrderFits'
    BY <1>1, <2>1, <2>2 DEF OrderInv, OrderFits, Waits, InOrder, Requests, TeamInv, SupTypeOK
  <2>3. ASSUME \A p \in Proc : op'[p] = op[p] \/ op'[p] = "none"
        PROVE  OrderFits'
    BY <1>1, <2>3 DEF OrderInv, OrderFits
  <2>4. \/ \E p \in Proc, o \in Ops : Waits(p, o)
        \/ \A p \in Proc : op'[p] = op[p] \/ op'[p] = "none"
    BY <1>1, <2>1
  <2>5. QED
    BY <2>2, <2>3, <2>4
<1>7. QED
  BY <1>3, <1>4, <1>5, <1>6 DEF OrderInv

LEMMA OrderBegins == ASSUME TeamInv, TeamInv', OrderInv, JobBegins PROVE OrderInv'
<1>1. /\ UNCHANGED <<setup, starts, spawned, status, closed>>
      /\ faulted' = faulted /\ Slots' = Slots /\ job = NoJob
      /\ \A i \in Slots : children'[i].ref = children[i].ref
      /\ \E p \in Proc : op[p] \in {"stop", "remove", "crash"}
      /\ \A q \in Proc : op'[q] = op[q] \/ op'[q] = "none"
  <2>1. op \in [Proc -> Ops \cup {"none", "crash", "naming"}]
    BY DEF TeamInv, SupTypeOK
  <2>2. QED
    BY <2>1, JobBeginsDoes
<1>2. ClosedFits'
  BY <1>1 DEF OrderInv, ClosedFits, Done, NoJob
<1>3. NoOrphans'
  BY <1>1 DEF OrderInv, NoOrphans, Tracked, Done, Spawned
<1>4. NoFault'
  BY <1>1 DEF OrderInv, NoFault
<1>5. OrderFits'
  BY <1>1 DEF OrderInv, OrderFits
<1>6. QED
  BY <1>2, <1>3, <1>4, <1>5 DEF OrderInv

LEMMA OrderStarts == ASSUME TeamInv, TeamInv', OrderInv, NEW p \in Proc, Start(p) PROVE OrderInv'
<1>1. /\ holder = NoOne /\ op[p] = "start" /\ job = NoJob /\ job' = job
      /\ spawned \in Nat /\ spawned' = spawned + Len(children) /\ spawned' <= MaxRefs
      /\ \A r \in Ref : IF r \in spawned + 1..spawned'
                        THEN status[r] = "unborn" /\ status'[r] = "idle"
                        ELSE status'[r] = status[r]
      /\ closed' = closed /\ Slots' = Slots
      /\ \A i \in Slots : children'[i].ref = spawned + i
      /\ op' = [op EXCEPT ![p] = "none"]
      /\ starts' = starts + 1 /\ setup' = setup /\ faulted' = faulted
  BY StartDoes
<1>2. \A r \in Ref : Done(r) => Done(r)'
  BY <1>1, DoneStays
<1>3. ClosedFits'
  BY <1>1, <1>2 DEF OrderInv, ClosedFits, NoJob
<1>4. setup.inOrder => starts = 0 /\ spawned = 0
  BY <1>1 DEF OrderInv, OrderFits
<1>5. Len(children) \in Nat /\ Slots = 1..Len(children)
  BY RefsAreRefs
<1>6. NoOrphans'
  <2>1. ASSUME setup.inOrder, NEW r \in Spawned' PROVE Tracked(r)'
    <3>1. r \in Slots /\ children'[r].ref = r
      BY <1>1, <1>4, <1>5, <2>1 DEF Spawned
    <3>2. QED
      BY <1>1, <3>1 DEF Tracked
  <2>2. QED
    BY <1>1, <2>1 DEF NoOrphans
<1>7. OrderFits'
  <2>1. starts' # 0 /\ \A i \in Slots' : children'[i].ref # 0
    BY <1>1, <1>5 DEF TeamInv, SupTypeOK
  <2>2. op'[p] = "none" /\ \A q \in Proc \ {p} : op'[q] = op[q]
    BY <1>1 DEF TeamInv, SupTypeOK
  <2>3. setup.inOrder => \A q \in Proc : op'[q] # "start"
    BY <1>1, <1>4, <2>2 DEF OrderInv, OrderFits
  <2>4. QED
    BY <1>1, <2>1, <2>3 DEF OrderFits
<1>8. QED
  BY <1>1, <1>3, <1>6, <1>7 DEF OrderInv, NoFault

LEMMA OrderAdds ==
    ASSUME TeamInv, TeamInv', OrderInv, NEW p \in Proc, NEW n \in Names, AddChild(p, n)
    PROVE  OrderInv'
<1>1. /\ job = NoJob /\ job' = job /\ op[p] = "add"
      /\ spawned \in Nat /\ spawned' = spawned + 1
      /\ \A r \in Ref : IF r = spawned + 1
                        THEN status[r] = "unborn" /\ status'[r] = "idle"
                        ELSE status'[r] = status[r]
      /\ closed' = closed
      /\ Len(children) \in Nat /\ Slots = 1..Len(children) /\ Slots' = 1..Len(children) + 1
      /\ \A i \in Slots : children'[i] = children[i]
      /\ children'[Len(children) + 1].ref = spawned + 1
      /\ op' = [op EXCEPT ![p] = "naming"]
      /\ UNCHANGED <<setup, starts, stopped, holder>> /\ faulted' = faulted
  BY AddChildDoes
<1>2. \A r \in Ref : Done(r) => Done(r)'
  BY <1>1, DoneStays
<1>3. ClosedFits'
  BY <1>1, <1>2 DEF OrderInv, ClosedFits, NoJob
<1>4. setup.inOrder => starts # 0
  BY <1>1 DEF OrderInv, OrderFits
<1>5. \A r \in Ref : Tracked(r) => Tracked(r)'
  BY <1>1 DEF Tracked
<1>6. NoOrphans'
  <2>1. Spawned' = Spawned \cup {spawned + 1} /\ Spawned \subseteq Ref
    BY <1>1, SpawnedAreRefs
  <2>2. \E i \in Slots' : children'[i].ref = spawned + 1
    BY <1>1
  <2>3. QED
    BY <1>1, <1>2, <1>5, <2>1, <2>2 DEF OrderInv, NoOrphans, Tracked
<1>7. OrderFits'
  <2>1. \A q \in Proc : op'[q] = op[q] \/ op'[q] = "naming"
    BY <1>1 DEF TeamInv, SupTypeOK
  <2>2. spawned + 1 # 0 /\ \A i \in Slots' : i \in Slots \/ i = Len(children) + 1
    BY <1>1
  <2>3. QED
    BY <1>1, <1>4, <2>1, <2>2 DEF OrderInv, OrderFits
<1>8. QED
  BY <1>1, <1>3, <1>6, <1>7 DEF OrderInv, NoFault

LEMMA OrderCloses == ASSUME TeamInv, TeamInv', OrderInv, CloseChild PROVE OrderInv'
<1>1. /\ spawned' = spawned /\ status' = status
      /\ \A q \in Ref : closed'[q] <=> closed[q] \/ q = Subject
      /\ job'.closing = TRUE /\ job'.at = job.at
      /\ UNCHANGED <<setup, listVars, starts, stopped, op, holder>> /\ faulted' = faulted
  BY CloseChildDoes
<1>2. UNCHANGED children /\ Slots' = Slots /\ Subject' = Subject
  BY <1>1 DEF listVars, Slots, Subject
<1>3. job.closing # TRUE
  BY DEF CloseChild
<1>4. ClosedFits'
  BY <1>1, <1>2, <1>3 DEF OrderInv, ClosedFits, Done
<1>5. OrderFits' /\ NoOrphans' /\ NoFault'
  BY <1>1, <1>2 DEF OrderInv, OrderFits, NoOrphans, NoFault, Tracked, Spawned, Done
<1>6. QED
  BY <1>4, <1>5 DEF OrderInv

\* Whose mailbox is closed has ended, once the job goes to the next child.
LEMMA ClosedAreDone ==
    ASSUME TeamInv, ClosedFits, Done(Subject)
    PROVE  \A r \in Ref : closed[r] => Done(r)
  BY DEF ClosedFits

LEMMA OrderRespawns == ASSUME TeamInv, TeamInv', OrderInv, RespawnChild PROVE OrderInv'
<1>1. /\ job.mode = "restart" /\ job.at \in Slots /\ Done(Subject) /\ Subject \in Spawned
      /\ spawned \in Nat /\ spawned' = spawned + 1
      /\ \A r \in Ref : IF r = spawned + 1
                        THEN status[r] = "unborn" /\ status'[r] = "idle"
                        ELSE status'[r] = status[r]
      /\ closed' = closed /\ Slots' = Slots
      /\ \A i \in Slots \ {job.at} : children'[i] = children[i]
      /\ children'[job.at].ref = spawned + 1
      /\ NextChild
      /\ UNCHANGED <<setup, starts, stopped>> /\ faulted' = faulted
  BY RespawnDoes
<1>2. /\ holder \in Proc /\ job'.closing = FALSE
      /\ \A q \in Proc : op'[q] = op[q] \/ op'[q] = "none"
  BY <1>1, NextChildDoes
<1>3. \A r \in Ref : Done(r) => Done(r)'
  BY <1>1, DoneStays
<1>4. ClosedFits'
  BY <1>1, <1>3, ClosedAreDone DEF OrderInv, ClosedFits
<1>5. setup.inOrder => starts # 0
  BY <1>2, ProcIsWhole DEF OrderInv, OrderFits
<1>6. NoOrphans'
  <2>1. Spawned' = Spawned \cup {spawned + 1} /\ Spawned \subseteq Ref
    BY <1>1, SpawnedAreRefs
  <2>2. \E i \in Slots' : children'[i].ref = spawned + 1
    BY <1>1
  <2>3. \A r \in Ref : Tracked(r) => Tracked(r)' \/ r = Subject
    BY <1>1 DEF Tracked, Subject
  <2>4. QED
    BY <1>1, <1>3, <2>1, <2>2, <2>3 DEF OrderInv, NoOrphans, Tracked
<1>7. OrderFits'
  <2>1. spawned + 1 # 0
    BY <1>1
  <2>2. QED
    BY <1>1, <1>2, <1>5, <2>1 DEF OrderInv, OrderFits
<1>8. QED
  BY <1>1, <1>4, <1>6, <1>7 DEF OrderInv, NoFault

LEMMA OrderPasses == ASSUME TeamInv, TeamInv', OrderInv, PassChild PROVE OrderInv'
<1>1. /\ job.mode = "stop" /\ Done(Subject) /\ NextChild
      /\ UNCHANGED <<setup, vars, listVars, starts, stopped>> /\ faulted' = faulted
  BY DEF PassChild, Settles
<1>2. /\ holder \in Proc /\ job'.closing = FALSE
      /\ \A q \in Proc : op'[q] = op[q] \/ op'[q] = "none"
  BY <1>1, NextChildDoes
<1>3. UNCHANGED <<spawned, status, closed, children>> /\ Slots' = Slots
  BY <1>1, IdleRuntime DEF listVars, Slots
<1>4. ClosedFits'
  BY <1>1, <1>2, <1>3, ClosedAreDone DEF OrderInv, ClosedFits, Done
<1>5. setup.inOrder => starts # 0
  BY <1>2, ProcIsWhole DEF OrderInv, OrderFits
<1>6. OrderFits' /\ NoOrphans' /\ NoFault'
  BY <1>1, <1>2, <1>3, <1>5 DEF OrderInv, OrderFits, NoOrphans, NoFault, Tracked, Spawned, Done
<1>7. QED
  BY <1>4, <1>6 DEF OrderInv

LEMMA OrderDrops == ASSUME TeamInv, TeamInv', OrderInv, DropChild PROVE OrderInv'
<1>1. /\ UNCHANGED vars /\ job.mode = "remove" /\ job.at \in Slots /\ Done(Subject)
      /\ Len(children) \in Nat /\ Slots = 1..Len(children) /\ Slots' = 1..Len(children) - 1
      /\ \A i \in Slots' : /\ i < job.at => children'[i] = children[i]
                           /\ i >= job.at => children'[i] = children[i + 1]
      /\ NextChild /\ UNCHANGED <<setup, starts, stopped>> /\ faulted' = faulted
  BY DropDoes
<1>2. /\ holder \in Proc /\ job'.closing = FALSE
      /\ \A q \in Proc : op'[q] = op[q] \/ op'[q] = "none"
  BY <1>1, NextChildDoes
<1>3. UNCHANGED <<spawned, status, closed>>
  BY <1>1, IdleRuntime
<1>4. ClosedFits'
  BY <1>1, <1>2, <1>3, ClosedAreDone DEF OrderInv, ClosedFits, Done
<1>5. setup.inOrder => starts # 0
  BY <1>2, ProcIsWhole DEF OrderInv, OrderFits
<1>6. NoOrphans'
  <2>1. ASSUME NEW j \in Slots, j # job.at
        PROVE  \E i \in Slots' : children'[i] = children[j]
    <3>1. CASE j < job.at
      BY <1>1, <2>1, <3>1
    <3>2. CASE j > job.at
      <4>1. j - 1 \in Slots' /\ j - 1 >= job.at /\ (j - 1) + 1 = j
        BY <1>1, <2>1, <3>2
      <4>2. QED
        BY <1>1, <4>1
    <3>3. QED
      BY <1>1, <2>1, <3>1, <3>2
  <2>2. \A r \in Spawned : Tracked(r) => Tracked(r)' \/ r = Subject
    BY <2>1 DEF Tracked, Subject
  <2>3. QED
    BY <1>1, <1>3, <2>2 DEF OrderInv, NoOrphans, Spawned, Done
<1>7. OrderFits'
  <2>1. \A i \in Slots' : \E j \in Slots : children'[i] = children[j]
    BY <1>1
  <2>2. setup.inOrder => /\ \A i \in Slots : children[i].ref # 0
                         /\ \A q \in Proc : op[q] # "start"
    BY <1>5 DEF OrderInv, OrderFits
  <2>3. setup.inOrder => /\ \A i \in Slots' : children'[i].ref # 0
                         /\ \A q \in Proc : op'[q] # "start"
    BY <1>2, <2>1, <2>2
  <2>4. QED
    BY <1>1, <1>5, <2>3 DEF OrderFits
<1>8. QED
  BY <1>1, <1>4, <1>6, <1>7 DEF OrderInv, NoFault

LEMMA OrderPanics == ASSUME TeamInv, TeamInv', OrderInv, NEW r \in Ref, SupPanic(r) PROVE OrderInv'
<1>1. /\ spawned' = spawned /\ closed' = closed
      /\ \A q \in Ref \ {r} : status'[q] = status[q]
      /\ status[r] = "busy" /\ status'[r] = "crashed"
      /\ op' = [op EXCEPT ![r] = "crash"] /\ Slots' = Slots
      /\ \A i \in Slots : children'[i].ref = children[i].ref
      /\ UNCHANGED <<setup, starts, stopped, holder, job>> /\ faulted' = faulted
  BY PanicDoes
<1>2. \A q \in Ref : Done(q) => Done(q)'
  BY <1>1, DoneStays
<1>3. job.closing = TRUE => job.at \in Slots
  BY DEF TeamInv, JobFits, NoJob
<1>4. ClosedFits'
  BY <1>1, <1>2, <1>3 DEF OrderInv, ClosedFits, Subject
<1>5. NoOrphans'
  BY <1>1, <1>2, SpawnedAreRefs DEF OrderInv, NoOrphans, Tracked, Spawned
<1>6. OrderFits'
  <2>1. spawned # 0
    BY <1>1 DEF TeamInv, RuntimeInv, ActorsConsistent, Ref
  <2>2. \A q \in Proc : op'[q] = op[q] \/ op'[q] = "crash"
    BY <1>1 DEF TeamInv, SupTypeOK
  <2>3. QED
    BY <1>1, <2>1, <2>2 DEF OrderInv, OrderFits
<1>7. QED
  BY <1>1, <1>4, <1>5, <1>6 DEF OrderInv, NoFault

\* In order, the steps that would panic in the goroutine of a crash never are.
LEMMA NothingFaults ==
    ASSUME TeamInv, OrderInv, Fault
    PROVE  ~setup.inOrder
<1> SUFFICES ASSUME setup.inOrder PROVE FALSE
  OBVIOUS
<1>1. job.mode # "none" /\ job.at \in Slots /\ holder \in Proc
  BY DEF Fault, TeamInv, JobFits
<1>2. Subject # 0 /\ Subject \in Ref
  BY <1>1, RefsAreRefs, ProcIsWhole DEF OrderInv, OrderFits, Subject
<1>3. ~Done(Subject) /\ ~job.closing /\ closed[Subject]
  BY <1>2 DEF Fault
<1>4. QED
  BY <1>2, <1>3 DEF OrderInv, ClosedFits

LEMMA OrderFaults == ASSUME TeamInv, OrderInv, Fault PROVE OrderInv'
<1>1. /\ UNCHANGED <<spawned, status, closed, children, setup, starts, stopped, op, holder, job>>
      /\ Slots' = Slots
  BY IdleRuntime DEF Fault, listVars, lockVars, Slots
<1>2. QED
  BY <1>1, NothingFaults DEF OrderInv, ClosedFits, OrderFits, NoOrphans, NoFault, Tracked,
     Spawned, Done, Subject

LEMMA OrderStays == TeamInv /\ TeamInv' /\ OrderInv /\ [SupNext]_allVars => OrderInv'
<1> SUFFICES ASSUME TeamInv, TeamInv', OrderInv, [SupNext]_allVars PROVE OrderInv'
  OBVIOUS
<1>1. CASE UNCHANGED allVars
  BY <1>1 DEF allVars, vars, actorVars, supVars, listVars, lockVars, Slots,
     OrderInv, ClosedFits, OrderFits, NoOrphans, NoFault, Tracked, Spawned, Done, Subject
<1>2. QED
  BY <1>1, TeamSteps, OrderQuiet, OrderBegins, OrderStarts, OrderAdds, OrderCloses,
     OrderRespawns, OrderPasses, OrderDrops, OrderPanics, OrderFaults
-----------------------------------------------------------------------------
(* The fourth invariant: a stopped team goes down, child by child.          *)

\* The children of a stopped team have ended, those a running stopAll has yet
\* to come to excepted.
StopFits ==
    stopped /\ setup.inOrder /\ "add" \notin setup.clientOps =>
        \A i \in Slots : (job.mode = "stop" => i < job.at) => Done(children[i].ref)

\* A script does not do what it never does.
NoAdds == "add" \notin setup.clientOps => \A c \in Clients : op[c] # "add"

DownInv == StopFits /\ NoAdds

\* In order, whoever is stopped was started: its children have refs.
LEMMA StoppedHasRefs ==
    ASSUME TeamInv, OrderInv, setup.inOrder, stopped
    PROVE  starts # 0 /\ \A i \in Slots : children[i].ref \in Ref
  BY RefsAreRefs DEF OrderInv, OrderFits

\* Most steps leave the list and the job alone.
LEMMA DownKept ==
    ASSUME TeamInv, OrderInv, DownInv, UNCHANGED <<setup, stopped>>, Slots' = Slots,
           \A i \in Slots : children'[i].ref = children[i].ref,
           \A r \in Ref : Done(r) => Done(r)',
           job'.mode = job.mode, job'.at = job.at,
           \A c \in Clients : op'[c] = "add" => op[c] = "add" \/ "add" \in setup.clientOps
    PROVE  DownInv'
<1>1. StopFits'
  <2>1. ASSUME stopped, setup.inOrder, "add" \notin setup.clientOps, NEW i \in Slots,
               job.mode = "stop" => i < job.at
        PROVE  Done(children[i].ref)'
    <3>1. Done(children[i].ref) /\ children[i].ref \in Ref
      BY <2>1, StoppedHasRefs DEF DownInv, StopFits
    <3>2. status'[children[i].ref] \in {"exited", "crashed"}
      BY <3>1 DEF Done
    <3>3. QED
      BY <3>2 DEF Done
  <2>2. QED
    BY <2>1 DEF StopFits
<1>2. NoAdds'
  BY DEF DownInv, NoAdds
<1>3. QED
  BY <1>1, <1>2 DEF DownInv

LEMMA DownQuiet == ASSUME TeamInv, OrderInv, DownInv, QuietStep PROVE DownInv'
<1>1. /\ UNCHANGED <<setup, children, stopped, job>> /\ Slots' = Slots
      /\ \A q \in Ref : status'[q] = status[q] \/ status[q] \in {"unborn", "idle", "busy"}
      /\ \/ op' = op
         \/ \E p \in Proc, o \in Ops : Waits(p, o)
         \/ \E p \in Proc : op[p] \in {"children", "naming"} /\ op' = [op EXCEPT ![p] = "none"]
         \/ \E r \in Ref : IgnoreCrash(r) /\ op' = [op EXCEPT ![r] = "none"]
  BY QuietDoes
<1>2. \A r \in Ref : Done(r) => Done(r)'
  BY <1>1, DoneStays
<1>3. \A c \in Clients : op'[c] = "add" => op[c] = "add" \/ "add" \in setup.clientOps
  <2>1. op \in [Proc -> Ops \cup {"none", "crash", "naming"}]
    BY DEF TeamInv, SupTypeOK
  <2>2. ASSUME NEW p \in Proc, NEW o \in Ops, Waits(p, o), NEW c \in Clients, op'[c] = "add"
        PROVE  op[c] = "add" \/ "add" \in setup.clientOps
    BY <2>1, <2>2, ProcIsWhole DEF Waits, Requests
  <2>3. ASSUME NEW p \in Proc, op' = [op EXCEPT ![p] = "none"], NEW c \in Clients, op'[c] = "add"
        PROVE  op[c] = "add"
    BY <2>1, <2>3, ProcIsWhole
  <2>4. QED
    BY <1>1, <2>2, <2>3, ProcIsWhole
<1>4. QED
  BY <1>1, <1>2, <1>3, DownKept

LEMMA DownBegins == ASSUME TeamInv, TeamInv', OrderInv, OrderInv', DownInv, JobBegins PROVE DownInv'
<1>1. /\ UNCHANGED <<setup, status>> /\ Slots' = Slots /\ job.mode = "none"
      /\ \A i \in Slots : children'[i].ref = children[i].ref
  BY JobBeginsDoes
<1>2. PICK p \in Proc :
         /\ op[p] \in {"stop", "remove", "crash"}
         /\ \/ /\ UNCHANGED <<holder, job>> /\ op' = [op EXCEPT ![p] = "none"]
               /\ op[p] = "stop" => stopped' = TRUE /\ Slots = {}
               /\ op[p] = "remove" => stopped' = stopped
               /\ op[p] # "crash"
            \/ /\ holder' = p /\ op' = op /\ job'.closing = FALSE
               /\ \/ job'.mode = "stop" /\ job'.at = 1 /\ stopped' = TRUE
                  \/ job'.mode = "remove" /\ stopped' = stopped
                  \/ /\ job'.mode = "restart" /\ stopped' = FALSE /\ stopped = FALSE
                     /\ \E i \in Slots : children[i].ref = p /\ i \in job'.at..job'.last
  BY JobBeginsDoes
<1>3. NoAdds'
  BY <1>1, <1>2, ProcIsWhole DEF DownInv, NoAdds, TeamInv, SupTypeOK
<1>4. StopFits'
  <2>1. CASE job'.mode = "stop" /\ job'.at = 1
    <3>1. \A i \in Slots : ~(i < 1)
      BY RefsAreRefs
    <3>2. QED
      BY <1>1, <2>1, <3>1 DEF StopFits
  <2>2. CASE job'.mode # "stop" /\ stopped' = stopped
    BY <1>1, <2>2 DEF DownInv, StopFits, Done
  <2>3. CASE Slots = {}
    BY <1>1, <2>3 DEF StopFits
  <2>4. CASE stopped' = FALSE
    BY <2>4 DEF StopFits
  <2>5. QED
    BY <1>1, <1>2, <2>1, <2>2, <2>3, <2>4
<1>5. QED
  BY <1>3, <1>4 DEF DownInv

\* Start is not called again, and only a handler could still add a child to a
\* stopped team: none runs.
LEMMA DownSpawns ==
    ASSUME TeamInv, OrderInv, DownInv, NEW p \in Proc,
           Start(p) \/ \E n \in Names : AddChild(p, n)
    PROVE  DownInv'
<1>1. /\ setup' = setup /\ stopped' = stopped /\ job.mode = "none"
      /\ \A c \in Clients : op'[c] = "add" => op[c] = "add"
  <2>1. op \in [Proc -> Ops \cup {"none", "crash", "naming"}]
    BY DEF TeamInv, SupTypeOK
  <2>2. CASE Start(p)
    BY <2>1, <2>2, StartDoes, ProcIsWhole DEF NoJob
  <2>3. CASE \E n \in Names : AddChild(p, n)
    BY <2>1, <2>3, AddChildDoes, ProcIsWhole DEF NoJob
  <2>4. QED
    BY <2>2, <2>3
<1>2. ASSUME stopped, setup.inOrder, "add" \notin setup.clientOps
      PROVE  FALSE
  <2>1. starts # 0 /\ \A i \in Slots : Done(children[i].ref)
    BY <1>1, <1>2, StoppedHasRefs DEF DownInv, StopFits
  <2>2. CASE Start(p)
    <3>1. op[p] = "start"
      BY <2>2, StartDoes
    <3>2. QED
      BY <1>2, <2>1, <3>1 DEF OrderInv, OrderFits
  <2>3. CASE \E n \in Names : AddChild(p, n)
    <3>1. op[p] = "add"
      BY <2>3, AddChildDoes
    <3>2. p \in Ref /\ status[p] = "busy"
      BY <1>2, <3>1, ProcIsWhole DEF DownInv, NoAdds, TeamInv, OpsFit
    <3>3. p \in Spawned
      BY <3>2 DEF TeamInv, RuntimeInv, TypeOK, ActorsConsistent, Spawned, Ref
    <3>4. Done(p)
      BY <1>2, <2>1, <3>3 DEF OrderInv, NoOrphans, Tracked
    <3>5. QED
      BY <3>2, <3>4 DEF Done
  <2>4. QED
    BY <2>2, <2>3
<1>3. StopFits' /\ NoAdds'
  BY <1>1, <1>2 DEF DownInv, StopFits, NoAdds
<1>4. QED
  BY <1>3 DEF DownInv

LEMMA DownCloses == ASSUME TeamInv, OrderInv, DownInv, CloseChild PROVE DownInv'
<1>1. /\ status' = status /\ job'.mode = job.mode /\ job'.at = job.at
      /\ UNCHANGED <<setup, listVars, stopped, op>>
  BY CloseChildDoes
<1>2. UNCHANGED children /\ Slots' = Slots
  BY <1>1 DEF listVars, Slots
<1>3. \A r \in Ref : Done(r) => Done(r)'
  BY <1>1 DEF Done
<1>4. QED
  BY <1>1, <1>2, <1>3, DownKept

LEMMA DownPanics == ASSUME TeamInv, OrderInv, DownInv, NEW r \in Ref, SupPanic(r) PROVE DownInv'
<1>1. /\ \A q \in Ref \ {r} : status'[q] = status[q]
      /\ status[r] = "busy" /\ Slots' = Slots
      /\ \A i \in Slots : children'[i].ref = children[i].ref
      /\ UNCHANGED <<setup, stopped, job>>
      /\ op' = [op EXCEPT ![r] = "crash"]
  BY PanicDoes
<1>2. \A q \in Ref : Done(q) => Done(q)'
  BY <1>1, DoneStays
<1>3. \A c \in Clients : op'[c] = "add" => op[c] = "add"
  BY <1>1, ProcIsWhole DEF TeamInv, SupTypeOK
<1>4. QED
  BY <1>1, <1>2, <1>3, DownKept

\* A job goes on to the next child, or is done.
LEMMA DownMoves ==
    ASSUME TeamInv, TeamInv', OrderInv, DownInv, RespawnChild \/ PassChild \/ DropChild
    PROVE  DownInv'
<1>1. job.mode # "none" /\ NextChild /\ UNCHANGED <<setup, stopped>> /\ Done(Subject)
  BY DEF RespawnChild, PassChild, DropChild, Settles
<1>2. /\ job.at \in Slots /\ job.last \in job.at..Len(children)
      /\ \/ job.at < job.last /\ job'.mode = job.mode /\ job'.at = job.at + 1
         \/ job.at = job.last /\ job'.mode = "none"
      /\ \A q \in Proc : op'[q] = op[q] \/ op'[q] = "none"
  BY <1>1, NextChildDoes
<1>3. NoAdds'
  BY <1>1, <1>2, ProcIsWhole DEF DownInv, NoAdds
<1>4. StopFits'
  <2>1. CASE RespawnChild
    <3>1. stopped # TRUE /\ stopped \in BOOLEAN
      BY <2>1 DEF RespawnChild, Settles, TeamInv, JobFits, SupTypeOK
    <3>2. QED
      BY <1>1, <3>1 DEF StopFits
  <2>2. CASE PassChild
    <3>1. /\ job.mode = "stop" /\ job.last = Len(children)
          /\ UNCHANGED <<vars, listVars>>
      BY <2>2 DEF PassChild, Settles, TeamInv, JobFits
    <3>2. UNCHANGED <<status, children>> /\ Slots' = Slots
      BY <3>1, IdleRuntime DEF listVars, Slots
    <3>3. ASSUME stopped, setup.inOrder, "add" \notin setup.clientOps, NEW i \in Slots,
                 job'.mode = "stop" => i < job'.at
          PROVE  Done(children[i].ref)
      <4>1. i < job.at \/ i = job.at
        BY <1>2, <3>1, <3>3, RefsAreRefs
      <4>2. QED
        BY <1>1, <3>3, <4>1 DEF DownInv, StopFits, Subject
    <3>4. QED
      BY <1>1, <3>2, <3>3 DEF StopFits, Done
  <2>3. CASE DropChild
    <3>1. /\ UNCHANGED vars /\ job.mode = "remove"
          /\ Len(children) \in Nat /\ Slots = 1..Len(children) /\ Slots' = 1..Len(children) - 1
          /\ \A i \in Slots' : /\ i < job.at => children'[i] = children[i]
                               /\ i >= job.at => children'[i] = children[i + 1]
      BY <2>3, DropDoes
    <3>2. \A i \in Slots' : \E j \in Slots : children'[i] = children[j]
      BY <1>2, <3>1
    <3>3. stopped /\ setup.inOrder /\ "add" \notin setup.clientOps =>
             \A j \in Slots : Done(children[j].ref)
      BY <3>1 DEF DownInv, StopFits
    <3>4. QED
      BY <1>1, <3>1, <3>2, <3>3, IdleRuntime DEF StopFits, Done
  <2>4. QED
    BY <2>1, <2>2, <2>3
<1>5. QED
  BY <1>3, <1>4 DEF DownInv

LEMMA DownStays ==
    TeamInv /\ TeamInv' /\ OrderInv /\ OrderInv' /\ DownInv /\ [SupNext]_allVars => DownInv'
<1> SUFFICES ASSUME TeamInv, TeamInv', OrderInv, OrderInv', DownInv, [SupNext]_allVars
             PROVE  DownInv'
  OBVIOUS
<1>1. CASE UNCHANGED allVars \/ Fault
  <2>1. UNCHANGED <<status, children, setup, stopped, op, job>> /\ Slots' = Slots
    BY <1>1 DEF allVars, Fault, vars, actorVars, supVars, listVars, lockVars, Slots
  <2>2. \A r \in Ref : Done(r) => Done(r)'
    BY <2>1 DEF Done
  <2>3. QED
    BY <2>1, <2>2, DownKept
<1>2. QED
  BY <1>1, TeamSteps, DownQuiet, DownBegins, DownSpawns, DownCloses, DownMoves, DownPanics

-----------------------------------------------------------------------------
(* What follows for every execution.                                        *)

LEMMA SafetyStart == SupInit => TeamInv /\ CrashInv /\ OrderInv /\ DownInv
<1> SUFFICES ASSUME SupInit PROVE TeamInv /\ CrashInv /\ OrderInv /\ DownInv
  OBVIOUS
<1>1. TeamInv
  BY TeamStart
<1>2. /\ spawned = 0 /\ \A r \in Ref : closed[r] = FALSE
      /\ children = [i \in 1..Len(setup.specs) |->
                       [name |-> setup.specs[i], ref |-> 0, crashTimes |-> {}, panics |-> {}]]
      /\ starts = 0 /\ stopped = FALSE /\ faulted = FALSE
      /\ op = [p \in Proc |-> "none"] /\ holder = NoOne /\ job = NoJob
  BY DEF SupInit, Init
<1>3. /\ \A i \in Slots : children[i].ref = 0
      /\ job.mode = "none" /\ job.closing = FALSE
      /\ \A p \in Proc : op[p] = "none"
  <2>1. Len(setup.specs) \in Nat
    BY SetupType DEF SupInit
  <2>2. \A i \in 1..Len(setup.specs) : children[i].ref = 0
    BY <1>2
  <2>3. Slots = 1..Len(setup.specs)
    <3>1. children = [i \in 1..Len(setup.specs) |-> children[i]]
      BY <1>2
    <3>2. \A i \in 1..Len(setup.specs) : children[i] \in {children[j] : j \in 1..Len(setup.specs)}
      OBVIOUS
    <3>3. QED
      BY <2>1, <3>1, <3>2, IsAList DEF Slots
  <2>4. QED
    BY <1>2, <2>2, <2>3 DEF NoJob
<1>4. CrashInv
  BY <1>3 DEF CrashInv, CrashIsSupervised, CrashedIsAhead
<1>5. OrderInv
  BY <1>2, <1>3 DEF OrderInv, ClosedFits, OrderFits, NoOrphans, NoFault, Spawned
<1>6. DownInv
  BY <1>2, <1>3, ProcIsWhole DEF DownInv, StopFits, NoAdds
<1>7. QED
  BY <1>1, <1>4, <1>5, <1>6

LEMMA CrashAlways == SupSpec => []CrashInv
  BY SafetyStart, TeamAlways, CrashStays, PTL DEF SupSpec

LEMMA OrderAlways == SupSpec => []OrderInv
  BY SafetyStart, TeamAlways, OrderStays, PTL DEF SupSpec

LEMMA DownAlways == SupSpec => []DownInv
  BY SafetyStart, TeamAlways, OrderAlways, DownStays, PTL DEF SupSpec

\* Whoever the supervisor spawned is listed or has ended, and who is listed and
\* crashed is about to be handled, in every interleaving of scripts, handlers
\* and crashes.
THEOREM NobodyIsForgotten == SupSpec => []NoneIsForgotten
<1>1. CrashInv /\ OrderInv => NoneIsForgotten
  BY DEF CrashInv, OrderInv, NoneIsForgotten
<1>2. QED
  BY <1>1, CrashAlways, OrderAlways, PTL

\* Scripts that follow the lifecycle cannot make the supervisor close a mailbox
\* twice or dereference a nil ref.
THEOREM NothingPanics == SupSpec => []NoFault
<1>1. OrderInv => NoFault
  BY DEF OrderInv
<1>2. QED
  BY <1>1, OrderAlways, PTL

\* A team that was stopped, by a script or by its budget, is down once the
\* mutex is free.
THEOREM StoppedIsDown == SupSpec => []StoppedTeamIsDown
<1>1. TeamInv /\ DownInv => StoppedTeamIsDown
  <2> SUFFICES ASSUME TeamInv, DownInv PROVE StoppedTeamIsDown
    OBVIOUS
  <2>1. holder = NoOne => job.mode = "none"
    BY ProcIsWhole DEF TeamInv, JobFits
  <2>2. QED
    BY <2>1 DEF DownInv, StopFits, StoppedTeamIsDown
<1>2. QED
  BY <1>1, TeamAlways, DownAlways, PTL
-----------------------------------------------------------------------------
(* The fifth invariant: what a child's crashTimes record of its panics.     *)

\* Actors that are down, and those among them whose handleCrash is to come.
Down    == {r \in Ref : status[r] = "crashed"}
Waiting == {r \in Ref : op[r] = "crash" /\ ~(job.mode = "restart" /\ holder = r)}

\* Each incarnation of child c panicked at most once, by t; its crash is still
\* to be handled, or is recorded at that time or later, or left a window of w.
Counted(c, down, waiting, w, t) ==
    \A e \in c.panics :
        /\ e[2] <= t /\ e[1] \in down
        /\ \A f \in c.panics : f[1] = e[1] => f = e
        /\ \/ e[1] \in waiting /\ c.ref = e[1]
           \/ \E f \in c.crashTimes : f[1] = e[1] /\ e[2] <= f[2]
           \/ e[2] + w < t

\* The teams the budget is stated of, as long as they run.
Budgeted == setup.strategy = "one_for_one" /\ setup.inOrder /\ ~stopped

BudgetInv ==
    /\ \A i \in Slots : IsFiniteSet(children[i].crashTimes)
    /\ Budgeted =>
          /\ job.mode = "restart" => job.at = job.last /\ children[job.at].ref = holder
          /\ \A i \in Slots : /\ Cardinality(children[i].crashTimes) <= setup.maxRestarts
                              /\ Counted(children[i], Down, Waiting, setup.window, now)

LEMMA CountedStays ==
    ASSUME NEW c \in Child, NEW d \in Child, d.panics = c.panics, d.crashTimes = c.crashTimes,
           NEW down, NEW down2, down \subseteq down2, NEW waiting, NEW waiting2,
           NEW w \in Nat, NEW t \in Nat, NEW t2 \in Nat, t <= t2,
           c.ref \in waiting => d.ref = c.ref /\ c.ref \in waiting2,
           Counted(c, down, waiting, w, t)
    PROVE  Counted(d, down2, waiting2, w, t2)
<1>1. ASSUME NEW e \in c.panics
      PROVE  /\ e[2] <= t2 /\ e[1] \in down2
             /\ \A f \in c.panics : f[1] = e[1] => f = e
             /\ \/ e[1] \in waiting2 /\ d.ref = e[1]
                \/ \E f \in c.crashTimes : f[1] = e[1] /\ e[2] <= f[2]
                \/ e[2] + w < t2
  <2>1. e[2] \in Nat
    BY DEF Child, Event
  <2>2. e[2] <= t /\ e[1] \in down /\ \A f \in c.panics : f[1] = e[1] => f = e
    BY DEF Counted
  <2>3. \/ e[1] \in waiting /\ c.ref = e[1]
        \/ \E f \in c.crashTimes : f[1] = e[1] /\ e[2] <= f[2]
        \/ e[2] + w < t
    BY DEF Counted
  <2>4. e[2] <= t2 /\ (e[2] + w < t => e[2] + w < t2)
    BY <2>1, <2>2
  <2>5. QED
    BY <2>2, <2>3, <2>4
<1>2. QED
  BY <1>1 DEF Counted

\* The child panics.
LEMMA CountedPanics ==
    ASSUME NEW c \in Child, NEW d \in Child, NEW r \in Ref, c.ref = r, d.ref = r,
           NEW down, NEW down2, down \subseteq down2, NEW waiting, NEW waiting2,
           r \notin down, r \in down2, r \in waiting2,
           NEW w \in Nat, NEW t \in Nat,
           d.panics = c.panics \cup {<<r, t>>}, d.crashTimes = c.crashTimes,
           Counted(c, down, waiting, w, t)
    PROVE  Counted(d, down2, waiting2, w, t)
<1>1. ASSUME NEW e \in c.panics
      PROVE  /\ e[1] # r
             /\ e[2] <= t /\ e[1] \in down2
             /\ \A f \in c.panics : f[1] = e[1] => f = e
             /\ \/ \E f \in c.crashTimes : f[1] = e[1] /\ e[2] <= f[2]
                \/ e[2] + w < t
  BY DEF Counted
<1>2. QED
  BY <1>1 DEF Counted

\* Its crash is handled.
LEMMA CountedIsRecorded ==
    ASSUME NEW c \in Child, NEW d \in Child, NEW r \in Ref, c.ref = r,
           NEW down, NEW waiting, NEW waiting2, NEW w \in Nat, NEW t \in Nat,
           d.panics = c.panics,
           d.crashTimes = {e \in c.crashTimes \cup {<<r, t>>} : e[2] + w >= t},
           Counted(c, down, waiting, w, t)
    PROVE  Counted(d, down, waiting2, w, t)
<1>1. ASSUME NEW e \in c.panics
      PROVE  \/ \E f \in d.crashTimes : f[1] = e[1] /\ e[2] <= f[2]
             \/ e[2] + w < t
  <2>1. e[2] \in Nat /\ e[2] <= t
    BY DEF Child, Event, Counted
  <2>2. CASE c.ref = e[1]
    <3>1. <<r, t>> \in d.crashTimes
      OBVIOUS
    <3>2. QED
      BY <2>1, <2>2, <3>1
  <2>3. ASSUME NEW f \in c.crashTimes, f[1] = e[1], e[2] <= f[2]
        PROVE  \/ \E g \in d.crashTimes : g[1] = e[1] /\ e[2] <= g[2]
               \/ e[2] + w < t
    <3>1. f[2] \in Nat
      BY DEF Child, Event
    <3>2. CASE f[2] + w >= t
      BY <2>3, <3>2
    <3>3. CASE ~(f[2] + w >= t)
      BY <2>1, <2>3, <3>1, <3>3
    <3>4. QED
      BY <3>2, <3>3
  <2>4. QED
    BY <2>2, <2>3 DEF Counted
<1>2. QED
  BY <1>1 DEF Counted

\* What a step that records nothing has to keep.
LEMMA BudgetKept ==
    ASSUME TeamInv, TeamInv', BudgetInv, setup' = setup, now <= now',
           Budgeted' => Budgeted,
           \A r \in Ref : status[r] = "crashed" => status'[r] = "crashed",
           \A i \in Slots' :
              \/ children'[i].crashTimes = {} /\ children'[i].panics = {}
              \/ \E j \in Slots :
                    /\ children'[i].crashTimes = children[j].crashTimes
                    /\ children'[i].panics = children[j].panics
                    /\ Budgeted /\ children[j].ref \in Waiting =>
                          children'[i].ref = children[j].ref /\ children[j].ref \in Waiting',
           Budgeted /\ job'.mode = "restart" =>
              /\ job.mode = "restart" /\ job'.at = job.at /\ job'.last = job.last
              /\ children'[job.at].ref = children[job.at].ref /\ holder' = holder
    PROVE  BudgetInv'
<1>1. \A i \in Slots' : IsFiniteSet(children'[i].crashTimes)
  BY FS_EmptySet DEF BudgetInv
<1>2. ASSUME Budgeted' PROVE Budgeted
  BY <1>2
<1>3. ASSUME Budgeted', job'.mode = "restart"
      PROVE  job'.at = job'.last /\ children'[job'.at].ref = holder'
  BY <1>2, <1>3 DEF BudgetInv
<1>4. ASSUME Budgeted', NEW i \in Slots'
      PROVE  /\ Cardinality(children'[i].crashTimes) <= setup.maxRestarts
             /\ Counted(children'[i], Down', Waiting', setup.window, now')
  <2>1. /\ setup.maxRestarts \in Nat /\ setup.window \in Nat /\ now \in Nat /\ now' \in Nat
        /\ children'[i] \in Child /\ \A j \in Slots : children[j] \in Child
        /\ Down \subseteq Down'
    <3>1. children'[i] \in Child
      BY <1>4 DEF TeamInv, SupTypeOK, Slots
    <3>2. QED
      BY <3>1, SetupType, ChildType DEF TeamInv, SupTypeOK, Down
  <2>2. CASE children'[i].crashTimes = {} /\ children'[i].panics = {}
    BY <2>1, <2>2, FS_EmptySet DEF Counted
  <2>3. CASE \E j \in Slots :
                /\ children'[i].crashTimes = children[j].crashTimes
                /\ children'[i].panics = children[j].panics
                /\ Budgeted /\ children[j].ref \in Waiting =>
                      children'[i].ref = children[j].ref /\ children[j].ref \in Waiting'
    <3>1. PICK j \in Slots :
             /\ children'[i].crashTimes = children[j].crashTimes
             /\ children'[i].panics = children[j].panics
             /\ children[j].ref \in Waiting =>
                   children'[i].ref = children[j].ref /\ children[j].ref \in Waiting'
      BY <1>2, <1>4, <2>3
    <3>2. /\ Cardinality(children[j].crashTimes) <= setup.maxRestarts
          /\ Counted(children[j], Down, Waiting, setup.window, now)
      BY <1>2, <1>4 DEF BudgetInv
    <3>3. QED
      BY <2>1, <3>1, <3>2, CountedStays
  <2>4. QED
    BY <1>4, <2>2, <2>3
<1>5. QED
  BY <1>1, <1>3, <1>4 DEF BudgetInv

LEMMA TimeGoesOn == ASSUME TeamInv, [SupNext]_allVars PROVE now \in Nat /\ now <= now'
<1>1. now \in Nat
  BY DEF TeamInv, SupTypeOK
<1>2. now' = now \/ now' = now + 1
  <2>1. CASE UNCHANGED allVars
    BY <2>1 DEF allVars, supVars
  <2>2. ASSUME NEW p \in Proc, MethodStep(p) PROVE now' = now
    BY <2>2 DEF MethodStep, Start, Stop, Children, AddChild, NameChild, RemoveChild
  <2>3. ASSUME NEW r \in Ref, IgnoreCrash(r) \/ \E i \in Slots : HandleCrash(r, i) PROVE now' = now
    BY <2>3 DEF IgnoreCrash, HandleCrash
  <2>4. CASE CloseChild \/ Fault \/ RespawnChild \/ PassChild \/ DropChild
    BY <2>4 DEF CloseChild, Fault, RespawnChild, PassChild, DropChild
  <2>5. ASSUME NEW r \in Ref, SupReceive(r) \/ SupFinish(r) \/ SupExit(r) \/ SupPanic(r) PROVE now' = now
    BY <2>5 DEF SupReceive, SupFinish, SupExit, SupPanic, supVars
  <2>6. CASE Calls
    BY <2>6, CallsDo DEF supVars
  <2>7. ASSUME NEW p \in Proc, NEW o \in Ops, Waits(p, o) PROVE now' = now
    BY <2>7 DEF Waits
  <2>8. CASE Tick
    BY <2>8 DEF Tick
  <2>9. QED
    BY <2>1, <2>2, <2>3, <2>4, <2>5, <2>6, <2>7, <2>8, StepKinds
<1>3. QED
  BY <1>1, <1>2

\* Steps that leave the list, the job and the actors' ends alone.
LEMMA BudgetIdles ==
    ASSUME TeamInv, TeamInv', BudgetInv, now <= now',
           UNCHANGED <<setup, children, stopped, holder>>, Slots' = Slots,
           job'.mode = job.mode, job'.at = job.at, job'.last = job.last,
           \A r \in Ref : status[r] = "crashed" => status'[r] = "crashed",
           \A r \in Ref : op[r] = "crash" =>
              op'[r] = "crash" \/ stopped \/ \A i \in Slots : children[i].ref # r
    PROVE  BudgetInv'
<1>1. Budgeted' = Budgeted
  BY DEF Budgeted
<1>2. ASSUME NEW i \in Slots, Budgeted, children[i].ref \in Waiting
      PROVE  children[i].ref \in Waiting'
  BY <1>2 DEF Budgeted, Waiting
<1>3. QED
  BY <1>1, <1>2, BudgetKept

LEMMA BudgetQuiet == ASSUME TeamInv, TeamInv', BudgetInv, QuietStep, now <= now' PROVE BudgetInv'
<1>1. /\ UNCHANGED <<setup, children, stopped, holder, job>> /\ Slots' = Slots
      /\ \A q \in Ref : status[q] = "crashed" => status'[q] = "crashed"
      /\ \/ op' = op
         \/ \E p \in Proc, o \in Ops : Waits(p, o)
         \/ \E p \in Proc : op[p] \in {"children", "naming"} /\ op' = [op EXCEPT ![p] = "none"]
         \/ \E r \in Ref : IgnoreCrash(r) /\ op' = [op EXCEPT ![r] = "none"]
  BY QuietDoes
<1>2. op \in [Proc -> Ops \cup {"none", "crash", "naming"}]
  BY DEF TeamInv, SupTypeOK
<1>3. ASSUME NEW r \in Ref, op[r] = "crash"
      PROVE  op'[r] = "crash" \/ stopped \/ \A i \in Slots : children[i].ref # r
  <2>1. ASSUME NEW p \in Proc, NEW o, op[p] # "crash", op' = [op EXCEPT ![p] = o]
        PROVE  op'[r] = "crash"
    BY <1>2, <1>3, <2>1, ProcIsWhole
  <2>2. ASSUME NEW p \in Proc, NEW o \in Ops, Waits(p, o)
        PROVE  op'[r] = "crash"
    BY <2>1, <2>2 DEF Waits, Requests
  <2>3. ASSUME NEW q \in Ref, IgnoreCrash(q), op' = [op EXCEPT ![q] = "none"]
        PROVE  op'[r] = "crash" \/ stopped \/ \A i \in Slots : children[i].ref # r
    <3>1. stopped \/ \A i \in Slots : children[i].ref # q
      BY <2>3 DEF IgnoreCrash, Tracked
    <3>2. q # r => op'[r] = "crash"
      BY <1>2, <1>3, <2>3, ProcIsWhole
    <3>3. QED
      BY <3>1, <3>2
  <2>4. QED
    BY <1>1, <1>3, <2>1, <2>2, <2>3
<1>4. QED
  BY <1>1, <1>3, BudgetIdles

LEMMA BudgetStops == ASSUME TeamInv, TeamInv', BudgetInv, NEW p \in Proc, Stop(p) PROVE BudgetInv'
<1>1. stopped' = TRUE /\ UNCHANGED children /\ Slots' = Slots
  BY DEF Stop, listVars, Slots
<1>2. QED
  BY <1>1 DEF BudgetInv, Budgeted

LEMMA BudgetRemoves ==
    ASSUME TeamInv, TeamInv', BudgetInv, NEW p \in Proc, NEW r \in known, RemoveChild(p, r)
    PROVE  BudgetInv'
<1>1. /\ op[p] = "remove" /\ holder = NoOne /\ job.mode = "none"
      /\ \/ \E i \in Slots : Works(p, "remove", i, i)
         \/ op' = [op EXCEPT ![p] = "none"] /\ UNCHANGED <<holder, job>>
      /\ UNCHANGED <<setup, vars, listVars, stopped, now>>
  BY EntersDoes DEF RemoveChild, Leaves
<1>2. UNCHANGED <<children, status>> /\ Slots' = Slots /\ now \in Nat
  BY <1>1, IdleRuntime DEF listVars, Slots, TeamInv, SupTypeOK
<1>3. /\ job'.mode # "restart"
      /\ \A q \in Ref : op[q] = "crash" => op'[q] = "crash"
  <2>1. op \in [Proc -> Ops \cup {"none", "crash", "naming"}]
    BY DEF TeamInv, SupTypeOK
  <2>2. CASE \E i \in Slots : Works(p, "remove", i, i)
    <3>1. \A i \in Slots : i <= i
      BY RefsAreRefs
    <3>2. job'.mode = "remove" /\ op' = op
      BY <2>2, <3>1 DEF Works
    <3>3. QED
      BY <3>2
  <2>3. CASE op' = [op EXCEPT ![p] = "none"] /\ UNCHANGED <<holder, job>>
    BY <1>1, <2>1, <2>3, ProcIsWhole
  <2>4. QED
    BY <1>1, <2>2, <2>3
<1>4. \A q \in Ref : q \in Waiting => q \in Waiting'
  BY <1>3 DEF Waiting
<1>5. Waiting \subseteq Ref /\ Budgeted' = Budgeted
  BY <1>1 DEF Waiting, Budgeted
<1>6. QED
  BY <1>1, <1>2, <1>3, <1>4, <1>5, BudgetKept

LEMMA BudgetSpawns ==
    ASSUME TeamInv, TeamInv', OrderInv, BudgetInv, NEW p \in Proc,
           Start(p) \/ \E n \in Names : AddChild(p, n)
    PROVE  BudgetInv'
<1>1. CASE Start(p)
  <2>1. /\ job = NoJob /\ job' = job /\ Slots' = Slots /\ op[p] = "start"
        /\ UNCHANGED <<setup, stopped, now>>
        /\ \A i \in Slots : SameChild(children'[i], children[i])
        /\ \A r \in Ref : status[r] = "unborn" \/ status'[r] = status[r]
    BY <1>1, StartDoes
  <2>2. ASSUME Budgeted, NEW i \in Slots
        PROVE  children[i].ref \notin Waiting
    <3>1. spawned = 0
      BY <2>1, <2>2 DEF Budgeted, OrderInv, OrderFits
    <3>2. children[i].ref = 0
      BY <3>1, RefsAreRefs
    <3>3. QED
      BY <3>2 DEF Waiting, Ref
  <2>3. now \in Nat /\ Budgeted' = Budgeted /\ job'.mode # "restart"
    BY <2>1 DEF Budgeted, NoJob, TeamInv, SupTypeOK
  <2>4. \A i \in Slots : /\ children'[i].crashTimes = children[i].crashTimes
                         /\ children'[i].panics = children[i].panics
    BY <2>1 DEF SameChild
  <2>5. QED
    BY <2>1, <2>2, <2>3, <2>4, BudgetKept
<1>2. CASE \E n \in Names : AddChild(p, n)
  <2>1. /\ job = NoJob /\ job' = job /\ op[p] = "add" /\ op' = [op EXCEPT ![p] = "naming"]
        /\ UNCHANGED <<setup, stopped, now, holder>>
        /\ \A r \in Ref : status[r] = "unborn" \/ status'[r] = status[r]
        /\ Len(children) \in Nat /\ Slots = 1..Len(children) /\ Slots' = 1..Len(children) + 1
        /\ \A i \in Slots : children'[i] = children[i]
        /\ children'[Len(children) + 1].crashTimes = {}
        /\ children'[Len(children) + 1].panics = {}
    BY <1>2, AddChildDoes
  <2>2. \A q \in Ref : op[q] = "crash" => op'[q] = "crash"
    BY <2>1, ProcIsWhole DEF TeamInv, SupTypeOK
  <2>3. \A q \in Waiting : q \in Waiting'
    BY <2>1, <2>2 DEF Waiting
  <2>4. now \in Nat /\ Budgeted' = Budgeted /\ job'.mode # "restart"
    BY <2>1 DEF Budgeted, NoJob, TeamInv, SupTypeOK
  <2>5. \A i \in Slots' : i \in Slots \/ i = Len(children) + 1
    BY <2>1
  <2>6. QED
    BY <2>1, <2>3, <2>4, <2>5, BudgetKept
<1>3. QED
  BY <1>1, <1>2

LEMMA BudgetCloses == ASSUME TeamInv, TeamInv', BudgetInv, CloseChild PROVE BudgetInv'
<1>1. /\ status' = status /\ job'.mode = job.mode /\ job'.at = job.at /\ job'.last = job.last
      /\ UNCHANGED <<setup, listVars, stopped, now, op, holder>>
  BY CloseChildDoes
<1>2. UNCHANGED children /\ Slots' = Slots /\ now \in Nat
  BY <1>1 DEF listVars, Slots, TeamInv, SupTypeOK
<1>3. QED
  BY <1>1, <1>2, BudgetIdles

\* The crashed child is restarted: its crash was recorded when that was decided.
LEMMA BudgetRespawns == ASSUME TeamInv, TeamInv', BudgetInv, RespawnChild PROVE BudgetInv'
<1>1. /\ job.mode = "restart" /\ job.at \in Slots /\ spawned \in Nat
      /\ \A r \in Ref : status[r] = "unborn" \/ status'[r] = status[r]
      /\ Slots' = Slots
      /\ \A i \in Slots \ {job.at} : children'[i] = children[i]
      /\ SameChild(children'[job.at], children[job.at])
      /\ NextChild /\ UNCHANGED <<setup, stopped, now>>
  BY RespawnDoes
<1>2. /\ holder \in Proc
      /\ job.at \in Int /\ job.last \in Int
      /\ \/ job.at < job.last
         \/ /\ job'.mode = "none" /\ \A q \in Proc \ {holder} : op'[q] = op[q]
  BY <1>1, NextChildDoes, RefsAreRefs
<1>3. ASSUME Budgeted
      PROVE  /\ job'.mode = "none" /\ \A q \in Proc \ {holder} : op'[q] = op[q]
             /\ children[job.at].ref = holder
  BY <1>1, <1>2, <1>3 DEF BudgetInv
<1>4. ASSUME Budgeted, NEW i \in Slots, children[i].ref \in Waiting
      PROVE  children'[i].ref = children[i].ref /\ children[i].ref \in Waiting'
  <2>1. children[i].ref # holder /\ children[i].ref \in Ref /\ op[children[i].ref] = "crash"
    BY <1>1, <1>4 DEF Waiting
  <2>2. i # job.at
    BY <1>3, <1>4, <2>1
  <2>3. op'[children[i].ref] = "crash"
    BY <1>3, <1>4, <2>1, ProcIsWhole
  <2>4. QED
    BY <1>1, <1>3, <1>4, <2>1, <2>2, <2>3 DEF Waiting
<1>5. \A i \in Slots : /\ children'[i].crashTimes = children[i].crashTimes
                       /\ children'[i].panics = children[i].panics
  BY <1>1 DEF SameChild
<1>6. now \in Nat /\ Budgeted' = Budgeted
  BY <1>1 DEF Budgeted, TeamInv, SupTypeOK
<1>7. QED
  BY <1>1, <1>3, <1>4, <1>5, <1>6, BudgetKept

LEMMA BudgetPasses == ASSUME TeamInv, TeamInv', BudgetInv, PassChild PROVE BudgetInv'
<1>1. stopped' /\ UNCHANGED children /\ Slots' = Slots
  BY DEF PassChild, Settles, listVars, Slots, TeamInv, JobFits
<1>2. QED
  BY <1>1 DEF BudgetInv, Budgeted

LEMMA BudgetDrops == ASSUME TeamInv, TeamInv', BudgetInv, DropChild PROVE BudgetInv'
<1>1. /\ UNCHANGED vars /\ job.mode = "remove" /\ job.at \in Slots /\ job.at = job.last
      /\ Len(children) \in Nat /\ Slots = 1..Len(children) /\ Slots' = 1..Len(children) - 1
      /\ \A i \in Slots' : /\ i < job.at => children'[i] = children[i]
                           /\ i >= job.at => children'[i] = children[i + 1]
      /\ NextChild /\ UNCHANGED <<setup, stopped, now>>
  BY DropDoes
<1>2. /\ UNCHANGED status /\ holder \in Proc /\ job'.mode = "none"
      /\ \A q \in Proc \ {holder} : op'[q] = op[q]
  BY <1>1, IdleRuntime, NextChildDoes
<1>3. op[holder] = "remove"
  BY <1>1 DEF TeamInv, JobFits
<1>4. \A q \in Waiting : q \in Waiting'
  BY <1>1, <1>2, <1>3, ProcIsWhole DEF Waiting
<1>5. \A i \in Slots' : \E j \in Slots : children'[i] = children[j]
  BY <1>1
<1>6. \A i \in Slots' : \E j \in Slots :
         /\ children'[i].crashTimes = children[j].crashTimes
         /\ children'[i].panics = children[j].panics
         /\ children[j].ref \in Waiting =>
               children'[i].ref = children[j].ref /\ children[j].ref \in Waiting'
  BY <1>4, <1>5
<1>7. now \in Nat /\ now' = now /\ setup' = setup /\ Budgeted' = Budgeted
  BY <1>1 DEF Budgeted, TeamInv, SupTypeOK
<1>8. QED
  BY <1>2, <1>6, <1>7, BudgetKept

LEMMA BudgetPanics == ASSUME TeamInv, TeamInv', BudgetInv, NEW r \in Ref, SupPanic(r) PROVE BudgetInv'
<1>1. /\ \A q \in Ref \ {r} : status'[q] = status[q]
      /\ status[r] = "busy" /\ status'[r] = "crashed"
      /\ op[r] = "none" /\ op' = [op EXCEPT ![r] = "crash"] /\ Slots' = Slots
      /\ \A i \in Slots :
            /\ children'[i].ref = children[i].ref
            /\ children'[i].crashTimes = children[i].crashTimes
            /\ children'[i].panics = children[i].panics \cup
                  (IF children[i].ref = r THEN {<<r, now>>} ELSE {})
      /\ UNCHANGED <<setup, stopped, now, holder, job>>
  BY PanicDoes
<1>2. op'[r] = "crash" /\ \A q \in Proc : op[q] = "crash" => op'[q] = "crash"
  BY <1>1, ProcIsWhole DEF TeamInv, SupTypeOK
<1>3. /\ Down \subseteq Down' /\ r \notin Down /\ r \in Down'
      /\ \A q \in Waiting : q \in Waiting'
  BY <1>1, <1>2, ProcIsWhole DEF Down, Waiting
<1>4. r \in Waiting'
  <2>1. job.mode = "restart" => op[holder] = "crash"
    BY DEF TeamInv, JobFits
  <2>2. QED
    BY <1>1, <1>2, <2>1 DEF Waiting
<1>5. /\ setup.maxRestarts \in Nat /\ setup.window \in Nat /\ now \in Nat /\ Budgeted' = Budgeted
      /\ \A i \in Slots : children[i] \in Child /\ children'[i] \in Child
  <2>1. \A i \in Slots : children'[i] \in Child
    BY <1>1 DEF TeamInv, SupTypeOK, Slots
  <2>2. QED
    BY <1>1, <2>1, SetupType, ChildType DEF TeamInv, SupTypeOK, Budgeted
<1>6. ASSUME Budgeted, NEW i \in Slots
      PROVE  Counted(children'[i], Down', Waiting', setup.window, now)
  <2>1. Counted(children[i], Down, Waiting, setup.window, now)
    BY <1>6 DEF BudgetInv
  <2>2. CASE children[i].ref = r
    <3>1. children'[i].panics = children[i].panics \cup {<<r, now>>}
      BY <1>1, <2>2
    <3>2. QED
      BY <1>1, <1>3, <1>4, <1>5, <1>6, <2>1, <2>2, <3>1, CountedPanics
  <2>3. CASE children[i].ref # r
    <3>1. children'[i].panics = children[i].panics
      BY <1>1, <2>3
    <3>2. QED
      BY <1>1, <1>3, <1>5, <1>6, <2>1, <3>1, CountedStays
  <2>4. QED
    BY <2>2, <2>3
<1>7. job.mode = "restart" => job.at \in Slots
  BY DEF TeamInv, JobFits
<1>8. QED
  BY <1>1, <1>5, <1>6, <1>7 DEF BudgetInv

LEMMA BudgetCrashes ==
    ASSUME TeamInv, TeamInv', BudgetInv, NEW r \in Ref, NEW i \in Slots, HandleCrash(r, i)
    PROVE  BudgetInv'
<1>1. /\ UNCHANGED vars
      /\ holder = NoOne /\ op[r] = "crash" /\ job = NoJob
      /\ children[i].ref = r /\ Slots' = Slots
      /\ \A j \in Slots \ {i} : children'[j] = children[j]
      /\ children'[i].ref = r
      /\ children'[i].crashTimes = InWindow(r, i)
      /\ children'[i].panics = children[i].panics
      /\ GivesUp(r, i) \/ Restarts(r, i)
      /\ UNCHANGED <<setup, now>>
  BY HandleCrashDoes
<1>2. UNCHANGED status /\ Down' = Down
  BY <1>1, IdleRuntime DEF Down
<1>3. /\ setup.maxRestarts \in Nat /\ setup.window \in Nat /\ now \in Nat
      /\ \A j \in Slots : children[j] \in Child /\ children'[j] \in Child
  <2>1. \A j \in Slots : children'[j] \in Child
    BY <1>1 DEF TeamInv, SupTypeOK, Slots
  <2>2. QED
    BY <2>1, SetupType, ChildType DEF TeamInv, SupTypeOK
<1>4. IsFiniteSet(InWindow(r, i))
  <2>1. IsFiniteSet(children[i].crashTimes \cup {<<r, now>>})
    BY FS_AddElement DEF BudgetInv
  <2>2. InWindow(r, i) \in SUBSET (children[i].crashTimes \cup {<<r, now>>})
    BY DEF InWindow, Recent
  <2>3. QED
    BY <2>1, <2>2, FS_Subset
<1>5. \A j \in Slots' : IsFiniteSet(children'[j].crashTimes)
  BY <1>1, <1>4 DEF BudgetInv
<1>6. CASE GivesUp(r, i)
  <2>1. stopped' = TRUE
    BY <1>6 DEF GivesUp
  <2>2. QED
    BY <1>5, <2>1 DEF BudgetInv, Budgeted
<1>7. CASE Restarts(r, i)
  <2>1. ASSUME Budgeted
        PROVE  /\ job'.mode = "restart" /\ job'.at = i /\ job'.last = i /\ holder' = r /\ op' = op
               /\ Cardinality(InWindow(r, i)) <= setup.maxRestarts
    <3>1. FirstAffected(i) = i /\ LastAffected(i) = i /\ i <= i
      BY <2>1, AffectedFit, RefsAreRefs DEF Budgeted
    <3>2. Cardinality(InWindow(r, i)) \in Nat
      BY <1>4, FS_CardinalityType
    <3>3. QED
      BY <1>3, <1>7, <3>1, <3>2 DEF Restarts, Works
  <2>2. Budgeted' = Budgeted
    BY <1>1, <1>7 DEF Budgeted, Restarts
  <2>3. ASSUME Budgeted, NEW j \in Slots, j # i, children[j].ref \in Waiting
        PROVE  children[j].ref \in Waiting'
    <3>1. children[j].ref # r
      BY <1>1, <2>3, ZeroIsNone DEF TeamInv, ChildrenFit
    <3>2. QED
      BY <2>1, <2>3, <3>1 DEF Waiting
  <2>4. ASSUME Budgeted, NEW j \in Slots
        PROVE  /\ Cardinality(children'[j].crashTimes) <= setup.maxRestarts
               /\ Counted(children'[j], Down', Waiting', setup.window, now)
    <3>1. /\ Cardinality(children[j].crashTimes) <= setup.maxRestarts
          /\ Counted(children[j], Down, Waiting, setup.window, now)
      BY <2>4 DEF BudgetInv
    <3>2. CASE j = i
      <4>1. children'[i].crashTimes =
               {e \in children[i].crashTimes \cup {<<r, now>>} : e[2] + setup.window >= now}
        BY <1>1 DEF InWindow, Recent
      <4>2. Counted(children'[i], Down, Waiting', setup.window, now)
        BY <1>1, <1>3, <3>1, <3>2, <4>1, CountedIsRecorded
      <4>3. QED
        BY <1>1, <1>2, <2>1, <2>4, <3>2, <4>2
    <3>3. CASE j # i
      <4>1. children'[j] = children[j]
        BY <1>1, <3>3
      <4>2. Counted(children[j], Down, Waiting', setup.window, now)
        BY <1>3, <2>3, <2>4, <3>1, <3>3, CountedStays
      <4>3. QED
        BY <1>2, <3>1, <4>1, <4>2
    <3>4. QED
      BY <3>2, <3>3
  <2>5. QED
    BY <1>1, <1>5, <2>1, <2>2, <2>4 DEF BudgetInv
<1>8. QED
  BY <1>1, <1>6, <1>7

LEMMA BudgetStays ==
    TeamInv /\ TeamInv' /\ OrderInv /\ BudgetInv /\ [SupNext]_allVars => BudgetInv'
<1> SUFFICES ASSUME TeamInv, TeamInv', OrderInv, BudgetInv, [SupNext]_allVars
             PROVE  BudgetInv'
  OBVIOUS
<1>1. now <= now'
  BY TimeGoesOn
<1>2. CASE UNCHANGED allVars \/ Fault
  <2>1. UNCHANGED <<status, children, setup, stopped, op, holder, job>> /\ Slots' = Slots
    BY <1>2 DEF allVars, Fault, vars, actorVars, supVars, listVars, lockVars, Slots
  <2>2. QED
    BY <1>1, <2>1, BudgetIdles
<1>3. CASE JobBegins
  BY <1>3, BudgetStops, BudgetRemoves, BudgetCrashes DEF JobBegins
<1>4. QED
  BY <1>1, <1>2, <1>3, TeamSteps, BudgetQuiet, BudgetSpawns, BudgetCloses, BudgetRespawns,
     BudgetPasses, BudgetDrops, BudgetPanics

LEMMA BudgetStart == SupInit => BudgetInv
<1> SUFFICES ASSUME SupInit PROVE BudgetInv
  OBVIOUS
<1>1. TeamInv /\ job.mode = "none"
  BY TeamStart DEF SupInit, NoJob
<1>2. \A i \in Slots : children[i].crashTimes = {} /\ children[i].panics = {}
  <2>1. /\ Len(setup.specs) \in Nat
        /\ children = [i \in 1..Len(setup.specs) |->
              [name |-> setup.specs[i], ref |-> 0, crashTimes |-> {}, panics |-> {}]]
    BY SetupType DEF SupInit
  <2>2. Slots = 1..Len(setup.specs)
    <3>1. children = [i \in 1..Len(setup.specs) |-> children[i]]
      BY <2>1
    <3>2. \A i \in 1..Len(setup.specs) : children[i] \in {children[j] : j \in 1..Len(setup.specs)}
      OBVIOUS
    <3>3. QED
      BY <2>1, <3>1, <3>2, IsAList DEF Slots
  <2>3. QED
    BY <2>1, <2>2
<1>3. setup.maxRestarts \in Nat
  BY SetupType DEF SupInit
<1>4. \A i \in Slots : Counted(children[i], Down, Waiting, setup.window, now)
  BY <1>2 DEF Counted
<1>5. IsFiniteSet({}) /\ Cardinality({}) <= setup.maxRestarts
  BY <1>3, FS_EmptySet
<1>6. QED
  BY <1>1, <1>2, <1>4, <1>5 DEF BudgetInv

LEMMA BudgetAlways == SupSpec => []BudgetInv
  BY BudgetStart, TeamAlways, OrderAlways, BudgetStays, PTL DEF SupSpec

\* A set of events that each have an event of the same incarnation in another
\* set is no larger.
LEMMA NoMoreEvents ==
    ASSUME NEW S, NEW T, IsFiniteSet(T),
           \A e, f \in S : e[1] = f[1] => e = f,
           \A e \in S : \E f \in T : f[1] = e[1]
    PROVE  IsFiniteSet(S) /\ Cardinality(S) <= Cardinality(T)
<1> DEFINE record == [e \in S |-> CHOOSE f \in T : f[1] = e[1]]
<1>1. \A e \in S : record[e] \in T /\ record[e][1] = e[1]
  OBVIOUS
<1>2. record \in Injection(S, T)
  <2>1. record \in [S -> T]
    BY <1>1
  <2>2. \A d, e \in S : record[d] = record[e] => d = e
    BY <1>1
  <2> HIDE DEF record
  <2>3. QED
    BY <2>1, <2>2 DEF Injection, IsInjective
<1>3. QED
  BY <1>2, FS_Injection

\* No incarnation of a child escapes the count: once what happened is dealt
\* with, a team that runs has no child over its budget.
THEOREM BudgetIsKept == SupSpec => []CrashBudget
<1>1. TeamInv /\ BudgetInv => CrashBudget
  <2> SUFFICES ASSUME TeamInv, BudgetInv, Budgeted, holder = NoOne,
                      \A r \in Ref : op[r] # "crash", NEW i \in Slots
               PROVE  Cardinality(Recent(children[i].panics, now)) <= setup.maxRestarts
    BY DEF CrashBudget, Budgeted
  <2> DEFINE S == Recent(children[i].panics, now)
             T == children[i].crashTimes
  <2>1. /\ IsFiniteSet(T) /\ Cardinality(T) <= setup.maxRestarts
        /\ Counted(children[i], Down, Waiting, setup.window, now)
    BY DEF BudgetInv
  <2>2. children[i] \in Child /\ setup.window \in Nat /\ setup.maxRestarts \in Nat /\ now \in Nat
    BY ChildType, SetupType DEF TeamInv, SupTypeOK
  <2>3. \A e \in S : e \in children[i].panics /\ e[2] \in Nat /\ e[2] + setup.window >= now
    BY <2>2 DEF Recent, Child, Event
  <2>4. \A e, f \in S : e[1] = f[1] => e = f
    BY <2>1, <2>3 DEF Counted
  <2>5. \A e \in S : \E f \in T : f[1] = e[1]
    BY <2>1, <2>2, <2>3 DEF Counted, Waiting
  <2>6. IsFiniteSet(S) /\ Cardinality(S) <= Cardinality(T)
    <3> HIDE DEF S, T
    <3>1. QED
      BY <2>1, <2>4, <2>5, NoMoreEvents
  <2>7. Cardinality(S) \in Nat /\ Cardinality(T) \in Nat
    BY <2>1, <2>6, FS_CardinalityType
  <2>8. QED
    BY <2>1, <2>2, <2>6, <2>7
<1>2. QED
  BY <1>1, TeamAlways, BudgetAlways, PTL
-----------------------------------------------------------------------------
(* The refinement, step by step: what SupervisedTeam says may happen.        *)

\* The teams it is about: of TeamSize children, by the lifecycle, on a list
\* that neither scripts nor handlers change.
FixedTeams ==
    \A s \in Setups : /\ s.inOrder /\ Len(s.specs) = TeamSize
                      /\ \A o \in {"add", "remove"} : o \notin s.clientOps /\ o \notin s.handlerOps

FixedInv ==
    /\ Len(children) = TeamSize
    /\ \A p \in Proc : op[p] \notin {"add", "remove"}

LEMMA FixedStart == ASSUME FixedTeams, SupInit PROVE FixedInv
<1>1. /\ setup \in Setups /\ Len(setup.specs) \in Nat
      /\ children = [i \in 1..Len(setup.specs) |->
            [name |-> setup.specs[i], ref |-> 0, crashTimes |-> {}, panics |-> {}]]
      /\ \A p \in Proc : op[p] = "none"
  BY SetupType DEF SupInit
<1>2. children = [i \in 1..Len(setup.specs) |-> children[i]]
  BY <1>1
<1>3. \A i \in 1..Len(setup.specs) : children[i] \in {children[j] : j \in 1..Len(setup.specs)}
  OBVIOUS
<1>4. Len(children) = Len(setup.specs)
  BY <1>1, <1>2, <1>3, IsAList
<1>5. QED
  BY <1>1, <1>4 DEF FixedInv, FixedTeams

LEMMA FixedStays ==
    ASSUME FixedTeams, TeamInv, FixedInv, [SupNext]_allVars
    PROVE  FixedInv'
<1>1. op \in [Proc -> Ops \cup {"none", "crash", "naming"}]
  BY DEF TeamInv, SupTypeOK
<1>2. CASE UNCHANGED allVars
  BY <1>2 DEF allVars, supVars, listVars, lockVars, FixedInv
<1>3. CASE QuietStep
  <2>1. /\ UNCHANGED children
        /\ \/ op' = op
           \/ \E p \in Proc, o \in Ops : Waits(p, o)
           \/ \E p \in Proc : op[p] \in {"children", "naming"} /\ op' = [op EXCEPT ![p] = "none"]
           \/ \E r \in Ref : IgnoreCrash(r) /\ op' = [op EXCEPT ![r] = "none"]
    BY <1>3, QuietDoes
  <2>2. ASSUME NEW p \in Proc, NEW o \in Ops, Waits(p, o)
        PROVE  op' = [op EXCEPT ![p] = o] /\ o \notin {"add", "remove"}
    BY <2>2 DEF Waits, Requests, FixedTeams, TeamInv, SupTypeOK, Proc
  <2>3. \A q \in Proc : op'[q] = op[q] \/ op'[q] \notin {"add", "remove"}
    BY <1>1, <2>1, <2>2
  <2>4. QED
    BY <2>1, <2>3 DEF FixedInv
<1>4. CASE JobBegins
  <2>1. Len(children') = Len(children) /\ \A q \in Proc : op'[q] = op[q] \/ op'[q] = "none"
    BY <1>1, <1>4, JobBeginsDoes
  <2>2. QED
    BY <2>1 DEF FixedInv
<1>5. CASE \E p \in Proc : Start(p)
  <2>1. Len(children') = Len(children) /\ \A q \in Proc : op'[q] = op[q] \/ op'[q] = "none"
    BY <1>1, <1>5, StartDoes
  <2>2. QED
    BY <2>1 DEF FixedInv
<1>6. ASSUME NEW p \in Proc, NEW n \in Names, AddChild(p, n) PROVE FALSE
  BY <1>6, AddChildDoes DEF FixedInv
<1>7. CASE CloseChild
  BY <1>7, CloseChildDoes DEF listVars, FixedInv
<1>8. CASE Fault
  BY <1>8 DEF Fault, listVars, lockVars, FixedInv
<1>9. CASE RespawnChild
  BY <1>9, RespawnDoes, NextChildDoes DEF FixedInv
<1>10. CASE PassChild
  <2>1. job.mode # "none" /\ NextChild /\ UNCHANGED children
    BY <1>10 DEF PassChild, Settles, listVars
  <2>2. QED
    BY <2>1, NextChildDoes DEF FixedInv
<1>11. ASSUME DropChild PROVE FALSE
  <2>1. job.mode = "remove" /\ holder \in Proc /\ op[holder] = "remove"
    BY <1>11, DropDoes DEF TeamInv, JobFits
  <2>2. QED
    BY <2>1 DEF FixedInv
<1>12. CASE \E r \in Ref : SupPanic(r)
  <2>1. Len(children') = Len(children) /\ \A q \in Proc : op'[q] = op[q] \/ op'[q] = "crash"
    BY <1>1, <1>12, PanicDoes
  <2>2. QED
    BY <2>1 DEF FixedInv
<1>13. QED
  BY <1>2, <1>3, <1>4, <1>5, <1>6, <1>7, <1>8, <1>9, <1>10, <1>11, <1>12, TeamSteps

LEMMA FixedFacts ==
    ASSUME FixedTeams, TeamInv, OrderInv, FixedInv
    PROVE  /\ setup.inOrder /\ TeamSize \in Nat /\ TeamSize = Len(children) /\ Slots = 1..TeamSize
           /\ setup.strategy \in {"one_for_one", "one_for_all", "rest_for_one"}
           /\ stopped \in BOOLEAN /\ starts \in Nat
           /\ holder # NoOne => starts # 0
           /\ \A p \in Proc : op[p] \notin {"none", "start"} => starts # 0
           /\ job.mode = "none" => RestartScope = {}
           /\ job.mode = "stop" => RestartScope = {} /\ stopped = TRUE
           /\ job.mode = "restart" => RestartScope = job.at..job.last /\ stopped = FALSE
           /\ starts # 0 => \A i \in Slots : children[i].ref \in Ref /\ children[i].ref # 0
<1>1. setup.inOrder /\ setup.strategy \in {"one_for_one", "one_for_all", "rest_for_one"}
  BY SetupType DEF FixedTeams, TeamInv, SupTypeOK
<1>2. TeamSize \in Nat /\ TeamSize = Len(children) /\ Slots = 1..TeamSize
  BY RefsAreRefs DEF FixedInv
<1>3. stopped \in BOOLEAN /\ starts \in Nat
  BY DEF TeamInv, SupTypeOK
<1>4. /\ holder # NoOne => starts # 0
      /\ \A p \in Proc : op[p] \notin {"none", "start"} => starts # 0
      /\ starts # 0 => \A i \in Slots : children[i].ref \in Ref /\ children[i].ref # 0
  BY <1>1, RefsAreRefs DEF OrderInv, OrderFits
<1>5. /\ job.mode = "none" => RestartScope = {}
      /\ job.mode = "stop" => RestartScope = {} /\ stopped = TRUE
      /\ job.mode = "restart" => RestartScope = job.at..job.last /\ stopped = FALSE
  BY <1>3 DEF RestartScope, TeamInv, JobFits
<1>6. QED
  BY <1>1, <1>2, <1>3, <1>4, <1>5

\* Nothing that SupervisedTeam speaks of happens.
LEMMA TeamStutters ==
    ASSUME setup' = setup, TeamState' = TeamState, RestartScope' = RestartScope,
           \A i \in 1..TeamSize : ChildState(i)' = ChildState(i)
    PROVE  UNCHANGED Team!vars
  BY DEF Team!vars

\* One child changes state, or none.
LEMMA OneChildMoves ==
    ASSUME NEW i \in 1..TeamSize, NEW v, ChildState(i)' = v,
           \A j \in 1..TeamSize : j # i => ChildState(j)' = ChildState(j)
    PROVE  [j \in 1..TeamSize |-> ChildState(j)]' =
              [[j \in 1..TeamSize |-> ChildState(j)] EXCEPT ![i] = v]
  OBVIOUS

\* A child's state is read off its ref and that ref's actor.
LEMMA SameChildState ==
    ASSUME NEW i \in Slots, children'[i].ref = children[i].ref,
           status'[children[i].ref] = status[children[i].ref]
    PROVE  ChildState(i)' = ChildState(i)
  BY DEF ChildState

LEMMA TeamBegins ==
    ASSUME FixedTeams, SupInit
    PROVE  Team!Init
<1>1. TeamInv /\ OrderInv /\ FixedInv /\ starts = 0 /\ stopped = FALSE /\ job.mode = "none"
  BY SafetyStart, FixedStart DEF SupInit, NoJob
<1>2. spawned = 0
  BY DEF SupInit, Init
<1>3. \A i \in 1..TeamSize : ChildState(i) = "none"
  BY <1>1, <1>2, RefsAreRefs, FixedFacts DEF ChildState
<1>4. TeamState = "idle" /\ RestartScope = {}
  BY <1>1 DEF TeamState, RestartScope
<1>5. QED
  BY <1>1, <1>3, <1>4, FixedFacts DEF Team!Init, Team!Slot

\* An actor that takes a message or finishes one is up all along; one that
\* exits was told to: its child is being restarted, or the team is going down.
LEMMA TeamQuiet ==
    ASSUME FixedTeams, TeamInv, OrderInv, FixedInv, QuietStep
    PROVE  [Team!Next]_Team!vars
<1>1. /\ UNCHANGED <<setup, children, starts, stopped, job>> /\ Slots' = Slots /\ Slots = 1..TeamSize
      /\ \A q \in Ref : \/ status'[q] = status[q]
                        \/ status[q] \in {"idle", "busy"} /\ status'[q] \in {"idle", "busy"}
                        \/ status[q] = "idle" /\ status'[q] = "exited"
  BY QuietDoes, FixedFacts
<1>2. setup' = setup /\ TeamState' = TeamState /\ RestartScope' = RestartScope
  BY <1>1 DEF TeamState, RestartScope
<1>3. ASSUME NEW i \in Slots, ~(status[children[i].ref] = "idle" /\ status'[children[i].ref] = "exited")
      PROVE  ChildState(i)' = ChildState(i)
  BY <1>1, <1>3, RefsAreRefs DEF ChildState
<1>4. CASE \E i \in Slots : /\ children[i].ref # 0
                            /\ status[children[i].ref] = "idle" /\ status'[children[i].ref] = "exited"
  <2>1. PICK r \in Ref : SupReceive(r) \/ SupFinish(r) \/ SupExit(r)
    <3>1. status' # status
      BY <1>4
    <3>2. CASE \E p \in Proc, o \in Ops : Waits(p, o)
      BY <3>1, <3>2, IdleRuntime DEF Waits
    <3>3. CASE \E p \in Proc : Children(p) \/ \E n \in Names : NameChild(p, n)
      BY <3>1, <3>3, IdleRuntime DEF Children, NameChild
    <3>4. CASE \E r \in Ref : IgnoreCrash(r)
      BY <3>1, <3>4, IdleRuntime DEF IgnoreCrash
    <3>5. CASE Calls
      BY <3>1, <3>5, CallsDo
    <3>6. CASE Tick
      BY <3>1, <3>6, IdleRuntime DEF Tick
    <3>7. QED
      BY <3>2, <3>3, <3>4, <3>5, <3>6 DEF QuietStep
  <2>2. PICK i \in Slots : /\ children[i].ref # 0 /\ children[i].ref \in Ref
                           /\ status[children[i].ref] = "idle" /\ status'[children[i].ref] = "exited"
    BY <1>4, RefsAreRefs
  <2>3. children[i].ref = r /\ \A q \in Ref \ {r} : status'[q] = status[q]
    BY <2>1, <2>2, SupActorDoes
  <2>4. closed[r] /\ ~Done(r)
    <3>1. Exit(r)
      BY <2>1, <2>2, <2>3 DEF SupReceive, SupFinish, SupExit, Receive, Finish, TeamInv, RuntimeInv, TypeOK
    <3>2. QED
      BY <2>2, <2>3, <3>1 DEF Exit, Done
  <2>5. job.closing = TRUE /\ Subject = r /\ job.at \in Slots /\ job.mode \in {"restart", "stop", "remove"}
    BY <2>4 DEF OrderInv, ClosedFits, TeamInv, SupTypeOK, Job, JobFits, NoJob
  <2>6. job.mode # "remove"
    BY DEF FixedInv, TeamInv, JobFits
  <2>7. i = job.at
    BY <2>2, <2>3, <2>5 DEF Subject, TeamInv, ChildrenFit
  <2>8. i \in RestartScope \/ TeamState = "down"
    <3>1. job.at \in job.at..job.last \/ job.mode # "restart"
      BY <2>5, RefsAreRefs DEF TeamInv, JobFits
    <3>2. QED
      BY <2>5, <2>6, <2>7, <3>1, FixedFacts DEF TeamState
  <2>9. /\ ChildState(i) = "up" /\ ChildState(i)' = "stopped"
        /\ \A j \in Slots : j # i => ChildState(j)' = ChildState(j)
    <3>1. \A j \in Slots : j # i => children[j].ref # r
      BY <2>2, <2>3 DEF TeamInv, ChildrenFit
    <3>2. ChildState(i) = "up" /\ ChildState(i)' = "stopped"
      BY <1>1, <2>2 DEF ChildState
    <3>3. \A j \in Slots : j # i => ChildState(j)' = ChildState(j)
      BY <1>1, <2>3, <3>1, RefsAreRefs DEF ChildState
    <3>4. QED
      BY <3>2, <3>3
  <2>10. Team!Retire(i)
    BY <1>1, <1>2, <2>8, <2>9, OneChildMoves DEF Team!Retire, Team!Leaving
  <2>11. QED
    BY <1>1, <2>10 DEF Team!Next, Team!Slot
<1>5. CASE ~ \E i \in Slots : /\ children[i].ref # 0
                              /\ status[children[i].ref] = "idle" /\ status'[children[i].ref] = "exited"
  <2>1. \A i \in Slots : ChildState(i)' = ChildState(i)
    BY <1>1, <1>3, <1>5 DEF ChildState
  <2>2. QED
    BY <1>1, <1>2, <2>1, TeamStutters
<1>6. QED
  BY <1>4, <1>5

LEMMA TeamStarts ==
    ASSUME FixedTeams, TeamInv, TeamInv', OrderInv, FixedInv, NEW p \in Proc, Start(p)
    PROVE  Team!Next
<1>1. /\ op[p] = "start" /\ job = NoJob /\ job' = job /\ Slots' = Slots /\ Slots = 1..TeamSize
      /\ spawned \in Nat /\ spawned' = spawned + Len(children) /\ spawned' <= MaxRefs
      /\ \A r \in Ref : r \in spawned + 1..spawned' => status'[r] = "idle"
      /\ \A i \in Slots : children'[i].ref = spawned + i
      /\ starts' = starts + 1 /\ setup' = setup /\ stopped' = stopped
  BY StartDoes, FixedFacts
<1>2. starts = 0 /\ ~stopped /\ starts' # 0
  <2>1. setup.inOrder /\ starts \in Nat
    BY FixedFacts
  <2>2. starts = 0
    BY <1>1, <2>1 DEF OrderInv, OrderFits
  <2>3. ~stopped
    BY <2>1, <2>2 DEF OrderInv, OrderFits
  <2>4. QED
    BY <1>1, <2>2, <2>3
<1>3. \A i \in 1..TeamSize : ChildState(i)' = "up"
  <2>1. ASSUME NEW i \in Slots PROVE ChildState(i)' = "up"
    <3>1. spawned + i \in Ref /\ spawned + i \in spawned + 1..spawned' /\ spawned + i # 0
      <4>1. Len(children) \in Nat /\ i \in 1..Len(children) /\ MaxRefs \in Nat
        BY RefsAreRefs, RuntimeAssumption
      <4>2. QED
        BY <1>1, <4>1 DEF Ref
    <3>2. children'[i].ref = spawned + i /\ status'[spawned + i] = "idle"
      BY <1>1, <3>1
    <3>3. QED
      BY <3>1, <3>2 DEF ChildState
  <2>2. QED
    BY <1>1, <2>1
<1>4. TeamState = "idle" /\ TeamState' = "running" /\ RestartScope' = RestartScope
  BY <1>1, <1>2 DEF TeamState, RestartScope
<1>5. Team!Start
  BY <1>1, <1>3, <1>4 DEF Team!Start, Team!Slot
<1>6. QED
  BY <1>5 DEF Team!Next

\* A stop, or the answer to a crash.
LEMMA TeamDecides ==
    ASSUME FixedTeams, TeamInv, OrderInv, FixedInv, JobBegins
    PROVE  [Team!Next]_Team!vars
<1>1. /\ UNCHANGED <<setup, starts, status>> /\ job.mode = "none" /\ Slots = 1..TeamSize
      /\ \A i \in Slots : children'[i].ref = children[i].ref
  BY JobBeginsDoes, FixedFacts
<1>2. \A i \in 1..TeamSize : ChildState(i)' = ChildState(i)
  BY <1>1, SameChildState
<1>3. RestartScope = {} /\ stopped \in BOOLEAN
  BY <1>1, FixedFacts
<1>4. ASSUME stopped' = TRUE, starts # 0, job'.mode # "restart"
      PROVE  [Team!Next]_Team!vars
  <2>1. TeamState' = "down" /\ RestartScope' = {}
    BY <1>4 DEF TeamState, RestartScope
  <2>2. CASE stopped
    <3>1. TeamState = "down"
      BY <2>2 DEF TeamState
    <3>2. QED
      BY <1>1, <1>2, <1>3, <2>1, <3>1, TeamStutters
  <2>3. CASE ~stopped
    <3>1. TeamState = "running"
      BY <1>4, <2>3 DEF TeamState
    <3>2. Team!ShutDown
      BY <1>1, <1>2, <1>3, <2>1, <3>1 DEF Team!ShutDown
    <3>3. QED
      BY <3>2 DEF Team!Next
  <2>4. QED
    BY <2>2, <2>3
<1>5. CASE \E p \in Proc : Stop(p)
  <2>1. PICK p \in Proc : Stop(p)
    BY <1>5
  <2>2. /\ op[p] = "stop" /\ job.mode = "none" /\ stopped' = TRUE
        /\ Works(p, "stop", 1, Len(children))
    BY <2>1, EntersDoes DEF Stop
  <2>3. job'.mode # "restart"
    BY <2>2 DEF Works, Leaves
  <2>4. QED
    BY <1>4, <2>2, <2>3, FixedFacts
<1>6. ASSUME NEW p \in Proc, NEW r \in known, RemoveChild(p, r) PROVE FALSE
  BY <1>6, EntersDoes DEF RemoveChild, FixedInv
<1>7. CASE \E r \in Ref, i \in Slots : HandleCrash(r, i)
  <2>1. PICK r \in Ref, i \in Slots : HandleCrash(r, i)
    BY <1>7
  <2>2. /\ op[r] = "crash" /\ ~stopped /\ children[i].ref = r /\ status[r] = "crashed"
        /\ GivesUp(r, i) \/ Restarts(r, i)
    BY <2>1, HandleCrashDoes
  <2>3. starts # 0 /\ Len(children) = TeamSize /\ TeamSize \in Nat
    BY <2>2, FixedFacts, ProcIsWhole
  <2>4. CASE GivesUp(r, i)
    <3>1. stopped' = TRUE /\ job'.mode # "restart"
      BY <1>1, <2>4 DEF GivesUp, Works, Leaves
    <3>2. QED
      BY <1>4, <2>3, <3>1
  <2>5. CASE Restarts(r, i)
    <3>1. FirstAffected(i) \in Nat /\ LastAffected(i) \in Nat /\ FirstAffected(i) <= LastAffected(i)
      BY <1>1, <2>3, AffectedFit
    <3>2. stopped' = stopped /\ RestartScope' = FirstAffected(i)..LastAffected(i)
      BY <2>5, <3>1 DEF Restarts, Works, RestartScope
    <3>3. TeamState = "running" /\ TeamState' = "running"
      BY <1>1, <2>2, <2>3, <3>2 DEF TeamState
    <3>4. ChildState(i) = "crashed"
      BY <2>2, ZeroIsNone DEF ChildState
    <3>5. FirstAffected(i)..LastAffected(i) = Team!Affected(i)
      <4>1. i \in 1..TeamSize /\ Len(children) = TeamSize /\ TeamSize \in Nat
        BY <1>1, <2>3
      <4>2. CASE setup.strategy = "one_for_one"
        <5>1. FirstAffected(i)..LastAffected(i) = {i}
          BY <4>1, <4>2 DEF FirstAffected, LastAffected
        <5>2. Team!Affected(i) = {i}
          BY <4>2 DEF Team!Affected
        <5>3. QED
          BY <5>1, <5>2
      <4>3. CASE setup.strategy = "one_for_all"
        <5>1. FirstAffected(i)..LastAffected(i) = 1..TeamSize
          BY <4>1, <4>3 DEF FirstAffected, LastAffected
        <5>2. Team!Affected(i) = 1..TeamSize
          BY <4>3 DEF Team!Affected, Team!Slot
        <5>3. QED
          BY <5>1, <5>2
      <4>4. CASE setup.strategy = "rest_for_one"
        <5>1. FirstAffected(i)..LastAffected(i) = i..TeamSize
          BY <4>1, <4>4 DEF FirstAffected, LastAffected
        <5>2. Team!Affected(i) = {j \in 1..TeamSize : j >= i}
          BY <4>4 DEF Team!Affected, Team!Slot
        <5>3. i..TeamSize = {j \in 1..TeamSize : j >= i}
          BY <4>1
        <5>4. QED
          BY <5>1, <5>2, <5>3
      <4>5. QED
        BY <4>2, <4>3, <4>4, FixedFacts
    <3>6. Team!Decide(i)
      BY <1>1, <1>2, <1>3, <3>2, <3>3, <3>4, <3>5 DEF Team!Decide
    <3>7. QED
      BY <1>1, <3>6 DEF Team!Next, Team!Slot
  <2>6. QED
    BY <2>2, <2>4, <2>5
<1>8. QED
  BY <1>5, <1>6, <1>7 DEF JobBegins

\* A mailbox is closed, or the next child of a stop is come to: neither shows.
LEMMA TeamWaits ==
    ASSUME FixedTeams, TeamInv, OrderInv, FixedInv, CloseChild \/ PassChild
    PROVE  UNCHANGED Team!vars
<1>1. /\ UNCHANGED <<setup, children, starts, stopped, status>> /\ Slots = 1..TeamSize
      /\ job.mode # "none"
  BY CloseChildDoes, FixedFacts DEF PassChild, Settles, listVars, vars, actorVars
<1>2. RestartScope' = RestartScope
  <2>1. CASE CloseChild
    BY <2>1, CloseChildDoes DEF RestartScope
  <2>2. CASE PassChild
    <3>1. job.mode = "stop" /\ NextChild
      BY <2>2 DEF PassChild, Settles
    <3>2. job'.mode # "restart"
      BY <1>1, <3>1, NextChildDoes
    <3>3. QED
      BY <3>1, <3>2 DEF RestartScope
  <2>3. QED
    BY <2>1, <2>2
<1>3. \A i \in 1..TeamSize : ChildState(i)' = ChildState(i)
  BY <1>1 DEF ChildState
<1>4. TeamState' = TeamState
  BY <1>1 DEF TeamState
<1>5. QED
  BY <1>1, <1>2, <1>3, <1>4, TeamStutters

\* A child of the scope is spawned again, once its incarnation has ended.
LEMMA TeamRespawns ==
    ASSUME FixedTeams, TeamInv, TeamInv', OrderInv, FixedInv, RespawnChild
    PROVE  Team!Next
<1>1. /\ job.mode = "restart" /\ job.at \in Slots /\ Done(Subject) /\ Subject \in Spawned
      /\ spawned \in Nat /\ spawned' = spawned + 1 /\ spawned' <= MaxRefs
      /\ \A r \in Ref : IF r = spawned + 1
                        THEN status[r] = "unborn" /\ status'[r] = "idle"
                        ELSE status'[r] = status[r]
      /\ Slots' = Slots /\ \A i \in Slots \ {job.at} : children'[i] = children[i]
      /\ children'[job.at].ref = spawned + 1
  BY RespawnDoes
<1>2. /\ NextChild /\ UNCHANGED <<setup, starts, stopped>> /\ Slots = 1..TeamSize
      /\ starts # 0 /\ stopped = FALSE /\ starts \in Nat
      /\ RestartScope = job.at..job.last
      /\ \A i \in Slots : children[i].ref \in Ref /\ children[i].ref # 0 /\ children[i].ref <= spawned
  BY <1>1, FixedFacts, RefsAreRefs, ProcIsWhole DEF RespawnChild, TeamInv, JobFits
<1>3. job.at \in 1..TeamSize /\ job.at \in Nat /\ job.last \in job.at..Len(children)
  BY <1>1, <1>2, FixedFacts, NextChildDoes
<1>4. RestartScope' = RestartScope \ {job.at} /\ job.at \in RestartScope
  <2>1. CASE job.at < job.last
    <3>1. job'.mode = "restart" /\ job'.at = job.at + 1 /\ job'.last = job.last
      BY <1>1, <1>2, <1>3, <2>1, NextChildDoes
    <3>2. RestartScope' = job.at + 1..job.last
      BY <3>1 DEF RestartScope
    <3>3. QED
      BY <1>2, <1>3, <3>2
  <2>2. CASE job.at = job.last
    <3>1. job'.mode = "none"
      BY <1>1, <1>2, <1>3, <2>2, NextChildDoes
    <3>2. RestartScope' = {}
      BY <3>1 DEF RestartScope
    <3>3. QED
      BY <1>2, <1>3, <2>2, <3>2
  <2>3. QED
    BY <1>3, <2>1, <2>2
<1>5. PICK k \in 1..TeamSize : k = job.at
  BY <1>3
<1>6. ChildState(k) \in {"crashed", "stopped"}
  BY <1>1, <1>2, <1>5 DEF ChildState, Subject, Done
<1>7. ChildState(k)' = "up"
  <2>1. spawned + 1 \in Ref /\ spawned + 1 # 0
    BY <1>1, RuntimeAssumption DEF Ref
  <2>2. children'[k].ref = spawned + 1 /\ status'[spawned + 1] = "idle"
    BY <1>1, <1>5, <2>1
  <2>3. QED
    BY <2>1, <2>2 DEF ChildState
<1>8. \A j \in 1..TeamSize : j # k => ChildState(j)' = ChildState(j)
  <2>1. ASSUME NEW j \in Slots, j # k PROVE ChildState(j)' = ChildState(j)
    <3>1. children[j].ref # spawned + 1
      BY <1>1, <1>2, RefsAreRefs
    <3>2. children'[j].ref = children[j].ref /\ status'[children[j].ref] = status[children[j].ref]
      BY <1>1, <1>2, <1>5, <2>1, <3>1
    <3>3. QED
      BY <3>2, SameChildState
  <2>2. QED
    BY <1>2, <2>1
<1>9. TeamState = "running" /\ TeamState' = "running"
  BY <1>2 DEF TeamState
<1>10. Team!Restart(k)
  BY <1>2, <1>4, <1>5, <1>6, <1>7, <1>8, <1>9, OneChildMoves DEF Team!Restart
<1>11. QED
  BY <1>10 DEF Team!Next, Team!Slot

\* An actor that panics is the incarnation of a child, or shows in none.
LEMMA TeamPanics ==
    ASSUME FixedTeams, TeamInv, OrderInv, FixedInv, NEW r \in Ref, SupPanic(r)
    PROVE  [Team!Next]_Team!vars
<1>1. /\ UNCHANGED <<setup, starts, stopped, job>> /\ Slots = 1..TeamSize
      /\ \A q \in Ref \ {r} : status'[q] = status[q]
      /\ status[r] = "busy" /\ status'[r] = "crashed"
      /\ \A i \in Slots : children'[i].ref = children[i].ref
  BY PanicDoes, FixedFacts
<1>2. setup' = setup /\ TeamState' = TeamState /\ RestartScope' = RestartScope
  BY <1>1 DEF TeamState, RestartScope
<1>3. ASSUME NEW i \in Slots, children[i].ref # r PROVE ChildState(i)' = ChildState(i)
  BY <1>1, <1>3, RefsAreRefs DEF ChildState
<1>4. CASE \E i \in Slots : children[i].ref = r
  <2>1. PICK i \in Slots : children[i].ref = r
    BY <1>4
  <2>2. r # 0
    BY RuntimeAssumption DEF Ref
  <2>3. ChildState(i) = "up" /\ ChildState(i)' = "crashed"
    BY <1>1, <2>1, <2>2 DEF ChildState
  <2>4. \A j \in Slots : j # i => ChildState(j)' = ChildState(j)
    BY <1>3, <2>1, <2>2 DEF TeamInv, ChildrenFit
  <2>5. Team!Crash(i)
    BY <1>1, <1>2, <2>3, <2>4, OneChildMoves DEF Team!Crash
  <2>6. QED
    BY <1>1, <2>5 DEF Team!Next, Team!Slot
<1>5. CASE ~ \E i \in Slots : children[i].ref = r
  BY <1>1, <1>2, <1>3, <1>5, TeamStutters
<1>6. QED
  BY <1>4, <1>5

LEMMA TeamMoves ==
    FixedTeams /\ TeamInv /\ TeamInv' /\ OrderInv /\ FixedInv /\ [SupNext]_allVars
        => [Team!Next]_Team!vars
<1> SUFFICES ASSUME FixedTeams, TeamInv, TeamInv', OrderInv, FixedInv, [SupNext]_allVars
             PROVE  [Team!Next]_Team!vars
  OBVIOUS
<1>1. CASE UNCHANGED allVars
  <2>1. UNCHANGED <<setup, children, starts, stopped, job, status>>
    BY <1>1 DEF allVars, vars, actorVars, supVars, listVars, lockVars
  <2>2. /\ TeamState' = TeamState /\ RestartScope' = RestartScope
        /\ \A i \in 1..TeamSize : ChildState(i)' = ChildState(i)
    BY <2>1 DEF TeamState, RestartScope, ChildState
  <2>3. QED
    BY <2>1, <2>2, TeamStutters
<1>2. ASSUME NEW p \in Proc, NEW n \in Names, AddChild(p, n) PROVE FALSE
  BY <1>2, AddChildDoes DEF FixedInv
<1>3. ASSUME DropChild PROVE FALSE
  <2>1. job.mode = "remove" /\ holder \in Proc /\ op[holder] = "remove"
    BY <1>3, DropDoes DEF TeamInv, JobFits
  <2>2. QED
    BY <2>1 DEF FixedInv
<1>4. ASSUME Fault PROVE FALSE
  BY <1>4, NothingFaults, FixedFacts
<1>5. QED
  BY <1>1, <1>2, <1>3, <1>4, TeamSteps, TeamQuiet, TeamStarts, TeamDecides, TeamWaits,
     TeamRespawns, TeamPanics

LEMMA FixedAlways == ASSUME FixedTeams PROVE SupSpec => []FixedInv
<1>1. SupInit => FixedInv
  BY FixedStart
<1>2. TeamInv /\ FixedInv /\ [SupNext]_allVars => FixedInv'
  BY FixedStays
<1>3. QED
  BY <1>1, <1>2, TeamAlways, PTL DEF SupSpec

\* The supervisor of a fixed team, used by the lifecycle, does nothing that
\* SupervisedTeam does not allow: it restarts what the strategy names and
\* nothing else, stops a child only in a restart or in the shutdown, and
\* spawns an incarnation only when the last one has ended.
THEOREM TeamIsSupervised ==
    ASSUME FixedTeams
    PROVE  SupSpec => Team!Init /\ [][Team!Next]_Team!vars
<1>1. SupInit => Team!Init
  BY TeamBegins
<1>2. TeamInv /\ TeamInv' /\ OrderInv /\ FixedInv /\ [SupNext]_allVars => [Team!Next]_Team!vars
  BY TeamMoves
<1>3. QED
  BY <1>1, <1>2, TeamAlways, OrderAlways, FixedAlways, PTL DEF SupSpec
=============================================================================
