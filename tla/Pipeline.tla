------------------------------ MODULE Pipeline -------------------------------
(***************************************************************************)
(* evalPipeline: a list goes through transforms to a sink, in one goroutine *)
(* stage by stage, or, with a partition, item by item in n workers.        *)
(*                                                                         *)
(* A transform is user code: what it gives for an item is any kind of      *)
(* value the runtime tells apart, chosen when it is called.  An item keeps *)
(* its number, so that a result can be traced to its source.               *)
(***************************************************************************)
EXTENDS Naturals, SequencesExt, FiniteSetsExt

CONSTANTS
    Crew,           \* the workers a partition can have
    Declarations,   \* the pipelines: sequences of stages after the source
    MaxItems        \* bound: items of the source

Stage == {"transform", "partition", "on_error", "sink"}

ASSUME PipelineAssumption ==
    Crew # {} /\ Declarations \subseteq Seq(Stage) /\ MaxItems \in Nat

VARIABLES
    stages,     \* the declaration
    shown,      \* of each item, the place of its Inspect() in the order of strings
    progress,   \* "stages", "workers", "sink", "done", or how it failed
    items,      \* the list between two transforms; then the results
    todo,       \* stages: the items this transform has yet to see
    at,         \* stages: the number of this transform
    inCh,       \* workers: the closed channel of the items
    outCh,      \* workers: the channel of the results
    outClosed,  \* whether outCh is closed
    crew,       \* per worker: the item in hand and the transform it is at, or where it is
    gave        \* of each item, the kind a transform last gave for it (history)

plVars == <<stages, shown, progress, items, todo, at, inCh, outCh, outClosed, crew, gave>>

\* The kinds of value: anything else than these five is "plain".
ValueKinds == {"plain", "nil", "none", "some", "ok", "err"}
Items == 1..MaxItems
Value == [item : Items, kind : ValueKinds]
Idle == [is |-> "idle"]
Gone == [is |-> "gone"]
Busy(n, v) == [is |-> "busy", at |-> n, value |-> v]

Count(kind) == Cardinality({s \in DOMAIN stages : stages[s] = kind})
Transforms == Count("transform")

\* The last partition, on_error and sink of the declaration hold for all of
\* it, wherever they stand; a partition of one is none.
Partitioned == Count("partition") > 0 /\ Transforms > 0
OnError == Count("on_error") > 0 /\ ~Partitioned

PlTypeOK ==
    /\ progress \in {"stages", "workers", "sink", "done", "error", "killed"}
    /\ items \in Seq(Value) /\ todo \in Seq(Value) /\ inCh \in Seq(Value) /\ outCh \in Seq(Value)
    /\ Len(inCh) + Len(outCh) <= Len(shown)
    /\ at \in 1..Transforms + 1
    /\ outClosed \in BOOLEAN
    /\ crew \in [Crew -> {Idle, Gone}
                         \cup {Busy(n, v) : n \in 1..Transforms + 1, v \in Value}]
    /\ gave \in [DOMAIN shown -> ValueKinds]

PlInit ==
    /\ stages \in Declarations
    /\ \E n \in 0..MaxItems : shown \in [1..n -> 1..n]
    /\ LET source == [i \in DOMAIN shown |-> [item |-> i, kind |-> "plain"]] IN
       IF Partitioned
       THEN /\ progress = "workers" /\ inCh = source
            /\ items = <<>> /\ todo = <<>>
       ELSE /\ progress = "stages" /\ inCh = <<>>
            /\ items = <<>> /\ todo = source
    /\ at = 1 /\ outCh = <<>> /\ outClosed = FALSE
    /\ crew = [w \in Crew |-> Idle]
    /\ gave = [i \in DOMAIN shown |-> "plain"]

\* callTransformFn: a transform gives any kind of value for v.
CallTransform(v, k) == gave' = [gave EXCEPT ![v.item] = k]

\* Or it panics: what runs the pipeline can recover, a worker cannot.
TransformPanics(v) ==
    /\ progress' = IF progress = "workers" THEN "killed" ELSE "error"
    /\ UNCHANGED <<stages, shown, items, todo, at, inCh, outCh, outClosed, crew, gave>>

Plain(v) == [v EXCEPT !.kind = "plain"]

\* What goes on of a value: None and nil are dropped, a Some is unwrapped.
Kept(v) ==
    CASE v.kind \in {"nil", "none"} -> <<>>
      [] v.kind = "some" -> <<Plain(v)>>
      [] OTHER -> <<v>>

\* What goes on of it under on_error: an Ok is unwrapped, an Err dropped.
KeptOnError(v) ==
    CASE v.kind = "err" -> <<>>
      [] v.kind = "ok" -> <<Plain(v)>>
      [] OTHER -> <<v>>
-----------------------------------------------------------------------------
(* In one goroutine: applyTransform and applyTransformWithErrorPolicy.     *)

Apply ==
    /\ progress = "stages" /\ at <= Transforms /\ todo # <<>>
    /\ LET v == Head(todo) IN
       \/ \E k \in ValueKinds :
            LET new == [v EXCEPT !.kind = k] IN
            /\ CallTransform(v, k)
            /\ items' = items \o (IF OnError THEN KeptOnError(new) ELSE Kept(new))
            /\ todo' = Tail(todo)
            /\ UNCHANGED <<stages, shown, progress, at, inCh, outCh, outClosed, crew>>
       \/ TransformPanics(v)

NextStage ==
    /\ progress = "stages" /\ at <= Transforms /\ todo = <<>>
    /\ at' = at + 1
    /\ todo' = items /\ items' = <<>>
    /\ UNCHANGED <<stages, shown, progress, inCh, outCh, outClosed, crew, gave>>

LastStage ==
    /\ progress = "stages" /\ at > Transforms
    /\ progress' = "sink"
    /\ items' = todo /\ todo' = <<>>
    /\ UNCHANGED <<stages, shown, at, inCh, outCh, outClosed, crew, gave>>
-----------------------------------------------------------------------------
(* In workers: evalPartitionedPipeline, which has no policy.               *)

\* What Take could be, were the items in a list the workers share.
TakeUnlocked(w) ==
    /\ progress = "workers" /\ crew[w] = Idle /\ inCh # <<>>
    /\ crew' = [crew EXCEPT ![w] = Busy(1, Head(inCh))]
    /\ \E rest \in {Tail(inCh), inCh} : inCh' = rest
    /\ UNCHANGED <<stages, shown, progress, items, todo, at, outCh, outClosed, gave>>

Take(w) ==
    /\ progress = "workers" /\ crew[w] = Idle /\ inCh # <<>>
    /\ crew' = [crew EXCEPT ![w] = Busy(1, Head(inCh))]
    /\ inCh' = Tail(inCh)
    /\ UNCHANGED <<stages, shown, progress, items, todo, at, outCh, outClosed, gave>>

Holding(w) == crew[w].is = "busy"

Transform(w) ==
    /\ progress = "workers" /\ Holding(w) /\ crew[w].at <= Transforms
    /\ LET v == crew[w].value IN
       \/ \E k \in ValueKinds :
            /\ CallTransform(v, k)
            /\ crew' = [crew EXCEPT ![w] = Busy(@.at + 1, [v EXCEPT !.kind = k])]
            /\ UNCHANGED <<stages, shown, progress, items, todo, at, inCh, outCh, outClosed>>
       \/ TransformPanics(v)

DropNil(w) ==
    /\ progress = "workers" /\ Holding(w) /\ crew[w].at > Transforms
    /\ Kept(crew[w].value) = <<>>
    /\ crew' = [crew EXCEPT ![w] = Idle]
    /\ UNCHANGED <<stages, shown, progress, items, todo, at, inCh, outCh, outClosed, gave>>

Send(w) ==
    /\ progress = "workers" /\ Holding(w) /\ crew[w].at > Transforms
    /\ Kept(crew[w].value) # <<>>
    /\ Len(outCh) < Len(shown)
    /\ outCh' = outCh \o Kept(crew[w].value)
    /\ crew' = [crew EXCEPT ![w] = Idle]
    /\ UNCHANGED <<stages, shown, progress, items, todo, at, inCh, outClosed, gave>>

\* What Leave could be, were the channel of the items never closed: a worker
\* waits for more.
LeaveNever(w) == FALSE

\* The channel of the items is empty and closed: the loop of a worker ends.
Leave(w) ==
    /\ progress = "workers" /\ crew[w] = Idle /\ inCh = <<>>
    /\ crew' = [crew EXCEPT ![w] = Gone]
    /\ UNCHANGED <<stages, shown, progress, items, todo, at, inCh, outCh, outClosed, gave>>

\* What Close could be: closing once every item is taken.
CloseEarly ==
    /\ progress = "workers" /\ ~outClosed /\ inCh = <<>>
    /\ outClosed' = TRUE
    /\ UNCHANGED <<stages, shown, progress, items, todo, at, inCh, outCh, crew, gave>>

Close ==
    /\ progress = "workers" /\ ~outClosed /\ \A w \in Crew : crew[w] = Gone
    /\ outClosed' = TRUE
    /\ UNCHANGED <<stages, shown, progress, items, todo, at, inCh, outCh, crew, gave>>

Collect ==
    /\ progress = "workers" /\ outCh # <<>>
    /\ items' = Append(items, Head(outCh))
    /\ outCh' = Tail(outCh)
    /\ UNCHANGED <<stages, shown, progress, todo, at, inCh, outClosed, crew, gave>>

\* Whether Inspect() sorts sequence s, which says nothing of equal ones.
Sorted(s) == \A a, b \in DOMAIN s : a < b => shown[s[a].item] <= shown[s[b].item]

Sort ==
    /\ progress = "workers" /\ outClosed /\ outCh = <<>>
    /\ progress' = "sink"
    /\ \E p \in {f \in [DOMAIN items -> DOMAIN items] : IsInjective(f)} :
         /\ items' = [i \in DOMAIN items |-> items[p[i]]]
         /\ Sorted(items')
    /\ UNCHANGED <<stages, shown, todo, at, inCh, outCh, outClosed, crew, gave>>
-----------------------------------------------------------------------------
\* A builtin sink may fail; another one, or none, leaves the list as it is.
Sink ==
    /\ progress = "sink"
    /\ \/ progress' = "done"
       \/ Count("sink") > 0 /\ progress' = "error"
    /\ UNCHANGED <<stages, shown, items, todo, at, inCh, outCh, outClosed, crew, gave>>

PlNext ==
    \/ Apply \/ NextStage \/ LastStage
    \/ \E w \in Crew : Take(w) \/ Transform(w) \/ DropNil(w) \/ Send(w) \/ Leave(w)
    \/ Close \/ Collect \/ Sort \/ Sink

\* The runtime runs some goroutine that can run.
PlFairness == WF_plVars(PlNext)

PlSpec == PlInit /\ [][PlNext]_plVars /\ PlFairness
-----------------------------------------------------------------------------
(* Properties. *)

IsOver == progress \in {"done", "error", "killed"}

\* Of an item that went through every transform, what the last one gave.
Final(i) == [item |-> i, kind |-> gave[i]]

\* What the workers have to give: of each item, what the last transform made of it.
Results == UNION {ToSet(Kept(Final(i))) : i \in DOMAIN shown}

\* They give each of these once, none missing and none twice, whoever took the
\* item; and however they interleave, in one order, when no two values look the
\* same.
ResultsOnce ==
    progress = "done" /\ Partitioned =>
        ToSet(items) = Results /\ IsInjective(items) /\ Sorted(items)

\* No worker sends on the closed channel, which would kill the program, and
\* nothing is left in it when the results are sorted.
ClosedIsQuiet == outClosed => inCh = <<>> /\ \A w \in Crew : ~Holding(w)

\* Workers lose, repeat and disorder nothing: what a partition gives depends on
\* the transforms alone.  It is not what one goroutine would give, which keeps
\* the order of the source, drops None and nil after each transform, not only
\* the last, and has the policy of an on_error.
WorkersLoseNothing == ResultsOnce /\ ClosedIsQuiet

\* A pipeline ends, and neither its workers nor its collector waits for ever:
\* each channel has room for every item.
PipelineEnds == <>IsOver
=============================================================================
