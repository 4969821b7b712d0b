---------------------------- MODULE DynamicScopes ----------------------------
(***************************************************************************)
(* The dynamic scopes of the interpreter: the environment code runs in,    *)
(* the handlers of effects, the capabilities with_capability grants, and   *)
(* the read trackers of FS.with_session.                                   *)
(*                                                                         *)
(* The script's own goroutine, Main, runs on the root interpreter.  Every  *)
(* HTTP request (CallFunctionWithValues) and every actor message           *)
(* (evalReceive) runs on a child interpreter of its own, made from the     *)
(* root: it shares the root's effect stack by pointer, and starts with a   *)
(* copy of the root's capability slice, that is, with the same backing     *)
(* array.  Two things lead a child back to the root while it  *)
(* runs: a global function sees the builtins the root registered, and the  *)
(* providers of FS and DB apply their callbacks on the interpreter they    *)
(* were installed with.  The goroutine of an agent runs the tools the      *)
(* model calls on the interpreter that spawned it, the root.               *)
(*                                                                         *)
(* A goroutine is the stack of the calls it is in.                         *)
(***************************************************************************)
EXTENDS Naturals, Sequences, FiniteSets

CONSTANTS
    Procs,      \* goroutines of requests, messages and agents
    Main,       \* the script's goroutine
    Root,       \* its interpreter; the child interpreter of p is p
    Caps,       \* capability names
    Effects,    \* effect names
    Setups,     \* which goroutines run, and what they do
    MaxMade,    \* bound: calls ever entered
    MaxDepth    \* bound: depth of the stack of calls

Kinds   == {"call", "global", "tool", "capability", "handle", "session", "transaction"}
All     == Procs \cup {Main}
Interps == Procs \cup {Root}
Names   == Caps \cup Effects \cup {"-"}

ASSUME ScopesAssumption ==
    /\ Main \notin Procs /\ Root \notin Procs
    /\ Setups \subseteq [procs : SUBSET All, kinds : SUBSET Kinds, panics : BOOLEAN]
    /\ MaxMade \in Nat /\ MaxDepth \in Nat

VARIABLES
    setup,      \* never changes
    frames,     \* per goroutine: the calls it is in, outermost first
    env,        \* interp.env: the number of the call it was made for
    caps,       \* interp.capabilityStack: a slice, that is, an array and a length
    arrays,     \* the backing arrays of the slices
    effects,    \* the one effect stack: which call pushed which effect
    sessions,   \* the root's fsSessionStack: the calls that pushed them
    made        \* calls made so far

vars == <<setup, frames, env, caps, arrays, effects, sessions, made>>

\* A call: the interpreter that evaluates its body, the interpreter whose
\* builtins that code sees, the environment it runs in and the one to restore.
Frame == [kind  : Kinds \cup {"body"},
          name  : Names,
          on    : Interps,
          lex   : Interps,
          env   : Nat,
          saved : Nat]

Slice == [array : Nat, len : Nat]

TypeOK ==
    /\ setup \in Setups
    /\ frames \in [All -> Seq(Frame)]
    /\ env \in [Interps -> 0..made]
    /\ caps \in [Interps -> Slice]
    /\ arrays \in Seq(Seq(Names))
    /\ \A i \in Interps : caps[i].array \in 0..Len(arrays)
    /\ effects \in Seq([name : Effects, by : 1..made])
    /\ sessions \in Seq(1..made)
    /\ made \in 0..MaxMade

Body(i, e) == [kind |-> "body", name |-> "-", on |-> i, lex |-> i, env |-> e, saved |-> e]

Nil == [array |-> 0, len |-> 0]

Init ==
    /\ setup \in Setups
    /\ frames = [p \in All |-> IF p = Main THEN <<Body(Root, 0)>> ELSE <<>>]
    /\ env = [i \in Interps |-> 0]
    /\ caps = [i \in Interps |-> Nil]
    /\ arrays = <<>>
    /\ effects = <<>>
    /\ sessions = <<>>
    /\ made = 0

Top(p) == frames[p][Len(frames[p])]

Calls(p, kind) == {k \in 1..Len(frames[p]) : frames[p][k].kind = kind}

Innermost(S) == CHOOSE k \in S : \A j \in S : j <= k

DropLast(s) == SubSeq(s, 1, Len(s) - 1)

-----------------------------------------------------------------------------
(* Go slices: append writes in place while the array has room, also when   *)
(* another slice shares that array, and moves to one twice as large when   *)
(* it has none.                                                            *)

Room(s) == IF s.array = 0 THEN 0 ELSE Len(arrays[s.array])

Elements(s) == {arrays[s.array][k] : k \in 1..s.len}

Larger(s, x) ==
    [k \in 1..(IF s.len = 0 THEN 1 ELSE 2 * s.len) |->
        IF k <= s.len THEN arrays[s.array][k] ELSE IF k = s.len + 1 THEN x ELSE "-"]

\* An append to a full array is one to a copy.
AppendToCopy(i, x) ==
    LET s == caps[i] IN
    /\ arrays' = Append(arrays, Larger(s, x))
    /\ caps' = [caps EXCEPT ![i] = [array |-> Len(arrays) + 1, len |-> s.len + 1]]

AppendCap(i, x) ==
    LET s == caps[i] IN
    IF s.len < Room(s)
    THEN /\ arrays' = [arrays EXCEPT ![s.array][s.len + 1] = x]
         /\ caps' = [caps EXCEPT ![i].len = @ + 1]
    ELSE AppendToCopy(i, x)

-----------------------------------------------------------------------------
(* A request, a message or a chat with an agent begins and ends. *)

Begin(p) ==
    /\ p \in setup.procs \cap Procs
    /\ frames[p] = <<>>
    /\ made < MaxMade
    /\ made' = made + 1
    /\ frames' = [frames EXCEPT ![p] = <<Body(p, made + 1)>>]
    /\ env' = [env EXCEPT ![p] = made + 1]
    /\ caps' = [caps EXCEPT ![p] = caps[Root]]
    /\ UNCHANGED <<setup, arrays, effects, sessions>>

End(p) ==
    /\ p \in Procs
    /\ Len(frames[p]) = 1
    /\ frames' = [frames EXCEPT ![p] = <<>>]
    /\ UNCHANGED <<setup, env, caps, arrays, effects, sessions, made>>

-----------------------------------------------------------------------------
(* Entering a call: the interpreter's env is swapped for a fresh one. *)

Enter(p, kind, name, on, lex) ==
    /\ kind \in setup.kinds
    /\ p \in setup.procs
    /\ Len(frames[p]) \in 1..(MaxDepth - 1)
    /\ made < MaxMade
    /\ made' = made + 1
    /\ frames' = [frames EXCEPT ![p] = Append(@,
         [kind |-> kind, name |-> name, on |-> on, lex |-> lex,
          env |-> made + 1, saved |-> env[on]])]
    /\ env' = [env EXCEPT ![on] = made + 1]
    /\ UNCHANGED setup

\* callFunction, for a closure of the running code ...
Call(p) ==
    /\ Len(frames[p]) > 0
    /\ Enter(p, "call", "-", Top(p).on, Top(p).lex)
    /\ UNCHANGED <<caps, arrays, effects, sessions>>

\* ... and for a function declared at the top of the program.
CallGlobal(p) ==
    /\ Len(frames[p]) > 0
    /\ Enter(p, "global", "-", Top(p).on, Root)
    /\ UNCHANGED <<caps, arrays, effects, sessions>>

\* The model of an agent calls a tool.
Tool(p) ==
    /\ p \in Procs /\ Len(frames[p]) = 1
    /\ Enter(p, "tool", "-", Root, Root)
    /\ UNCHANGED <<caps, arrays, effects, sessions>>

\* with_capability, a builtin of the interpreter the code sees: it pushes on
\* that one and applies the callback on that one.
WithCapability(p, c) ==
    /\ Len(frames[p]) > 0
    /\ Enter(p, "capability", c, Top(p).lex, Top(p).lex)
    /\ AppendCap(Top(p).lex, c)
    /\ UNCHANGED <<effects, sessions>>

\* handle(Effect) { using: ... } in { ... }
Handle(p, e) ==
    /\ Len(frames[p]) > 0
    /\ Enter(p, "handle", e, Top(p).on, Top(p).lex)
    /\ effects' = Append(effects, [name |-> e, by |-> made + 1])
    /\ UNCHANGED <<caps, arrays, sessions>>

\* FS.with_session(fn) and DB.transaction(fn): the callback runs on the root.
WithSession(p) ==
    /\ Len(frames[p]) > 0
    /\ Enter(p, "session", "-", Root, Top(p).lex)
    /\ sessions' = Append(sessions, made + 1)
    /\ UNCHANGED <<caps, arrays, effects>>

Transaction(p) ==
    /\ Len(frames[p]) > 0
    /\ Enter(p, "transaction", "-", Root, Top(p).lex)
    /\ UNCHANGED <<caps, arrays, effects, sessions>>

-----------------------------------------------------------------------------
(* Leaving one. *)

PopIf(b, s) == IF b /\ s # <<>> THEN DropLast(s) ELSE s

\* What Return could be: the capability popped by hand and by the deferred pop.
ReturnPopsTwice(p) ==
    /\ Len(frames[p]) > 1
    /\ frames' = [frames EXCEPT ![p] = DropLast(@)]
    /\ env' = [env EXCEPT ![Top(p).on] = Top(p).saved]
    /\ caps' = IF Top(p).kind = "capability"
               THEN [caps EXCEPT ![Top(p).on].len = @ - 2] ELSE caps
    /\ effects' = PopIf(Top(p).kind = "handle", effects)
    /\ sessions' = PopIf(Top(p).kind = "session", sessions)
    /\ UNCHANGED <<setup, arrays, made>>

\* The body ran to its end: env is put back and what was pushed is popped,
\* that is, whatever is on top by now.
Return(p) ==
    /\ Len(frames[p]) > 1
    /\ frames' = [frames EXCEPT ![p] = DropLast(@)]
    /\ env' = [env EXCEPT ![Top(p).on] = Top(p).saved]
    /\ caps' = IF Top(p).kind = "capability"
               THEN [caps EXCEPT ![Top(p).on].len = @ - 1] ELSE caps
    /\ effects' = PopIf(Top(p).kind = "handle", effects)
    /\ sessions' = PopIf(Top(p).kind = "session", sessions)
    /\ UNCHANGED <<setup, arrays, made>>

\* How many calls a panic leaves: those around the innermost DB.transaction,
\* which recovers.  Without one the goroutine's work is over (run recovers for an
\* actor, the server for a request), but the REPL reads on.
Left(p) ==
    LET transactions == Calls(p, "transaction") IN
    IF transactions # {} THEN Innermost(transactions) - 1
    ELSE IF p = Main THEN 1 ELSE 0

Unwound(p, kind) == {k \in Calls(p, kind) : k > Left(p)}

\* What Panic could be: with_capability and with_session not deferring their pops.
PanicKeepsScopes(p) ==
    /\ setup.panics
    /\ frames[p] # <<>>
    /\ frames' = [frames EXCEPT ![p] = SubSeq(@, 1, Left(p))]
    /\ UNCHANGED <<setup, env, caps, arrays, effects, sessions, made>>

\* The code panics.  with_capability and with_session pop in deferred
\* functions; callFunction, applyCallback and evalHandle do not: env and the
\* effect stack stay as they are.
Panic(p) ==
    /\ setup.panics
    /\ frames[p] # <<>>
    /\ frames' = [frames EXCEPT ![p] = SubSeq(@, 1, Left(p))]
    /\ caps' = [i \in Interps |->
         [caps[i] EXCEPT !.len = @ - Cardinality({k \in Unwound(p, "capability") : frames[p][k].on = i})]]
    /\ sessions' = SubSeq(sessions, 1, Len(sessions) - Cardinality(Unwound(p, "session")))
    /\ UNCHANGED <<setup, env, arrays, effects, made>>

-----------------------------------------------------------------------------
Step(p) ==
    \/ Begin(p) \/ End(p)
    \/ Call(p) \/ CallGlobal(p) \/ Tool(p)
    \/ \E c \in Caps : WithCapability(p, c)
    \/ \E e \in Effects : Handle(p, e)
    \/ WithSession(p) \/ Transaction(p)
    \/ Return(p) \/ Panic(p)

Next == \E p \in All : Step(p)

Spec == Init /\ [][Next]_vars
-----------------------------------------------------------------------------
(* Properties. *)

Running(p) == frames[p] # <<>> /\ p \in setup.procs

\* Nobody recovers from a panic and goes on.
NoRecovery ==
    setup.panics => Main \notin setup.procs /\ "transaction" \notin setup.kinds

\* One goroutine, or goroutines that neither handle effects nor lead back to
\* the root interpreter.
Apart ==
    \/ \E p \in All : setup.procs = {p}
    \/ setup.kinds \subseteq {"call", "capability"} /\ Main \notin setup.procs

\* The environment a goroutine's code runs in is the one made for the call it
\* is in, so that its names mean what they mean lexically.
EnvIsOwn == \A p \in All : Running(p) => env[Top(p).on] = Top(p).env

\* It is so for goroutines kept apart ...
RunsInItsEnv == Apart /\ NoRecovery => EnvIsOwn

\* What a tool's check finds: the capabilities of the interpreter that
\* evaluates the call of the tool.
Held(p) == Elements(caps[Top(p).on])

Granted(p) == {frames[p][k].name : k \in Calls(p, "capability")}

CapabilityIsScoped == \A p \in All : Running(p) => Held(p) = Granted(p)

\* The provider an effect operation resolves to: 0 is the installed one.
Resolved(e) ==
    LET S == {k \in 1..Len(effects) : effects[k].name = e}
    IN  IF S = {} THEN 0 ELSE effects[Innermost(S)].by

Substituted(p, e) ==
    LET S == {k \in Calls(p, "handle") : frames[p][k].name = e}
    IN  IF S = {} THEN 0 ELSE frames[p][Innermost(S)].env

\* handle substitutes the provider for its body, and for nothing else.
HandlersAreScoped ==
    \A p \in All, e \in Effects : Running(p) => Resolved(e) = Substituted(p, e)

\* It is so for goroutines kept apart, unless a handle is left in a panic.
EffectIsScoped ==
    Apart /\ ("handle" \in setup.kinds => ~setup.panics) => HandlersAreScoped

\* The tracker FS.read and FS.write_tracked use is the one of the innermost
\* with_session the code is in, and there is none outside of one.
SessionIsScoped ==
    Apart => \A p \in All : Running(p) =>
        LET S == Calls(p, "session") IN
        IF S = {} THEN sessions = <<>>
        ELSE sessions # <<>> /\ sessions[Len(sessions)] = frames[p][Innermost(S)].env

\* The script, or goroutines that nothing leads back to the root in the middle
\* of their work.
OnOneInterpreter ==
    Main \in setup.procs \/ setup.kinds \cap {"global", "session", "transaction"} = {}

\* The same of capabilities: while goroutines are apart and stay on one
\* interpreter, and also after a recovered panic, a tool's check finds what the
\* calls around it granted.
CapabilityIsScopedApart == Apart /\ OnOneInterpreter => CapabilityIsScoped

\* Each body runs with its own environment, capabilities, handlers and session.
ScopesAreOwn ==
    RunsInItsEnv /\ CapabilityIsScopedApart /\ EffectIsScoped /\ SessionIsScoped
=============================================================================
