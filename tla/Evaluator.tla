----------------------------- MODULE Evaluator -----------------------------
(***************************************************************************)
(* The tree-walking evaluator (interpreter/interpreter.go): how a program  *)
(* of functions is run.  Every method evalX of the Go code is an operator  *)
(* EvalX here that takes a piece of syntax and the interpreter st, and     *)
(* returns [val, st]: the value and the interpreter after it.              *)
(*                                                                         *)
(* An early exit is a VALUE in this interpreter: `return`, `break`,        *)
(* `continue` and a failing `?` evaluate to a signal, and each construct   *)
(* has to look for one among the values of its parts.  What a construct    *)
(* does not look for, it uses as if it were data.                          *)
(*                                                                         *)
(* Syntax is abstracted to what that control depends on: a plain value is  *)
(* an Int, "fails" is any expression of value Err (1 / 0), "coin" one of   *)
(* Boolean value that the input decides, arguments are positional, a       *)
(* parameter has no default, and a handler is a provider whose methods use *)
(* no effects of their own.                                                *)
(***************************************************************************)
EXTENDS Integers, Sequences

CONSTANT MaxCalls   \* bound: functions running inside one another; Go's stack ends there

MainName == "main"
CapabilityBuiltin == "with_capability"   \* the one builtin: with_capability(name, fn)
Lambda == "<lambda>"                  \* the name evalLambda gives a function
UnseenLambda == "<lambda>, unseen"    \* ... and one the checker has not seen

----------------------------------------------------------------------------
(* Values (value.go).  A Return carries the value that is returned.        *)

IntVal  == [t |-> "Int"]
NilVal  == [t |-> "Nil"]
BoolVal(b) == [t |-> "Bool", b |-> b]
OkVal   == [t |-> "Ok"]
ErrVal  == [t |-> "Err"]
ListVal(elements) == [t |-> "List", elements |-> elements]
FunctionVal(name, params, body, env) ==
    [t |-> "Function", name |-> name, params |-> params, body |-> body, env |-> env]
BuiltinVal == [t |-> "Builtin"]
ReturnSignal(v) == [t |-> "Return", v |-> v]
BreakSignal     == [t |-> "Break"]
ContinueSignal  == [t |-> "Continue"]

IsReturn(v) == v.t = "Return"
IsSignal(v) == v.t \in {"Return", "Break", "Continue"}
IsTruthy(v) == CASE v.t = "Bool" -> v.b [] v.t = "Nil" -> FALSE [] OTHER -> TRUE

----------------------------------------------------------------------------
(* The interpreter: its environments (each a store and the number of the   *)
(* one around it), the current one, the stack of effect handlers, the      *)
(* input still to come, the functions being run, what has happened so far, *)
(* and the panic that ended the run, if any.  After a panic nothing runs.  *)
(*                                                                         *)
(* "unseen" says that the checker does not look at what is being run:      *)
(* statements outside functions, callees that are no names.  It is kept    *)
(* for the properties, like the log; the evaluator does not know it.       *)

NoPanic == "none"
Interpreter(handlers, coins) ==
    [envs  |-> << [store |-> << >>, outer |-> 0] >>, env |-> 1,
     effectStack |-> handlers, coins |-> coins,
     calls |-> << >>, log |-> << >>, panic |-> NoPanic, unseen |-> FALSE]

Is(v, st)      == [val |-> v, st |-> st]
Panics(why, st) == Is(NilVal, [st EXCEPT !.panic = why])
Logged(st, event) == [st EXCEPT !.log = Append(@, event)]
Seen(st) == ~st.unseen /\ \A i \in 1..Len(st.calls) : st.calls[i] # UnseenLambda

(* environment.go: Get and Update walk outwards, Set binds here.           *)
RECURSIVE Holder(_, _, _)
Holder(envs, env, name) ==
    IF env = 0 \/ name \in DOMAIN envs[env].store THEN env
    ELSE Holder(envs, envs[env].outer, name)

SetIn(st, env, name, v) ==
    [st EXCEPT !.envs[env].store =
        [n \in DOMAIN @ \union {name} |-> IF n = name THEN v ELSE @[n]]]
Set(st, name, v) == SetIn(st, st.env, name, v)

NewEnclosed(st, outer) ==
    [st EXCEPT !.envs = Append(@, [store |-> << >>, outer |-> outer]),
               !.env  = Len(st.envs) + 1]

RECURSIVE SetAll(_, _, _)
SetAll(st, names, vals) ==
    IF names = << >> THEN st
    ELSE SetAll(Set(st, Head(names), IF vals = << >> THEN NilVal ELSE Head(vals)),
                Tail(names), IF vals = << >> THEN << >> ELSE Tail(vals))

Back(r, st) == [r EXCEPT !.st.env = st.env]    \* interp.env = prev

----------------------------------------------------------------------------
RECURSIVE Eval(_, _), EvalStatement(_, _), EvalBlock(_, _), EvalAll(_, _)
RECURSIVE EvalLoop(_, _, _, _), EvalWhile(_, _, _), EvalArms(_, _, _)

(* A name nothing binds is nil, and the run goes on; "use" is what wants it. *)
Unbound(st, use, name) ==
    Logged(st, [ev |-> "unbound", use |-> use, name |-> name, seen |-> Seen(st)])

EvalIdentifier(name, use, st) ==
    LET env == Holder(st.envs, st.env, name)
    IN IF env = 0 THEN Is(NilVal, Unbound(st, use, name))
       ELSE Is(st.envs[env].store[name], st)

(* e? : an Ok is unwrapped, an Err becomes a return of that Err.           *)
EvalPostfix(e, st) ==
    LET r == Eval(e.left, st)
    IN CASE r.val = OkVal  -> Is(IntVal, r.st)
         [] r.val = ErrVal -> Is(ReturnSignal(ErrVal),
                                 Logged(r.st, [ev |-> "fail", depth |-> Len(r.st.calls)]))
         [] OTHER -> r

(* left ?? right, left && right, left + right.                             *)
EvalDefault(e, st) ==
    LET l == Eval(e.left, st)
    IN CASE l.val = OkVal -> Is(IntVal, l.st)
         [] l.val \in {ErrVal, NilVal} -> Eval(e.right, l.st)
         [] OTHER -> l

EvalAnd(e, st) ==
    LET l == Eval(e.left, st)
        r == Eval(e.right, l.st)
    IN CASE IsReturn(l.val) -> l
         [] l.val.t # "Bool" \/ ~IsTruthy(l.val) -> Is(BoolVal(FALSE), l.st)
         [] OTHER -> Is(IF r.val.t = "Bool" THEN r.val ELSE BoolVal(FALSE), r.st)

EvalInfix(e, st) ==
    LET l == Eval(e.left, st)
        r == Eval(e.right, l.st)
    IN CASE IsReturn(l.val) -> l
         [] IsReturn(r.val) -> r
         [] OTHER -> Is(IF l.val = IntVal /\ r.val = IntVal THEN IntVal ELSE NilVal, r.st)

(* !e and -e, and left[index], look at no signal among their operands.      *)
EvalPrefix(e, st) ==
    LET r == Eval(e.right, st)
    IN Is(CASE r.val.t = "Bool" -> BoolVal(~r.val.b) [] r.val = IntVal -> IntVal [] OTHER -> NilVal, r.st)

EvalIndex(e, st) ==
    LET r == EvalAll(<<e.left, e.index>>, st)
    IN Is(IF r.vals[1].t # "List" \/ r.vals[2] # IntVal THEN NilVal
          ELSE IF r.vals[1].elements = << >> THEN ErrVal ELSE Head(r.vals[1].elements), r.st)

(* An assignment to a name nothing binds is lost.                          *)
EvalAssignment(e, st) ==
    LET r   == Eval(e.value, st)
        env == Holder(r.st.envs, r.st.env, e.name)
    IN Is(r.val, IF env = 0 THEN Unbound(r.st, "assign", e.name)
                 ELSE SetIn(r.st, env, e.name, r.val))

EvalBlockScoped(stmts, st) == Back(EvalBlock(stmts, NewEnclosed(st, st.env)), st)

EvalIf(e, st) ==
    LET c == Eval(e.cond, st)
    IN IF IsTruthy(c.val) THEN EvalBlockScoped(e.then, c.st) ELSE EvalBlockScoped(e.else, c.st)

----------------------------------------------------------------------------
(* match: the first arm whose pattern fits and whose guard is true.        *)

Matches(pattern, v) == pattern = "any" \/ v.t = pattern

(* Ok and Err have one field: of the names of such a pattern the first     *)
(* takes it, and nothing binds the others.                                 *)
Bindings(st, arm, subject) ==
    LET in == NewEnclosed(st, st.env)
    IN IF arm.names = << >> THEN in
       ELSE LET first == Set(in, Head(arm.names), IF arm.pattern = "any" THEN subject ELSE IntVal)
            IN IF Len(arm.names) = 1 THEN first
               ELSE Logged(first, [ev |-> "surplus", names |-> {arm.names[i] : i \in 2..Len(arm.names)}])

EvalArms(arms, subject, st) ==
    IF arms = << >> \/ st.panic # NoPanic THEN Is(NilVal, st)
    ELSE LET arm == Head(arms)
             guard == Eval(arm.guard, Bindings(st, arm, subject))
         IN IF Matches(arm.pattern, subject) /\ guard.val = BoolVal(TRUE)
            THEN Back(Eval(arm.body, Bindings(Back(guard, st).st, arm, subject)), st)
            ELSE EvalArms(Tail(arms), subject,
                          IF Matches(arm.pattern, subject) THEN Back(guard, st).st ELSE st)

EvalMatch(e, st) ==
    LET s == Eval(e.subject, st) IN EvalArms(e.arms, s.val, s.st)

----------------------------------------------------------------------------
(* Loops.  A body's `return` ends the loop and is passed on, `break` ends  *)
(* it, and `continue` makes the round's value nil.                         *)

Round(name, v, body, st) ==
    LET inner == NewEnclosed(st, st.env)
    IN Back(EvalBlock(body, IF name = "_" THEN inner ELSE Set(inner, name, v)), st)

AfterRound(val) == IF val = ContinueSignal THEN NilVal ELSE val

EvalLoop(e, elements, last, st) ==
    IF elements = << >> \/ st.panic # NoPanic THEN Is(last, st)
    ELSE LET r == Round(e.name, Head(elements), e.body, st)
         IN CASE IsReturn(r.val)      -> r
              [] r.val = BreakSignal  -> Is(NilVal, r.st)
              [] OTHER -> EvalLoop(e, Tail(elements), AfterRound(r.val), r.st)

EvalForIn(e, st) ==
    LET l == Eval(e.iterable, st)
    IN IF l.val.t # "List" THEN Panics("for-in requires a list", l.st)
       ELSE EvalLoop(e, l.val.elements, NilVal, l.st)

EvalWhile(e, last, st) ==
    LET c == Eval(e.cond, st)
        r == Round("_", NilVal, e.body, c.st)
    IN IF c.val # BoolVal(TRUE) \/ c.st.panic # NoPanic THEN Is(last, c.st)
       ELSE CASE IsReturn(r.val)     -> r
              [] r.val = BreakSignal -> Is(NilVal, r.st)
              [] OTHER -> EvalWhile(e, AfterRound(r.val), r.st)

----------------------------------------------------------------------------
(* Calls.  EvalCall evaluates every argument, and CallFunction, which is   *)
(* handed the argument expressions, evaluates them again.                  *)

\* The values of expressions evaluated in order, none looked at.
EvalAll(exprs, st) ==
    IF exprs = << >> THEN [vals |-> << >>, st |-> st]
    ELSE LET r    == Eval(Head(exprs), st)
             rest == EvalAll(Tail(exprs), r.st)
         IN [vals |-> <<r.val>> \o rest.vals, st |-> rest.st]

Entered(st, f, vals) ==
    LET in == NewEnclosed([st EXCEPT !.calls = Append(@, f.name)], f.env)
    IN SetAll(in, f.params, vals)

Leave(r, val, st) ==
    Is(val, Logged([r.st EXCEPT !.env = st.env, !.calls = st.calls],
                   [ev |-> "leave", depth |-> Len(st.calls) + 1, val |-> val]))

Unwrapped(val) == IF IsReturn(val) THEN val.v ELSE val

CallFunction(f, args, st) ==
    LET vals == EvalAll(SubSeq(args, 1, IF Len(args) < Len(f.params) THEN Len(args)
                                                                     ELSE Len(f.params)), st)
        r    == EvalBlock(f.body, Entered(vals.st, f, vals.vals))
    IN CASE vals.st.panic # NoPanic -> Is(NilVal, vals.st)
         [] r.st.panic # NoPanic    -> r
         [] r.val = BreakSignal     -> Panics("'break' outside loop", r.st)
         [] r.val = ContinueSignal  -> Panics("'continue' outside loop", r.st)
         [] OTHER -> Leave(r, Unwrapped(r.val), vals.st)

(* How a builtin calls a function it is given.                             *)
ApplyCallback(f, st) ==
    LET r == EvalBlock(f.body, Entered(st, f, << >>))
    IN IF r.st.panic # NoPanic THEN r ELSE Leave(r, Unwrapped(r.val), st)

CallWithCapability(vals, st) ==
    IF Len(vals) = 1 /\ vals[1].t = "Function" THEN ApplyCallback(vals[1], st)
    ELSE Is(ErrVal, st)

EvalCallee(e, st) ==
    IF e.k = "id" THEN EvalIdentifier(e.name, "call", st)
    ELSE [Eval(e, [st EXCEPT !.unseen = TRUE]) EXCEPT !.st.unseen = st.unseen]

EvalCall(e, st) ==
    LET f    == EvalCallee(e.callee, st)
        args == EvalAll(e.args, f.st)
    IN CASE IsReturn(f.val)          -> f
         [] args.st.panic # NoPanic  -> Is(NilVal, args.st)
         [] Len(st.calls) >= MaxCalls -> Panics("stack overflow", st)
         [] f.val.t = "Function"     -> CallFunction(f.val, e.args, args.st)
         [] f.val = BuiltinVal       -> CallWithCapability(args.vals, args.st)
         [] OTHER                    -> Is(NilVal, args.st)

EvalLambda(e, st) ==
    Is(FunctionVal(IF Seen(st) THEN Lambda ELSE UnseenLambda, << >>, e.body, st.env), st)

----------------------------------------------------------------------------
(* Effects: an operation needs a handler of its effect on the stack.       *)

Perform(eff, st) ==
    IF \E i \in 1..Len(st.effectStack) : st.effectStack[i] = eff
    THEN Is(IntVal, Logged(st, [ev |-> "perform", eff |-> eff]))
    ELSE Panics("no handler", Logged(st, [ev |-> "unhandled", eff |-> eff,
                                              calls |-> st.calls, seen |-> Seen(st)]))

\* What EvalHandle could be: a body that returns early leaves its handler behind.
EvalHandleLeaky(e, st) ==
    LET h == Eval(e.handler, st)
        r == EvalBlockScoped(e.body, [h.st EXCEPT !.effectStack = Append(@, e.eff)])
    IN IF IsReturn(r.val) THEN Is(r.val.v, r.st)
       ELSE Is(r.val, [r.st EXCEPT !.effectStack = h.st.effectStack])

EvalHandle(e, st) ==
    LET h == Eval(e.handler, st)
        r == EvalBlockScoped(e.body, [h.st EXCEPT !.effectStack = Append(@, e.eff)])
    IN Is(Unwrapped(r.val),
          [r.st EXCEPT !.effectStack = SubSeq(@, 1, Len(@) - 1)])

(* A list, or the fields of an object, hold whatever their parts are.      *)
EvalList(e, st) == LET l == EvalAll(e.elements, st) IN Is(ListVal(l.vals), l.st)

Flip(st) ==
    IF st.coins = << >> THEN Is(BoolVal(FALSE), st)
    ELSE Is(BoolVal(Head(st.coins)), [st EXCEPT !.coins = Tail(@)])

Eval(e, st) ==
    IF st.panic # NoPanic THEN Is(NilVal, st)
    ELSE CASE e.k = "int"     -> Is(IntVal, st)
           [] e.k = "true"    -> Is(BoolVal(TRUE), st)
           [] e.k = "ok"      -> Is(OkVal, st)
           [] e.k = "fails"   -> Is(ErrVal, st)
           [] e.k = "coin"    -> Flip(st)
           [] e.k = "id"      -> EvalIdentifier(e.name, "read", st)
           [] e.k = "try"     -> EvalPostfix(e, st)
           [] e.k = "default" -> EvalDefault(e, st)
           [] e.k = "and"     -> EvalAnd(e, st)
           [] e.k = "infix"   -> EvalInfix(e, st)
           [] e.k = "prefix"  -> EvalPrefix(e, st)
           [] e.k = "index"   -> EvalIndex(e, st)
           [] e.k = "assign"  -> EvalAssignment(e, st)
           [] e.k = "if"      -> EvalIf(e, st)
           [] e.k = "match"   -> EvalMatch(e, st)
           [] e.k = "for"     -> EvalForIn(e, st)
           [] e.k = "while"   -> EvalWhile(e, NilVal, st)
           [] e.k = "call"    -> EvalCall(e, st)
           [] e.k = "lambda"  -> EvalLambda(e, st)
           [] e.k = "perform" -> Perform(e.eff, st)
           [] e.k = "handle"  -> EvalHandle(e, st)
           [] e.k = "list"    -> EvalList(e, st)

----------------------------------------------------------------------------
(* Statements.  A `let` passes a return on before it binds its name.       *)

EvalLet(s, st) ==
    LET r == Eval(s.value, st)
    IN IF IsReturn(r.val) \/ r.st.panic # NoPanic THEN r ELSE Is(r.val, Set(r.st, s.name, r.val))

EvalLetDestructure(s, st) ==
    LET r == Eval(s.value, st)
    IN IF IsReturn(r.val) \/ r.st.panic # NoPanic THEN r
       ELSE IF r.val.t # "List" THEN Panics("list destructuring requires a list", r.st)
       ELSE Is(r.val, SetAll(r.st, s.names, r.val.elements))

EvalStatement(s, st) ==
    CASE s.k = "let"      -> EvalLet(s, st)
      [] s.k = "destructure" -> EvalLetDestructure(s, st)
      [] s.k = "return"   -> LET r == Eval(s.value, st) IN Is(ReturnSignal(r.val), r.st)
      [] s.k = "break"    -> Is(BreakSignal, st)
      [] s.k = "continue" -> Is(ContinueSignal, st)
      [] OTHER            -> Eval(s, st)

(* A block ends at its first signal.                                       *)
EvalBlock(stmts, st) ==
    IF stmts = << >> \/ st.panic # NoPanic THEN Is(NilVal, st)
    ELSE LET r == EvalStatement(Head(stmts), st)
         IN IF IsSignal(r.val) \/ Len(stmts) = 1 \/ r.st.panic # NoPanic THEN r
            ELSE EvalBlock(Tail(stmts), r.st)

----------------------------------------------------------------------------
(* A program: its functions, and the statements outside them.              *)

CollectDeclarations(functions, st) ==
    [st EXCEPT !.envs[1].store =
        [n \in DOMAIN functions \union {CapabilityBuiltin} |->
            IF n = CapabilityBuiltin THEN BuiltinVal
            ELSE FunctionVal(n, functions[n].params, functions[n].body, 1)]]

\* A signal ends nothing out here: the next statement runs.
RECURSIVE EvalTopLevel(_, _)
EvalTopLevel(stmts, st) ==
    IF stmts = << >> \/ st.panic # NoPanic THEN st
    ELSE EvalTopLevel(Tail(stmts), EvalStatement(Head(stmts), st).st)

EvalProgram(program, st) ==
    LET ready == CollectDeclarations(program.functions, st)
    IN [EvalTopLevel(program.top, [ready EXCEPT !.unseen = TRUE]) EXCEPT !.unseen = FALSE]

CallMain(st) == Eval([k |-> "call", callee |-> [k |-> "id", name |-> MainName], args |-> << >>], st).st
============================================================================
