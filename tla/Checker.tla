------------------------------ MODULE Checker ------------------------------
(***************************************************************************)
(* The static checker (typechecker/checker.go): its scopes, its rule for   *)
(* assignment, and the two-way effect contract of a function.  It walks    *)
(* the syntax that Evaluator runs: every method of the Go checker is an    *)
(* operator that takes a piece of syntax and the checker c, and returns    *)
(* the checker after it.                                                   *)
(*                                                                         *)
(* The types it infers are left out: a program of this model annotates     *)
(* none, and types without an annotation are compared with nothing.        *)
(***************************************************************************)
EXTENDS Integers, Sequences

CONSTANTS
    KnownEffects,      \* defaultKnownEffects and the program's own
    Uppercase          \* the names that begin with one of 'A' to 'Z'

----------------------------------------------------------------------------
(* scopes: name -> capability, the innermost scope last.                   *)

CheckerOf(program) ==
    [scopes |-> << << >> >>, functions |-> program.functions,
     used |-> {}, handled |-> {}, errors |-> {}]

Refuse(c, what, name) == [c EXCEPT !.errors = @ \union {<<what, name>>}]

PushScope(c) == [c EXCEPT !.scopes = Append(@, << >>)]

PopScope(c)  == [c EXCEPT !.scopes = SubSeq(@, 1, Len(@) - 1)]

Define(c, name, capability) ==
    [c EXCEPT !.scopes[Len(c.scopes)] =
        [x \in DOMAIN @ \union {name} |-> IF x = name THEN capability ELSE @[x]]]

RECURSIVE DefineAll(_, _)
DefineAll(c, names) ==
    IF names = << >> THEN c ELSE DefineAll(Define(c, Head(names), "ref"), Tail(names))

LocalLookup(c, name) == name \in DOMAIN c.scopes[Len(c.scopes)]
Lookup(c, name) == \E i \in 1..Len(c.scopes) : name \in DOMAIN c.scopes[i]
Capability(c, name) ==
    LET i == CHOOSE i \in 1..Len(c.scopes) :
                /\ name \in DOMAIN c.scopes[i]
                /\ \A j \in (i + 1)..Len(c.scopes) : name \notin DOMAIN c.scopes[j]
    IN c.scopes[i][name]

----------------------------------------------------------------------------
RECURSIVE Infer(_, _), CheckStatement(_, _), CheckBlock(_, _), InferAll(_, _), CheckArms(_, _)

(* A name in upper case could be a type or a constructor from elsewhere.   *)
InferIdentifier(name, c) ==
    IF name \in KnownEffects \/ Lookup(c, name) \/ name \in Uppercase THEN c
    ELSE Refuse(c, "undefined variable", name)

RecordEffect(eff, c) ==
    IF eff \in c.handled THEN c ELSE [c EXCEPT !.used = @ \union {eff}]

\* What InferFnCall could be: a callee's effects are its own affair.
InferFnCallAlone(name, c) == c

(* A call uses what a top-level function of that name declares: the name   *)
(* is not looked up in the scopes, and any other name passes.              *)
InferFnCall(name, c) ==
    IF name \notin DOMAIN c.functions THEN c
    ELSE [c EXCEPT !.used = @ \union (c.functions[name].effects \ c.handled)]

(* A callee that is no name is not looked at, whatever it is made of.      *)
InferCall(e, c) ==
    LET d == InferAll(e.args, c)
    IN IF e.callee.k = "id" THEN InferFnCall(e.callee.name, d) ELSE d

CheckAssignment(e, c) ==
    LET d == Infer(e.value, c)
    IN CASE ~Lookup(d, e.name)             -> Refuse(d, "undefined variable", e.name)
         [] Capability(d, e.name) = "val"  -> Refuse(d, "cannot assign to val", e.name)
         [] OTHER -> d

Scoped(stmts, c) == PopScope(CheckBlock(stmts, PushScope(c)))

(* What the body uses of the effect is handled, and only in the body.      *)
CheckHandle(e, c) ==
    IF e.eff \notin KnownEffects THEN Refuse(c, "unknown effect", e.eff)
    ELSE LET d == Infer(e.handler, c)
         IN [Scoped(e.body, [d EXCEPT !.handled = @ \union {e.eff}])
                EXCEPT !.handled = d.handled]


CheckIf(e, c) == Scoped(e.else, Scoped(e.then, Infer(e.cond, c)))

CheckArms(arms, c) ==
    IF arms = << >> THEN c
    ELSE LET arm == Head(arms)
             d   == DefineAll(PushScope(c), arm.names)
         IN CheckArms(Tail(arms), PopScope(Infer(arm.body, Infer(arm.guard, d))))

CheckForIn(e, c) ==
    LET d == PushScope(Infer(e.iterable, c))
    IN PopScope(CheckBlock(e.body, IF e.name = "_" THEN d ELSE Define(d, e.name, "ref")))

CheckLambda(e, c) == Scoped(e.body, c)

InferAll(exprs, c) == IF exprs = << >> THEN c ELSE InferAll(Tail(exprs), Infer(Head(exprs), c))

Infer(e, c) ==
    CASE e.k \in {"int", "true", "ok", "fails", "coin"} -> c
      [] e.k = "id"      -> InferIdentifier(e.name, c)
      [] e.k = "try"     -> Infer(e.left, c)
      [] e.k \in {"default", "and", "infix"} -> Infer(e.right, Infer(e.left, c))
      [] e.k = "prefix"  -> Infer(e.right, c)
      [] e.k = "index"   -> Infer(e.index, Infer(e.left, c))
      [] e.k = "assign"  -> CheckAssignment(e, c)
      [] e.k = "if"      -> CheckIf(e, c)
      [] e.k = "match"   -> CheckArms(e.arms, Infer(e.subject, c))
      [] e.k = "for"     -> CheckForIn(e, c)
      [] e.k = "while"   -> Scoped(e.body, Infer(e.cond, c))
      [] e.k = "call"    -> InferCall(e, c)
      [] e.k = "lambda"  -> CheckLambda(e, c)
      [] e.k = "perform" -> RecordEffect(e.eff, c)
      [] e.k = "handle"  -> CheckHandle(e, c)
      [] e.k = "list"    -> InferAll(e.elements, c)

(* A name declared twice in a scope is refused, its value unread.          *)
CheckLetStatement(s, c) ==
    IF LocalLookup(c, s.name) THEN Refuse(c, "already declared", s.name)
    ELSE Define(Infer(s.value, c), s.name, s.capability)

CheckStatement(s, c) ==
    CASE s.k = "let"         -> CheckLetStatement(s, c)
      [] s.k = "destructure" -> DefineAll(Infer(s.value, c), s.names)
      [] s.k = "return"      -> Infer(s.value, c)
      [] s.k \in {"break", "continue"} -> c
      [] OTHER               -> Infer(s, c)

CheckBlock(stmts, c) ==
    IF stmts = << >> THEN c ELSE CheckBlock(Tail(stmts), CheckStatement(Head(stmts), c))

----------------------------------------------------------------------------
(* A function declares exactly the effects it uses and does not handle.    *)

CheckEffects(name, declared, c) ==
    [c EXCEPT !.errors = @ \union {<<"used but not declared", eff>> : eff \in c.used \ declared}
                           \union {<<"declared but never used", eff>> : eff \in declared \ c.used}]

CheckFnDecl(name, c) ==
    LET decl   == c.functions[name]
        inside == DefineAll(PushScope([c EXCEPT !.used = {}, !.handled = {}]), decl.params)
        after  == PopScope(CheckEffects(name, decl.effects, CheckBlock(decl.body, inside)))
    IN [after EXCEPT !.used = c.used, !.handled = c.handled]

(* The top-level names are defined first, of no known type; the statements *)
(* outside functions are not checked.                                      *)
RECURSIVE DefineTop(_, _)
DefineTop(stmts, c) ==
    IF stmts = << >> THEN c
    ELSE DefineTop(Tail(stmts),
                   IF Head(stmts).k = "let" THEN
                       Define(c, Head(stmts).name, IF Head(stmts).mut THEN "ref" ELSE "val")
                   ELSE c)

\* The functions one by one: CheckFnDecl leaves nothing behind but errors.
Check(program) ==
    LET c == DefineTop(program.top, CheckerOf(program))
    IN UNION {CheckFnDecl(name, c).errors : name \in DOMAIN program.functions}
============================================================================
