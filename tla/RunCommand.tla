---------------------------- MODULE RunCommand -----------------------------
(***************************************************************************)
(* `yoru run` (cmd/yoru/run.go): check the program, evaluate what stands   *)
(* outside its functions, call main.  It is where the two readings of a    *)
(* program meet: the properties are about what the checker accepts and     *)
(* what the evaluator then does.                                           *)
(*                                                                         *)
(* A program that imports is not checked.  The services it may then serve  *)
(* are Service's and Routes'.                                              *)
(***************************************************************************)
EXTENDS Evaluator, Checker

CONSTANTS
    Programs,     \* the programs: [top, functions, imports]; one is main
    Inputs,       \* what the coins of a run may show: sequences of booleans
    Installed     \* the effects whose provider stdlib.InstallAll installs, in order

VARIABLES
    program,      \* the program that is run
    stage,        \* how far runCmd has come
    machine,      \* the interpreter
    exitCode      \* 0; 2: refused; 3: panicked

rcVars == <<program, stage, machine, exitCode>>

RcInit ==
    /\ program \in Programs
    /\ stage = "parsed"
    /\ machine = Interpreter(Installed, << >>)
    /\ exitCode = 0

----------------------------------------------------------------------------
CheckProgram ==
    /\ stage = "parsed" /\ ~program.imports
    /\ IF Check(program) = {} THEN stage' = "checked" /\ UNCHANGED exitCode
       ELSE stage' = "exited" /\ exitCode' = 2
    /\ UNCHANGED <<program, machine>>

SkipCheck ==
    /\ stage = "parsed" /\ program.imports
    /\ stage' = "checked"
    /\ UNCHANGED <<program, machine, exitCode>>

\* The deferred recover of runCmd: a panic is the end of the run.
Becomes(st, next) ==
    /\ machine' = st
    /\ IF st.panic = NoPanic THEN stage' = next /\ UNCHANGED exitCode
       ELSE stage' = "exited" /\ exitCode' = 3

RunTopLevel ==
    /\ stage = "checked"
    /\ \E coins \in Inputs :
           Becomes(EvalProgram(program, Interpreter(Installed, coins)), "evaluated")
    /\ UNCHANGED program

RunMain ==
    /\ stage = "evaluated"
    /\ Becomes(CallMain(machine), "exited")
    /\ UNCHANGED program

RcNext == CheckProgram \/ SkipCheck \/ RunTopLevel \/ RunMain

RcSpec == RcInit /\ [][RcNext]_rcVars

----------------------------------------------------------------------------
(* Where a construct looks for a signal among the values of its parts.     *)
(* Yields(e, kinds): evaluating e can end in a signal of these kinds.      *)
(* Direct(e): every signal of e is met where the evaluator looks for it.   *)

RECURSIVE Yields(_, _), Direct(_)
AnyYields(exprs, kinds) == \E i \in 1..Len(exprs) : Yields(exprs[i], kinds)
AllDirect(exprs) == \A i \in 1..Len(exprs) : Direct(exprs[i])

Leaving == {"break", "continue"}
Jumping == {"return", "try"} \union Leaving

Yields(e, kinds) ==
    CASE e.k \in {"break", "continue"} -> e.k \in kinds
      [] e.k \in {"return", "assign", "let", "destructure"} -> e.k \in kinds \/ Yields(e.value, kinds)
      [] e.k = "try" -> "try" \in kinds \/ Yields(e.left, kinds)
      [] e.k \in {"default", "and", "infix"} -> Yields(e.left, kinds) \/ Yields(e.right, kinds)
      [] e.k = "prefix" -> Yields(e.right, kinds)
      [] e.k = "index" -> Yields(e.left, kinds) \/ Yields(e.index, kinds)
      [] e.k = "if"    -> Yields(e.cond, kinds) \/ AnyYields(e.then, kinds) \/ AnyYields(e.else, kinds)
      [] e.k = "match" -> Yields(e.subject, kinds) \/ \E i \in 1..Len(e.arms) :
                              Yields(e.arms[i].guard, kinds) \/ Yields(e.arms[i].body, kinds)
      [] e.k = "for"   -> Yields(e.iterable, kinds) \/ AnyYields(e.body, kinds \ Leaving)
      [] e.k = "while" -> Yields(e.cond, kinds) \/ AnyYields(e.body, kinds \ Leaving)
      [] e.k = "call"  -> Yields(e.callee, kinds) \/ AnyYields(e.args, kinds)
      [] e.k = "list"  -> AnyYields(e.elements, kinds)
      [] e.k = "handle" -> Yields(e.handler, kinds) \/ AnyYields(e.body, kinds)
      [] OTHER -> FALSE

Jumps(e) == Yields(e, Jumping)

Direct(e) ==
    CASE e.k \in {"let", "destructure"} -> Direct(e.value) /\ ~Yields(e.value, Leaving)
      [] e.k \in {"return", "assign"} -> Direct(e.value) /\ ~Jumps(e.value)
      [] e.k = "try"    -> Direct(e.left)
      [] e.k = "default" -> Direct(e.left) /\ Direct(e.right)
      [] e.k = "infix"  -> /\ Direct(e.left) /\ ~Yields(e.left, Leaving)
                           /\ Direct(e.right) /\ ~Yields(e.right, Leaving)
      [] e.k = "and"    -> Direct(e.left) /\ ~Yields(e.left, Leaving) /\ Direct(e.right) /\ ~Jumps(e.right)
      [] e.k = "prefix" -> Direct(e.right) /\ ~Jumps(e.right)
      [] e.k = "index"  -> Direct(e.left) /\ ~Jumps(e.left) /\ Direct(e.index) /\ ~Jumps(e.index)
      [] e.k = "if"     -> ~Jumps(e.cond) /\ Direct(e.cond) /\ AllDirect(e.then) /\ AllDirect(e.else)
      [] e.k = "match"  -> /\ Direct(e.subject) /\ ~Jumps(e.subject)
                           /\ \A i \in 1..Len(e.arms) : ~Jumps(e.arms[i].guard) /\ Direct(e.arms[i].body)
      [] e.k = "for"    -> Direct(e.iterable) /\ ~Jumps(e.iterable) /\ AllDirect(e.body)
      [] e.k = "while"  -> Direct(e.cond) /\ ~Jumps(e.cond) /\ AllDirect(e.body)
      [] e.k = "call"   -> /\ Direct(e.callee) /\ ~Yields(e.callee, Leaving)
                           /\ AllDirect(e.args) /\ ~AnyYields(e.args, Jumping)
      [] e.k = "list"   -> AllDirect(e.elements) /\ ~AnyYields(e.elements, Jumping)
      [] e.k = "handle" -> AllDirect(e.body) /\ ~Jumps(e.handler) /\ ~AnyYields(e.body, Jumping)
      [] e.k = "lambda" -> AllDirect(e.body) /\ ~AnyYields(e.body, Leaving)
      [] OTHER -> TRUE

DirectProgram ==
    /\ \A i \in 1..Len(program.top) : ~Jumps(program.top[i])
    /\ \A name \in DOMAIN program.functions : AllDirect(program.functions[name].body)

Events(kind) == {i \in 1..Len(machine.log) : machine.log[i].ev = kind}

----------------------------------------------------------------------------
(* A `?` that meets an Err is the last thing its function does: what       *)
(* happens next is that the function has returned that Err.                *)
TryReturnsEarly ==
    \A i \in Events("fail") :
        /\ i < Len(machine.log)
        /\ machine.log[i + 1] = [ev |-> "leave", depth |-> machine.log[i].depth, val |-> ErrVal]

(* Where the evaluator looks for it, a failing `?` does return early.      *)
FailuresReturnEarly == DirectProgram => TryReturnsEarly

(* A signal never becomes data: no function has one as its result, and no  *)
(* name is bound to one, where it would later make whoever reads the name  *)
(* return (evalLet, evalAssignment, callFunction, applyCallback).          *)
SignalsStayInside ==
    DirectProgram =>
        /\ \A i \in Events("leave") : ~IsSignal(machine.log[i].val)
        /\ \A i \in 1..Len(machine.envs) : \A name \in DOMAIN machine.envs[i].store :
               ~IsSignal(machine.envs[i].store[name])

(* Names the checker takes for bound, or need not find: what is called,    *)
(* names in upper case, and the names of a pattern, however many they are. *)
Passed(i) ==
    \/ machine.log[i].use = "call"
    \/ machine.log[i].use = "read" /\ machine.log[i].name \in Uppercase
    \/ \E j \in Events("surplus") : j < i /\ machine.log[i].name \in machine.log[j].names

(* The checker's scopes are the evaluator's environments: in a program     *)
(* that is accepted, every name that is read or assigned is bound then,    *)
(* but for those that passed and what the checker does not look at.  Such  *)
(* a name is nil, such an assignment is lost, and the run goes on.         *)
NamesAreBound ==
    ~program.imports => \A i \in Events("unbound") : machine.log[i].seen => Passed(i)

(* An accepted program whose main asks for nothing that is not installed   *)
(* uses no effect without a handler in what the checker looks at, unless a *)
(* function that is a value carries the use out of the handle block it was *)
(* written in, or past the contract of its caller: a lambda, or a function *)
(* whose name is in upper case (any other is no value for the checker).    *)
UnhandledOnlyInValues ==
    ~program.imports /\ program.functions[MainName].effects \subseteq {Installed[i] : i \in 1..Len(Installed)}
        => \A i \in Events("unhandled") : machine.log[i].seen =>
               \E j \in 1..Len(machine.log[i].calls) :
                   machine.log[i].calls[j] \in {Lambda} \union Uppercase

(* Whatever way the blocks of a run are left, the run is back where it     *)
(* began: no handler still installed, no inner scope still current.        *)
ScopesAreRestored ==
    stage \in {"evaluated", "exited"} /\ machine.panic = NoPanic =>
        machine.env = 1 /\ machine.effectStack = Installed

(* However a block is left, early or not, what was entered is left, and    *)
(* the reason goes where it should and nowhere else.                       *)
EarlyExitsUnwind == FailuresReturnEarly /\ SignalsStayInside /\ ScopesAreRestored

============================================================================
