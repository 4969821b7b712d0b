----------------------------- MODULE MCRunCommand ----------------------------
(* RunCommand for small programs: of early returns, of effects, of names.    *)
EXTENDS RunCommand

Num == [k |-> "int"]
Coin == [k |-> "coin"]
Fails == [k |-> "fails"]
Id(x) == [k |-> "id", name |-> x]
Apply(callee, args) == [k |-> "call", callee |-> callee, args |-> args]
CallTo(f, args) == Apply(Id(f), args)
LetBe(x, e) == [k |-> "let", name |-> x, value |-> e, mut |-> TRUE, capability |-> "ref"]
Assign(x, e) == [k |-> "assign", name |-> x, value |-> e]
Try(e) == [k |-> "try", left |-> e]
Use(eff) == [k |-> "perform", eff |-> eff]
HandleIn(eff, body) == [k |-> "handle", eff |-> eff, handler |-> Num, body |-> body]
If(c, t, f) == [k |-> "if", cond |-> c, then |-> t, else |-> f]
LambdaOf(body) == [k |-> "lambda", body |-> body]
While(c, body) == [k |-> "while", cond |-> c, body |-> body]
For(x, l, body) == [k |-> "for", name |-> x, iterable |-> l, body |-> body]
ListOf(es) == [k |-> "list", elements |-> es]
Binding(p, names, e) == [pattern |-> p, names |-> names, guard |-> [k |-> "true"], body |-> e]
FirstOf(e) == [k |-> "index", left |-> ListOf(<<e>>), index |-> Num]
Arm(p, x, e) == Binding(p, <<x>>, e)
Match(s, arms) == [k |-> "match", subject |-> s, arms |-> arms]
Fn(params, effects, body) == [params |-> params, effects |-> effects, body |-> body]
Program(top, functions) == [top |-> top, functions |-> functions, imports |-> FALSE]

IsExpression(e) == e.k \notin {"let", "return", "break", "continue", "destructure"}
Expressions(S) == {e \in S : IsExpression(e)}

\* Early returns: f holds, at most two constructs deep, something that may
\* fail, then goes on; main calls f, then goes on.
Logs == Use("Log")
Around(e) ==
    {LetBe("x", e), Try(e), [k |-> "return", value |-> e], Assign("g", e), ListOf(<<e>>),
     If(e, <<Logs>>, << >>), If(Coin, <<e>>, <<Logs>>),
     While(e, <<Logs>>), While(Coin, <<e, Logs>>),
     For("_", e, <<Logs>>), For("_", ListOf(<<Num, Num>>), <<e, Logs>>),
     CallTo("id", <<e>>), CallTo("with_capability", <<LambdaOf(<<e, Logs>>)>>),
     HandleIn("DB", <<e, Logs>>), HandleIn("DB", <<LetBe("y", e), Logs>>),
     Match(e, <<Arm("Ok", "v", Logs), Arm("any", "r", Logs)>>),
     Match(Num, <<Arm("Ok", "v", Logs), Arm("any", "r", e)>>),
     [k |-> "infix", left |-> Num, right |-> e], [k |-> "infix", left |-> e, right |-> Logs],
     [k |-> "prefix", right |-> e],
     FirstOf(e),
     [k |-> "index", left |-> ListOf(<< >>), index |-> e], Apply(e, << >>),
     [k |-> "and", left |-> e, right |-> Coin], [k |-> "and", left |-> Coin, right |-> e],
     [k |-> "default", left |-> e, right |-> Logs], [k |-> "default", left |-> Fails, right |-> e]}
Leaves == {Num, Fails, Try(Fails), Coin}
Depth1 == UNION {Around(e) : e \in Leaves}
Depth2 == UNION {Around(e) : e \in Expressions(Depth1)}
Loops == {For("_", ListOf(<<Num, Num>>), <<If(Coin, <<[k |-> b]>>, <<Logs>>), Logs>>) :
            b \in {"break", "continue"}}

Failing(statement) ==
    Program(<<LetBe("g", Num)>>,
            [main |-> Fn(<< >>, {"Log"}, <<CallTo("f", << >>), Logs, Id("g")>>),
             f    |-> Fn(<< >>, {"Log"}, <<statement, Logs>>),
             id   |-> Fn(<<"p">>, {}, <<Id("p")>>)])
Endless(s) == s.k = "while" /\ s.cond.k = "prefix"     \* input over, coins show FALSE
Early == {Failing(s) : s \in {d \in Leaves \union Depth1 \union Depth2 \union Loops : ~Endless(d)}}
Shallow == {Failing(s) : s \in Leaves \union Depth1}

\* Effects: what main does may need DB, which is installed, or Metrics.
Ops == {Use("DB"), Use("Metrics"), CallTo("f", << >>), CallTo("g", << >>), Id("g")}
Ops1 == Ops \union
    UNION {{HandleIn("DB", <<o>>), HandleIn("Metrics", <<o>>), LetBe("g", LambdaOf(<<o>>)),
            LambdaOf(<<o>>), If(Coin, <<o>>, << >>), Try(o), Assign("g", LambdaOf(<<o>>)),
            Apply(FirstOf(o), << >>)} : o \in Ops} \union
    {LetBe("g", Id("F")), CallTo("F", << >>)}
Ops2 == Ops1 \union
    UNION {{HandleIn("DB", <<o>>), HandleIn("Metrics", <<o>>), LetBe("g", o)} : o \in Expressions(Ops1)} \union
    {LetBe("g", HandleIn("Metrics", <<LambdaOf(<<o>>)>>)) : o \in Ops}
Fns(params, effects, bodies) == [params : {params}, effects : effects, body : bodies]
Effectful ==
    [top : {<< >>}, imports : {FALSE},
     functions :
        [main : Fns(<< >>, {{"DB"}, {}},
                    {<<a, b>> : a \in Ops2, b \in {CallTo("g", << >>), CallTo("f", << >>), Use("DB")}}),
         F : Fns(<< >>, {{"Metrics"}}, {<<Use("Metrics")>>}),
         f : Fns(<< >>, {{}, {"DB"}, {"Metrics"}},
                 {<<c>> : c \in {Use("DB"), Use("Metrics"), HandleIn("Metrics", <<Use("Metrics")>>)}})]]

\* Names: a and b are bound, or not, in the blocks around their uses.
Names1 == {Id("a"), Id("b"), Assign("a", Num), CallTo("a", << >>),
           LetBe("a", Id("b")), LetBe("b", Num), Id("A"), Apply(FirstOf(Id("a")), << >>),
           Match([k |-> "ok"], <<Binding("Ok", <<"a", "c">>, Id("c"))>>)}
Names2 == Names1 \union
    UNION {{If(Coin, <<o>>, <<Id("a")>>), While(Coin, <<o>>), For("a", ListOf(<<Id("b")>>), <<o>>),
            LetBe("a", LambdaOf(<<o>>)), HandleIn("DB", <<o>>), LambdaOf(<<o>>)} : o \in Names1} \union
    {Match(o, <<Arm("any", "a", Id("a"))>>) : o \in Expressions(Names1)} \union
    {[k |-> "destructure", names |-> <<"a", "b">>, value |-> ListOf(<<Num>>)]}
Tops == {LetBe("b", e) : e \in {Num, Id("a"), LambdaOf(<<Id("a")>>), CallTo("f", << >>)}}
Named(top, S) ==
    [top : top, imports : {FALSE},
     functions : [main : Fns(<< >>, {{}}, {<<a, b, Assign("a", Id("b"))>> : a \in S, b \in S}),
                  f : Fns(<< >>, {{}}, {<<Id("b")>>, <<Num>>})]]
Scoping == Named({<<LetBe("b", Num)>>}, Names2) \union Named({<<t>> : t \in Tops} \union {<< >>}, Names1)

\* One that imports, which is not checked.
WithImports == {[Failing(Logs) EXCEPT !.imports = TRUE]}

TestPrograms == Early \union Effectful \union Scoping \union WithImports
TestInputs == {<<FALSE>>, <<TRUE>>, <<TRUE, FALSE, TRUE>>, <<TRUE, TRUE>>}
Providers == <<"Log", "DB">>
Known == {"Log", "DB", "Metrics"}
InUpperCase == {"A", "F"}
=============================================================================
