---------------------------- MODULE ModuleLoader -----------------------------
(***************************************************************************)
(* ProcessImports and resolveImport: the imports of a program are resolved *)
(* depth first, each file by an interpreter of its own, which shares the   *)
(* cache of modules and the stack of the files being imported.             *)
(*                                                                         *)
(* The files are an input: what a file holds is chosen when it is first    *)
(* read, and stays.  A value is known by the file that defines it; a       *)
(* namespace is the set of what it holds.                                  *)
(***************************************************************************)
EXTENDS Naturals, FiniteSets, SequencesExt

CONSTANTS
    Modules,        \* the files that can be imported, "main" among them
    Directory,      \* the files of the one directory, in the order ListDir gives
    Types,          \* the names of objects and enums
    Builtins,       \* the names registerBuiltins gives to every interpreter
    Private,        \* the names that begin with '_'
    Contents,       \* what files may declare: [defines, exports], sets of names
    MaxImports      \* bound: import statements in all files

Alias == "A"     \* what an import is given as

ASSUME LoaderAssumption ==
    /\ "main" \in Modules /\ "dir" \notin Modules /\ IsFiniteSet(Modules)
    /\ Directory \in Seq(Modules)
    /\ \A c \in Contents : c.exports \subseteq c.defines
    /\ MaxImports \in Nat
    /\ Alias \notin Private /\ Builtins \cap Private = {}

VARIABLES
    text,       \* of each file read: what it holds, or that it cannot be used
    stack,      \* the interpreters at work: main's, then importStack
    moduleCache,
    ran,        \* the files evaluated, in order (history)
    outcome     \* "loading", "loaded", "error" or "unlisted" (that of a directory)

mlVars == <<text, stack, moduleCache, ran, outcome>>

\* An import of a file or of the directory: flat, "as" an alias, or of names.
Forms == {"flat", "alias", "names"}
Statement == [of : Modules \cup {"dir"}, form : Forms]

\* The statements a directory's import is made of: its files, then its alias.
Merge == [of |-> "dir", form |-> "merge"]

Sources(st) == IF st.of = "dir" THEN ToSet(Directory) ELSE {st.of}

From(f) == [file |-> f]
Namespace(fields) == [fields |-> fields]

\* NewInterpreter: builtins, and no objects.
Loading(f, statements) ==
    [file |-> f, left |-> statements, by |-> "flat", types |-> <<>>,
     env |-> [n \in Builtins |-> From("builtin")]]

Over(g, h) == [n \in DOMAIN g \cup DOMAIN h |-> IF n \in DOMAIN h THEN h[n] ELSE g[n]]
Only(g, names) == [n \in DOMAIN g \cap names |-> g[n]]

Written == Cardinality(UNION {{f} \X DOMAIN text[f].imports : f \in DOMAIN text})

MlTypeOK ==
    /\ DOMAIN text \subseteq Modules
    /\ Written <= MaxImports
    /\ DOMAIN moduleCache \subseteq DOMAIN text
    /\ outcome = "loading" => stack # <<>> /\ Head(stack).file = "main"
    /\ \A i \in DOMAIN stack : ToSet(stack[i].left) \subseteq Statement \cup {Merge}
    /\ outcome \in {"loading", "loaded", "error", "unlisted"}

\* The import statements a file not yet read can have.
Imports(written) == UNION {[1..n -> Statement] : n \in 0..MaxImports - written}

MlInit ==
    /\ \E is \in Imports(0) :
         /\ stack = <<Loading("main", is)>>
         /\ text = [f \in {"main"} |->
                       [usable |-> TRUE, imports |-> is, defines |-> {}, exports |-> {}]]
    /\ moduleCache = <<>> /\ ran = <<>> /\ outcome = "loading"
-----------------------------------------------------------------------------
Current == Last(stack)
Import == Head(Current.left)
WithTop(frame) == [stack EXCEPT ![Len(stack)] = frame]

\* Importing(f): f is on importStack; main's own interpreter is not.
Importing(f) == \E i \in 2..Len(stack) : stack[i].file = f

\* What Exports could be, were the names it leaves out only those not exported.
ExportsUnfiltered(mod) ==
    IF mod.exports # {} THEN Only(mod.env, mod.exports) ELSE mod.env

\* Exports and ExportsFiltered.
Exports(mod) ==
    IF mod.exports # {} THEN Only(mod.env, mod.exports)
    ELSE Only(mod.env, DOMAIN mod.env \ Private)

\* bindModule: what the frame of an importer is after an import of mod.
Bind(frame, mod, form) ==
    LET values == Exports(mod)
        types == Only(mod.types, {t \in DOMAIN mod.types : Head(t) \notin Private}) IN
    CASE form = "alias" ->      \* the objects go under "A.name"
           [frame EXCEPT !.env = Over(@, [n \in {Alias} |-> Namespace(values)]),
                         !.types = Over(@, [t \in {<<Alias>> \o u : u \in DOMAIN types} |->
                                               types[Tail(t)]])]
      [] form = "names" ->      \* every name, of which the private values are skipped
           [frame EXCEPT !.env = Over(@, Only(values, DOMAIN values \ Private)),
                         !.types = Over(@, Only(mod.types, {<<t>> : t \in Types}))]
      [] OTHER ->
           [frame EXCEPT !.env = Over(@, values), !.types = Over(@, types)]

Done(frame) == [frame EXCEPT !.left = Tail(@)]

ImportsDirectory ==
    /\ outcome = "loading" /\ Current.left # <<>>
    /\ Import.of = "dir" /\ Import.form # "merge"

\* ListDir fails.
ImportUnlisted ==
    /\ ImportsDirectory
    /\ outcome' = "unlisted" /\ UNCHANGED <<text, stack, moduleCache, ran>>

ImportDirectory ==
    /\ ImportsDirectory
    /\ stack' = WithTop([Current EXCEPT
           !.left = [i \in DOMAIN Directory |-> [of |-> Directory[i], form |-> "flat"]]
                    \o <<Merge>> \o Tail(@),
           !.by = Import.form])
    /\ UNCHANGED <<text, moduleCache, ran, outcome>>

\* Its files are imported, flat, into the importer: an alias gets all they
\* hold besides.
MergeDirectory ==
    /\ outcome = "loading" /\ Current.left # <<>> /\ Import = Merge
    /\ LET merged == FoldSeq(LAMBDA f, e :
                         LET env == moduleCache[f].env IN Over(Only(env, DOMAIN env \ Private), e),
                         <<>>, Directory)
       IN stack' = WithTop(Done(
              IF Current.by = "alias"
              THEN [Current EXCEPT !.env = Over(@, [n \in {Alias} |-> Namespace(merged)])]
              ELSE Current))
    /\ UNCHANGED <<text, moduleCache, ran, outcome>>

\* What ImportCached could be, were a module of the cache not bound again.
ImportCachedUnbound ==
    /\ outcome = "loading" /\ Current.left # <<>> /\ Import.of \in DOMAIN moduleCache
    /\ stack' = WithTop(Done(Current))
    /\ UNCHANGED <<text, moduleCache, ran, outcome>>

\* A module of the cache is bound again, not evaluated again.
ImportCached ==
    /\ outcome = "loading" /\ Current.left # <<>> /\ Import.of \in DOMAIN moduleCache
    /\ stack' = WithTop(Bind(Done(Current), moduleCache[Import.of], Import.form))
    /\ UNCHANGED <<text, moduleCache, ran, outcome>>

Unseen ==
    /\ outcome = "loading" /\ Current.left # <<>>
    /\ Import.of \in Modules \ DOMAIN moduleCache

Fail == outcome' = "error" /\ UNCHANGED <<stack, moduleCache, ran>>

ImportCycle ==
    /\ Unseen /\ Importing(Import.of)
    /\ Fail /\ UNCHANGED text

\* What ImportFile could be, were a module in the cache from the time it is read.
ImportFileCachedEarly ==
    /\ Unseen /\ ~Importing(Import.of)
    /\ LET f == Import.of IN
       \E is \in Imports(Written), c \in Contents :
         /\ f \notin DOMAIN text
         /\ text' = Over(text, [g \in {f} |-> [usable |-> TRUE, imports |-> is,
                                  defines |-> c.defines, exports |-> c.exports]])
         /\ stack' = Append(stack, Loading(f, is))
         /\ moduleCache' = Over(moduleCache,
                [g \in {f} |-> [env |-> <<>>, types |-> <<>>, exports |-> c.exports]])
         /\ UNCHANGED <<ran, outcome>>

\* Otherwise it is read, and its own imports come first.
ImportFile ==
    /\ Unseen /\ ~Importing(Import.of)
    /\ LET f == Import.of IN
       \/ \E t \in IF f \in DOMAIN text THEN {text[f]}
                   ELSE {[usable |-> TRUE, imports |-> is, defines |-> c.defines,
                          exports |-> c.exports] : is \in Imports(Written), c \in Contents} :
            /\ text' = Over(text, [g \in {f} |-> t])
            /\ stack' = Append(stack, Loading(f, t.imports))
            /\ UNCHANGED <<moduleCache, ran, outcome>>
       \/ /\ f \notin DOMAIN text         \* it is missing, or does not parse
          /\ text' = Over(text, [g \in {f} |-> [usable |-> FALSE, imports |-> <<>>,
                                                defines |-> {}, exports |-> {}]])
          /\ Fail

\* What collectDeclarations makes of a frame whose imports are resolved: a
\* file's own declarations come over what it imports.
Declared(frame) ==
    LET own(names) == [n \in names |-> From(frame.file)]
        defines == text[frame.file].defines IN
    [frame EXCEPT !.env = Over(@, own(defines \ Types)),
                  !.types = Over(@, own({<<t>> : t \in defines \cap Types}))]

Module(frame) ==
    [env |-> frame.env, types |-> frame.types, exports |-> text[frame.file].exports]

\* The imports of a file are resolved: it is evaluated, cached and bound.
Evaluate ==
    /\ outcome = "loading" /\ Current.left = <<>> /\ Len(stack) > 1
    /\ LET mod == Module(Declared(Current))
           importer == stack[Len(stack) - 1] IN
       /\ stack' = Append(SubSeq(stack, 1, Len(stack) - 2),
                          Bind(Done(importer), mod, Head(importer.left).form))
       /\ moduleCache' = Over(moduleCache, [f \in {Current.file} |-> mod])
       /\ ran' = Append(ran, Current.file)
       /\ UNCHANGED <<text, outcome>>

\* main has its imports: EvalProgram.
EvaluateMain ==
    /\ outcome = "loading" /\ Current.left = <<>> /\ Len(stack) = 1
    /\ outcome' = "loaded"
    /\ ran' = Append(ran, "main")
    /\ UNCHANGED <<text, stack, moduleCache>>

MlNext ==
    \/ ImportDirectory \/ ImportUnlisted \/ MergeDirectory \/ ImportCached \/ ImportCycle
    \/ ImportFile \/ Evaluate \/ EvaluateMain

MlSpec == MlInit /\ [][MlNext]_mlVars
-----------------------------------------------------------------------------
(* Properties. *)

Targets(f) == UNION {Sources(st) : st \in ToSet(text[f].imports)}

\* The files one comes to from f, through those that were read.
Closed(S) == \A g \in S \cap DOMAIN text : Targets(g) \subseteq S
Reached(f) ==
    {g \in Modules : \A S \in SUBSET Modules : Targets(f) \subseteq S /\ Closed(S) => g \in S}

\* Loading fails when a file of the program's graph is missing, does not parse
\* or comes to itself, and, but for a directory that cannot be listed, not
\* otherwise, whatever was loaded and cached on the way, and though main is not
\* on the stack.
FailsOnlyForCause ==
    LET all == {"main"} \cup Reached("main")
        bad(f) == f \in DOMAIN text /\ (~text[f].usable \/ f \in Reached(f)) IN
    /\ outcome = "loaded" => all \subseteq DOMAIN text /\ \A f \in all : ~bad(f)
    /\ outcome = "error" => \E f \in all : bad(f)

\* A file is evaluated once, however many import it, and after every file it
\* imports.
DependenciesFirst ==
    /\ IsInjective(ran)
    /\ \A i \in DOMAIN ran : Targets(ran[i]) \subseteq {ran[j] : j \in 1..i - 1}

\* Loading is a walk of the graph, dependencies first, that fails on a bad file
\* and on nothing else.
GraphIsWalked == FailsOnlyForCause /\ DependenciesFirst

\* What the text of a file and the modules it imports make of it.
Meaning[f \in Modules] ==
    LET step(frame, st) ==
            LET mods == IF st.of = "dir" THEN Directory ELSE <<st.of>>
                form == IF st.of = "dir" THEN "flat" ELSE st.form
                bound == FoldLeft(LAMBDA fr, g : Bind(fr, Module(Meaning[g]), form), frame, mods)
                all == FoldLeft(LAMBDA e, g : Over(e, Only(Meaning[g].env,
                                    DOMAIN Meaning[g].env \ Private)), <<>>, mods)
            IN IF st.of = "dir" /\ st.form = "alias"
               THEN [bound EXCEPT !.env = Over(@, [n \in {Alias} |-> Namespace(all)])]
               ELSE bound
    IN Declared(FoldLeft(step, Loading(f, <<>>), text[f].imports))

\* What a module holds in the cache does not depend on who imported it first, or
\* in what form: an import binds what the file means, whoever loaded it.
CacheIsTransparent ==
    outcome # "loading" => \A f \in DOMAIN moduleCache : moduleCache[f] = Module(Meaning[f])

Scopes == {stack[i] : i \in DOMAIN stack}

\* A file's private name is in another's scope only if the file exports it,
\* however many files and forms of import it passed through.
PrivateUnlessExported ==
    \A frame \in Scopes : \A n \in DOMAIN frame.env \cap Private :
        LET f == frame.env[n].file IN f = frame.file \/ n \in text[f].exports

\* Imports go as the graph of the files says and carry what is exported: they fail
\* for cause, evaluate dependencies first and once, and leak no private name.
ImportsAreSound == GraphIsWalked /\ PrivateUnlessExported
=============================================================================
