----------------------------- MODULE LoaderProofs -----------------------------
(***************************************************************************)
(* For any files, imports and directory: loading is a walk of the graph of *)
(* the files that ends for cause, dependencies first, and no private name  *)
(* leaves its file but as an export.                                       *)
(*                                                                         *)
(* The property speaks of the end of a walk, the inductive invariant of    *)
(* its middle: the stack is a path in the graph that does not come to      *)
(* itself, and every file that one of the stack imports is in the cache or *)
(* still to be imported.                                                   *)
(***************************************************************************)
EXTENDS ModuleLoader, SequenceTheorems, FiniteSetTheorems, TLAPS

-----------------------------------------------------------------------------
(* What is true of a load. *)

\* A sequence of whatever it holds.
IsSeq(s) == \E S : s \in Seq(S)

\* An interpreter at work, and its statements.
Shaped(frame) ==
    frame = [file |-> frame.file, left |-> frame.left, by |-> frame.by,
             types |-> frame.types, env |-> frame.env]

IsFrame(frame) ==
    /\ Shaped(frame)
    /\ frame.file \in DOMAIN text
    /\ frame.left \in Seq(Statement \cup {Merge})

TextFits ==
    /\ DOMAIN text \subseteq Modules
    /\ "main" \in DOMAIN text /\ text["main"].usable
    /\ \A f \in DOMAIN text : text[f].imports \in Seq(Statement)
    /\ outcome = "loading" => \A f \in DOMAIN text : text[f].usable

\* Every import statement of the files read, at its place.
Places == UNION {{f} \X DOMAIN text[f].imports : f \in DOMAIN text}

WrittenFits == IsFiniteSet(Places) /\ Written <= MaxImports

StackFits ==
    /\ IsSeq(stack) /\ Len(stack) \in Nat \ {0}
    /\ \A i \in 1..Len(stack) : IsFrame(stack[i])
    /\ stack[1].file = "main"

\* The files a frame is still to import.
Pending(left) == UNION {Sources(st) : st \in ToSet(left) \ {Merge}}

\* What a file imports is in the cache or is still to be imported, and a frame
\* imports the file of the one above it.
ImportsArePending ==
    /\ \A i \in 1..Len(stack) :
         /\ Pending(stack[i].left) \subseteq Targets(stack[i].file)
         /\ Targets(stack[i].file) \subseteq DOMAIN moduleCache \cup Pending(stack[i].left)
    /\ \A i \in 1..Len(stack) - 1 :
         stack[i].left # <<>> /\ Head(stack[i].left).of = stack[i + 1].file

\* The stack is a path in the graph, without a file twice.
StackIsPath ==
    /\ \A i \in 2..Len(stack) :
         /\ stack[i].file \notin DOMAIN moduleCache
         /\ \A j \in 2..Len(stack) : stack[i].file = stack[j].file => i = j
    /\ \A i, j \in 1..Len(stack) : i < j => stack[j].file \in Reached(stack[i].file)

\* The cache holds the files that were evaluated, all usable.
CacheFits ==
    /\ IsSeq(ran) /\ Len(ran) \in Nat
    /\ DOMAIN moduleCache \subseteq {f \in DOMAIN text : text[f].usable} \ {"main"}
    /\ outcome # "loaded" => ToSet(ran) = DOMAIN moduleCache

WalkInv ==
    TextFits /\ WrittenFits /\ StackFits /\ ImportsArePending /\ StackIsPath /\ CacheFits /\ GraphIsWalked

-----------------------------------------------------------------------------
(* Sequences. *)

LEMMA SeqFacts ==
    ASSUME NEW s, IsSeq(s)
    PROVE  Len(s) \in Nat /\ DOMAIN s = 1..Len(s) /\ (s # <<>> <=> Len(s) # 0)
BY DEF IsSeq

LEMMA AppendSeq ==
    ASSUME NEW s, IsSeq(s), NEW e
    PROVE  /\ IsSeq(Append(s, e)) /\ Len(Append(s, e)) = Len(s) + 1
           /\ \A i \in 1..Len(s) : Append(s, e)[i] = s[i]
           /\ Append(s, e)[Len(s) + 1] = e
<1>1. PICK S : s \in Seq(S)
  BY DEF IsSeq
<1> DEFINE T == S \cup {e}
<1>2. s \in Seq(T) /\ e \in T
  BY <1>1
<1> HIDE DEF T
<1>3. Append(s, e) \in Seq(T)
  BY <1>2
<1>4. QED
  BY <1>2, <1>3 DEF IsSeq

LEMMA ConcatSet ==
    ASSUME NEW S, NEW s \in Seq(S), NEW t \in Seq(S)
    PROVE  s \o t \in Seq(S) /\ ToSet(s \o t) = ToSet(s) \cup ToSet(t)
<1>1. /\ Len(s) \in Nat /\ Len(t) \in Nat /\ Len(s \o t) = Len(s) + Len(t)
      /\ s \o t \in Seq(S)
      /\ DOMAIN s = 1..Len(s) /\ DOMAIN t = 1..Len(t)
  OBVIOUS
<1>2. DOMAIN (s \o t) = 1..Len(s) + Len(t)
  BY <1>1
<1>3. /\ \A i \in 1..Len(s) : (s \o t)[i] = s[i]
      /\ \A i \in 1..Len(t) : (s \o t)[Len(s) + i] = t[i]
  BY <1>1
<1> DEFINE u == s \o t
<1> HIDE DEF u
<1>4. ToSet(u) \subseteq ToSet(s) \cup ToSet(t)
  <2>1. SUFFICES ASSUME NEW i \in 1..Len(s) + Len(t)
                 PROVE  u[i] \in ToSet(s) \cup ToSet(t)
    BY <1>2 DEF ToSet, u
  <2>2. CASE i <= Len(s)
    BY <1>1, <1>3, <2>2 DEF ToSet, u
  <2>3. CASE i > Len(s)
    <3>1. i - Len(s) \in 1..Len(t) /\ i = Len(s) + (i - Len(s))
      BY <1>1, <2>3
    <3>2. u[i] = t[i - Len(s)]
      BY <1>3, <3>1 DEF u
    <3>3. QED
      BY <1>1, <3>1, <3>2 DEF ToSet
  <2>4. QED
    BY <1>1, <2>2, <2>3
<1>5. ToSet(s) \cup ToSet(t) \subseteq ToSet(u)
  <2>1. \A i \in 1..Len(s) : i \in 1..Len(s) + Len(t)
    BY <1>1
  <2>2. \A i \in 1..Len(t) : Len(s) + i \in 1..Len(s) + Len(t)
    BY <1>1
  <2>3. ToSet(s) \subseteq ToSet(u)
    BY <1>1, <1>2, <1>3, <2>1 DEF ToSet, u
  <2>4. ToSet(t) \subseteq ToSet(u)
    BY <1>1, <1>2, <1>3, <2>2 DEF ToSet, u
  <2>5. QED
    BY <2>3, <2>4
<1>6. QED
  BY <1>1, <1>4, <1>5 DEF u

LEMMA ConcatThree ==
    ASSUME NEW S, NEW s \in Seq(S), NEW e \in S, NEW t \in Seq(S)
    PROVE  s \o <<e>> \o t \in Seq(S) /\ ToSet(s \o <<e>> \o t) = ToSet(s) \cup {e} \cup ToSet(t)
<1> DEFINE one == <<e>>  u == s \o one
<1>1. one \in Seq(S) /\ ToSet(one) = {e}
  BY DEF ToSet
<1> HIDE DEF one
<1>2. u \in Seq(S) /\ ToSet(u) = ToSet(s) \cup {e}
  BY <1>1, ConcatSet
<1> HIDE DEF u
<1>3. u \o t \in Seq(S) /\ ToSet(u \o t) = ToSet(u) \cup ToSet(t)
  BY <1>2, ConcatSet
<1>4. QED
  BY <1>2, <1>3 DEF u, one

\* The last, or the last two, of a sequence replaced by one element.
LastBy(s, e) == [s EXCEPT ![Len(s)] = e]
LastTwoBy(s, e) == Append(SubSeq(s, 1, Len(s) - 2), e)

LEMMA ReplaceLast ==
    ASSUME NEW s, IsSeq(s), Len(s) # 0, NEW e
    PROVE  /\ IsSeq(LastBy(s, e)) /\ Len(LastBy(s, e)) = Len(s) /\ LastBy(s, e)[Len(s)] = e
           /\ \A i \in 1..Len(s) - 1 : LastBy(s, e)[i] = s[i]
<1>1. PICK S : s \in Seq(S)
  BY DEF IsSeq
<1> DEFINE T == S \cup {e}  t == [s EXCEPT ![Len(s)] = e]
<1>2. s \in Seq(T) /\ e \in T
  BY <1>1
<1> HIDE DEF T
<1>3. t \in Seq(T) /\ Len(t) = Len(s) /\ t[Len(s)] = e /\ \A i \in 1..Len(s) - 1 : t[i] = s[i]
  BY <1>2
<1>4. QED
  BY <1>3 DEF IsSeq, LastBy

LEMMA ReplaceTwo ==
    ASSUME NEW s, IsSeq(s), Len(s) > 1, NEW e
    PROVE  /\ IsSeq(LastTwoBy(s, e)) /\ Len(LastTwoBy(s, e)) = Len(s) - 1
           /\ LastTwoBy(s, e)[Len(s) - 1] = e
           /\ \A i \in 1..Len(s) - 2 : LastTwoBy(s, e)[i] = s[i]
<1>1. PICK S : s \in Seq(S)
  BY DEF IsSeq
<1> DEFINE u == SubSeq(s, 1, Len(s) - 2)
<1>2. u \in Seq(S) /\ Len(u) = Len(s) - 2 /\ \A i \in 1..Len(s) - 2 : u[i] = s[i]
  <2> DEFINE n == Len(s) - 2
  <2>1. n \in Nat /\ \A i \in 1..n : s[i] \in S
    BY <1>1
  <2> HIDE DEF n
  <2>2. /\ SubSeq(s, 1, n) \in Seq(S) /\ Len(SubSeq(s, 1, n)) = n
        /\ \A i \in 1..n : SubSeq(s, 1, n)[i] = s[i]
    BY <2>1, SubSeqProperties
  <2>3. QED
    BY <2>2 DEF n
<1>3. IsSeq(u)
  BY <1>2 DEF IsSeq
<1>4. Len(s) \in Nat
  BY SeqFacts
<1> HIDE DEF u
<1>5. QED
  BY <1>2, <1>3, <1>4, AppendSeq DEF u, LastTwoBy

-----------------------------------------------------------------------------
(* Frames. *)

LEMMA Literals == Merge \notin Statement /\ Merge.of = "dir"
BY DEF Merge, Statement, Forms

LEMMA StatementFields ==
    ASSUME NEW st \in Statement
    PROVE  st.of \in Modules \cup {"dir"} /\ st.form \in Forms
BY DEF Statement

\* A binding leaves the file and the statements of a frame alone.
LEMMA BindKeeps ==
    ASSUME NEW frame, Shaped(frame), NEW mod, NEW form
    PROVE  /\ Shaped(Bind(frame, mod, form))
           /\ Bind(frame, mod, form).file = frame.file
           /\ Bind(frame, mod, form).left = frame.left
<1>1. CASE form = "alias"
  BY <1>1 DEF Bind, Shaped
<1>2. CASE form = "names"
  BY <1>2 DEF Bind, Shaped
<1>3. CASE form # "alias" /\ form # "names"
  BY <1>3 DEF Bind, Shaped
<1>4. QED
  BY <1>1, <1>2, <1>3

Spread(frame, left, by) == [frame EXCEPT !.left = left, !.by = by]
LEMMA SpreadKeeps ==
    ASSUME NEW frame, Shaped(frame), NEW left, NEW by
    PROVE  /\ Shaped(Spread(frame, left, by)) /\ Spread(frame, left, by).file = frame.file
           /\ Spread(frame, left, by).left = left
<1>1. PICK f, l, b, t, e : frame = [file |-> f, left |-> l, by |-> b, types |-> t, env |-> e]
  BY DEF Shaped
<1> DEFINE one == [frame EXCEPT !.left = left]
<1>2. one = [file |-> f, left |-> left, by |-> b, types |-> t, env |-> e]
  BY <1>1
<1>3. Spread(frame, left, by) = [one EXCEPT !.by = by]
  BY DEF Spread
<1> HIDE DEF one
<1>4. [one EXCEPT !.by = by] = [file |-> f, left |-> left, by |-> by, types |-> t, env |-> e]
  BY <1>2
<1>5. QED
  BY <1>1, <1>3, <1>4 DEF Shaped

LEMMA DoneKeeps ==
    ASSUME NEW frame, Shaped(frame)
    PROVE  Shaped(Done(frame)) /\ Done(frame).file = frame.file
           /\ Done(frame).left = Tail(frame.left)
<1>1. frame = [file |-> frame.file, left |-> frame.left, by |-> frame.by,
               types |-> frame.types, env |-> frame.env]
  BY DEF Shaped
<1> DEFINE rest == Tail(frame.left)
<1>2. Done(frame) = [frame EXCEPT !.left = rest]
  BY DEF Done
<1> HIDE DEF rest
<1>3. [frame EXCEPT !.left = rest] = [file |-> frame.file, left |-> rest, by |-> frame.by,
                                      types |-> frame.types, env |-> frame.env]
  BY <1>1
<1>4. QED
  BY <1>2, <1>3 DEF Shaped, rest

\* What is to be imported when the first statement is done.
LEMMA PendingTail ==
    ASSUME NEW left \in Seq(Statement \cup {Merge}), left # <<>>
    PROVE  /\ Head(left) \in Statement \cup {Merge} /\ Tail(left) \in Seq(Statement \cup {Merge})
           /\ Pending(Tail(left)) \subseteq Pending(left)
           /\ Head(left) = Merge => Pending(left) = Pending(Tail(left))
           /\ Head(left) # Merge => Pending(left) = Sources(Head(left)) \cup Pending(Tail(left))
<1> DEFINE S == Statement \cup {Merge}
<1>1. left \in Seq(S)
  OBVIOUS
<1> HIDE DEF S
<1>2. /\ Head(left) \in S /\ Tail(left) \in Seq(S)
      /\ ToSet(left) = {Head(left)} \cup ToSet(Tail(left))
  <2>1. Len(left) \in Nat \ {0} /\ DOMAIN left = 1..Len(left)
    BY <1>1
  <2>2. /\ Head(left) = left[1] /\ Tail(left) \in Seq(S) /\ Len(Tail(left)) = Len(left) - 1
        /\ \A i \in 1..Len(left) - 1 : Tail(left)[i] = left[i + 1]
    BY <1>1
  <2>3. DOMAIN Tail(left) = 1..Len(left) - 1
    BY <2>2
  <2>4. \A i \in 1..Len(left) : i = 1 \/ i - 1 \in 1..Len(left) - 1
    BY <2>1
  <2>5. \A i \in 1..Len(left) - 1 : i + 1 \in 1..Len(left)
    BY <2>1
  <2>6. 1 \in 1..Len(left) /\ left[1] \in S
    BY <1>1, <2>1
  <2>7. ToSet(left) \subseteq {Head(left)} \cup ToSet(Tail(left))
    <3>1. SUFFICES ASSUME NEW i \in 1..Len(left)
                   PROVE  left[i] \in {Head(left)} \cup ToSet(Tail(left))
      BY <2>1 DEF ToSet
    <3>2. CASE i = 1
      BY <2>2, <3>2
    <3>3. CASE i # 1
      <4>1. i - 1 \in 1..Len(left) - 1
        BY <2>4, <3>3
      <4>2. Tail(left)[i - 1] = left[i]
        BY <2>2, <4>1
      <4>3. QED
        BY <2>3, <4>1, <4>2 DEF ToSet
    <3>4. QED
      BY <3>2, <3>3
  <2>8. ToSet(Tail(left)) \subseteq ToSet(left)
    BY <2>1, <2>2, <2>3, <2>5 DEF ToSet
  <2>9. Head(left) \in ToSet(left)
    BY <2>1, <2>2, <2>6 DEF ToSet
  <2>10. QED
    BY <2>2, <2>6, <2>7, <2>8, <2>9
<1>3. QED
  BY <1>2 DEF S, Pending

\* A directory is imported file by file.
Files == [i \in DOMAIN Directory |-> [of |-> Directory[i], form |-> "flat"]]

LEMMA PendingDirectory ==
    ASSUME NEW left \in Seq(Statement \cup {Merge})
    PROVE  /\ Files \o <<Merge>> \o left \in Seq(Statement \cup {Merge})
           /\ Pending(Files \o <<Merge>> \o left) = ToSet(Directory) \cup Pending(left)
<1> DEFINE S == Statement \cup {Merge}
           all == Files \o <<Merge>> \o left
<1>1. Directory \in Seq(Modules)
  BY LoaderAssumption
<1>2. DOMAIN Directory = 1..Len(Directory) /\ Len(Directory) \in Nat
  BY <1>1
<1>3. \A i \in 1..Len(Directory) : Files[i] \in Statement /\ Files[i].of \in Modules
  BY <1>1 DEF Statement, Forms, Files
<1>4. Files \in Seq(Statement) /\ Len(Files) = Len(Directory)
  <2> DEFINE n == Len(Directory)
  <2>1. Files \in [1..n -> Statement] /\ n \in Nat
    BY <1>2, <1>3 DEF Files
  <2>2. QED
    <3> HIDE DEF n
    <3>1. Files \in Seq(Statement) /\ Len(Files) = n
      BY <2>1
    <3>2. QED
      BY <3>1 DEF n
<1>5. Merge \in S
  OBVIOUS
<1>6. Files \in Seq(S) /\ left \in Seq(S)
  BY <1>4
<1>7. ToSet(all) = ToSet(Files) \cup {Merge} \cup ToSet(left) /\ all \in Seq(S)
  <2> HIDE DEF S
  <2>1. QED
    BY <1>5, <1>6, ConcatThree
<1>8. DOMAIN Files = 1..Len(Directory)
  BY <1>2 DEF Files
<1> DEFINE U == UNION {Sources(st) : st \in ToSet(Files)}
<1>9. Pending(all) = U \cup Pending(left)
  <2>1. Merge \notin ToSet(Files)
    BY <1>3, <1>8, Literals DEF ToSet
  <2>2. ToSet(all) \ {Merge} = ToSet(Files) \cup (ToSet(left) \ {Merge})
    BY <1>7, <2>1
  <2>3. QED
    BY <2>2 DEF Pending
<1>10. U = ToSet(Directory)
  <2>1. \A i \in 1..Len(Directory) : Sources(Files[i]) = {Directory[i]}
    BY <1>2, <1>3, LoaderAssumption DEF Sources, Files
  <2>2. QED
    BY <1>2, <1>8, <2>1 DEF ToSet
<1> HIDE DEF U, all
<1>11. all \in Seq(S) /\ Pending(all) = ToSet(Directory) \cup Pending(left)
  BY <1>7, <1>9, <1>10
<1>12. QED
  BY <1>11 DEF all

-----------------------------------------------------------------------------
(* The graph of the files. *)

LEMMA SourcesAreModules ==
    ASSUME NEW st \in Statement \cup {Merge}
    PROVE  Sources(st) \subseteq Modules
<1>1. ToSet(Directory) \subseteq Modules
  BY LoaderAssumption DEF ToSet
<1>2. st.of \in Modules \cup {"dir"}
  BY Literals, StatementFields
<1>3. QED
  BY <1>1, <1>2 DEF Sources

LEMMA TargetsAreModules ==
    ASSUME TextFits, NEW f \in DOMAIN text
    PROVE  Targets(f) \subseteq Modules
<1>1. text[f].imports \in Seq(Statement)
  BY DEF TextFits
<1>2. ToSet(text[f].imports) \subseteq Statement
  BY <1>1 DEF ToSet
<1>3. QED
  BY <1>2, SourcesAreModules DEF Targets

\* The files one comes to are the least set that holds the imports and is
\* closed under the imports of the files read.
LEMMA ReachedIsLeast ==
    ASSUME TextFits, NEW f \in DOMAIN text
    PROVE  /\ Targets(f) \subseteq Reached(f) /\ Reached(f) \subseteq Modules
           /\ Closed(Reached(f))
           /\ \A S \in SUBSET Modules : Targets(f) \subseteq S /\ Closed(S) => Reached(f) \subseteq S
<1>1. Targets(f) \subseteq Reached(f) /\ Reached(f) \subseteq Modules
  BY TargetsAreModules DEF Reached
<1>2. \A S \in SUBSET Modules : Targets(f) \subseteq S /\ Closed(S) => Reached(f) \subseteq S
  BY DEF Reached
<1>3. Closed(Reached(f))
  <2>1. SUFFICES ASSUME NEW g \in Reached(f) \cap DOMAIN text, NEW h \in Targets(g),
                        NEW S \in SUBSET Modules, Targets(f) \subseteq S, Closed(S)
                 PROVE  h \in S
    BY TargetsAreModules DEF Closed, Reached
  <2>2. g \in S
    BY <1>2, <2>1
  <2>3. QED
    BY <2>1, <2>2 DEF Closed
<1>4. QED
  BY <1>1, <1>2, <1>3

LEMMA ReachedIsTransitive ==
    ASSUME TextFits, NEW f \in DOMAIN text, NEW g \in DOMAIN text, g \in Reached(f)
    PROVE  Targets(g) \subseteq Reached(f) /\ Reached(g) \subseteq Reached(f)
<1>1. Targets(g) \subseteq Reached(f)
  BY ReachedIsLeast DEF Closed
<1>2. QED
  BY <1>1, ReachedIsLeast

\* What was read stays, so that what one comes to only grows.
LEMMA GraphGrows ==
    ASSUME TextFits, TextFits', NEW f \in DOMAIN text,
           \A g \in DOMAIN text : g \in DOMAIN text' /\ text'[g] = text[g]
    PROVE  Targets(f)' = Targets(f) /\ Reached(f) \subseteq Reached(f)'
<1>1. \A g \in DOMAIN text : Targets(g)' = Targets(g)
  BY DEF Targets
<1>2. \A S : Closed(S)' => Closed(S)
  BY <1>1 DEF Closed
<1>3. QED
  BY <1>1, <1>2 DEF Reached

LEMMA SameGraph ==
    ASSUME text' = text
    PROVE  \A f : Targets(f)' = Targets(f) /\ Reached(f)' = Reached(f)
<1>1. \A f : Targets(f)' = Targets(f)
  BY DEF Targets
<1>2. \A S : Closed(S)' <=> Closed(S)
  BY <1>1 DEF Closed
<1>3. QED
  BY <1>1, <1>2 DEF Reached

-----------------------------------------------------------------------------
(* The steps. *)

\* While a program is loaded, the files evaluated are those of the cache.
LEMMA RanWereRead ==
    ASSUME WalkInv, outcome = "loading"
    PROVE  /\ DOMAIN ran = 1..Len(ran) /\ Len(ran) \in Nat
           /\ \A i \in 1..Len(ran) : ran[i] \in DOMAIN moduleCache /\ ran[i] \in DOMAIN text
<1>1. CacheFits
  BY DEF WalkInv
<1>2. DOMAIN ran = 1..Len(ran) /\ Len(ran) \in Nat
  BY <1>1, SeqFacts DEF CacheFits
<1>3. ToSet(ran) = DOMAIN moduleCache /\ DOMAIN moduleCache \subseteq DOMAIN text
  BY <1>1 DEF CacheFits
<1>4. QED
  BY <1>2, <1>3 DEF ToSet

LEMMA InTheWork ==
    ASSUME WalkInv
    PROVE  /\ IsSeq(stack) /\ Len(stack) \in Nat \ {0} /\ DOMAIN stack = 1..Len(stack)
           /\ Current = stack[Len(stack)] /\ IsFrame(Current)
           /\ Current.left \in Seq(Statement \cup {Merge})
           /\ Current.file \in DOMAIN text /\ Current.file \in Modules
           /\ Shaped(Current)
<1>1. IsSeq(stack) /\ Len(stack) \in Nat \ {0}
  BY DEF WalkInv, StackFits
<1>2. Current = stack[Len(stack)] /\ Len(stack) \in 1..Len(stack)
  BY <1>1 DEF Current, Last
<1>3. IsFrame(Current)
  BY <1>2 DEF WalkInv, StackFits
<1>4. QED
  BY <1>1, <1>2, <1>3, SeqFacts DEF IsFrame, Shaped, WalkInv, TextFits

\* The frame at work goes on with its imports.
LEMMA TopGoesOn ==
    ASSUME WalkInv, outcome = "loading",
           NEW frame, IsFrame(frame), frame.file = Current.file,
           Pending(frame.left) \subseteq Pending(Current.left),
           Pending(Current.left) \subseteq DOMAIN moduleCache \cup Pending(frame.left),
           stack' = WithTop(frame), UNCHANGED <<text, moduleCache, ran, outcome>>
    PROVE  WalkInv'
<1> DEFINE n == Len(stack)
<1>1. /\ IsSeq(stack) /\ n \in Nat \ {0}
      /\ Current = stack[n]
  BY InTheWork
<1>2. /\ IsSeq(stack') /\ Len(stack') = n /\ stack'[n] = frame
      /\ \A i \in 1..n - 1 : stack'[i] = stack[i]
  <2>1. stack' = LastBy(stack, frame) /\ Len(stack) # 0
    BY <1>1 DEF WithTop, LastBy
  <2>2. QED
    BY <1>1, <2>1, ReplaceLast
<1>3. /\ \A i \in 1..n : i = n \/ i \in 1..n - 1
      /\ \A i \in 1..n - 1 : i \in 1..n /\ i + 1 \in 1..n
      /\ n \in 1..n
  BY <1>1
<1> HIDE DEF n
<1>4. \A i \in 1..n : stack'[i].file = stack[i].file
  BY <1>1, <1>2, <1>3
<1>5. \A f : Targets(f)' = Targets(f) /\ Reached(f)' = Reached(f)
  BY SameGraph
<1>6. TextFits' /\ WrittenFits'
  <2>1. TextFits'
    BY DEF WalkInv, TextFits
  <2>2. WrittenFits'
    BY DEF WalkInv, WrittenFits, Written, Places
  <2>3. QED
    BY <2>1, <2>2
<1>7. StackFits'
  <2>1. \A i \in 1..n : IsFrame(stack[i])'
    BY <1>2, <1>3 DEF WalkInv, StackFits, IsFrame, n
  <2>2. stack'[1].file = "main"
    BY <1>1, <1>4 DEF WalkInv, StackFits
  <2>3. QED
    BY <1>1, <1>2, <2>1, <2>2 DEF StackFits
<1>8. ImportsArePending'
  <2>1. \A i \in 1..n :
          /\ Pending(stack'[i].left) \subseteq Targets(stack[i].file)
          /\ Targets(stack[i].file) \subseteq DOMAIN moduleCache \cup Pending(stack'[i].left)
    BY <1>1, <1>2, <1>3 DEF WalkInv, ImportsArePending, n
  <2>2. \A i \in 1..n - 1 :
          stack'[i].left # <<>> /\ Head(stack'[i].left).of = stack'[i + 1].file
    BY <1>2, <1>3, <1>4 DEF WalkInv, ImportsArePending, n
  <2>3. QED
    BY <1>2, <1>4, <1>5, <2>1, <2>2 DEF ImportsArePending
<1>9. StackIsPath'
  <2>1. \A i \in 2..n : i \in 1..n
    BY <1>1
  <2>2. QED
    BY <1>2, <1>4, <1>5, <2>1 DEF WalkInv, StackIsPath, n
<1>10. CacheFits' /\ GraphIsWalked'
  <2>1. DependenciesFirst'
    BY <1>5 DEF WalkInv, GraphIsWalked, DependenciesFirst
  <2>2. CacheFits'
    BY DEF WalkInv, CacheFits
  <2>3. QED
    BY <2>1, <2>2 DEF GraphIsWalked, FailsOnlyForCause
<1>11. QED
  BY <1>6, <1>7, <1>8, <1>9, <1>10 DEF WalkInv

LEMMA DirectoryWalks == WalkInv /\ (ImportDirectory \/ MergeDirectory) => WalkInv'
<1> SUFFICES ASSUME WalkInv, ImportDirectory \/ MergeDirectory PROVE WalkInv'
  OBVIOUS
<1> DEFINE left == Current.left
<1>1. /\ Shaped(Current) /\ left \in Seq(Statement \cup {Merge}) /\ left # <<>>
      /\ Current.file \in DOMAIN text /\ outcome = "loading"
  BY InTheWork DEF ImportDirectory, ImportsDirectory, MergeDirectory
<1> HIDE DEF left
<1>2. /\ Tail(left) \in Seq(Statement \cup {Merge})
      /\ Pending(Tail(left)) \subseteq Pending(left)
      /\ Head(left) = Merge => Pending(left) = Pending(Tail(left))
      /\ Head(left) # Merge => Pending(left) = Sources(Head(left)) \cup Pending(Tail(left))
  BY <1>1, PendingTail
<1>3. Current = [file |-> Current.file, left |-> left, by |-> Current.by,
                 types |-> Current.types, env |-> Current.env]
  BY <1>1 DEF Shaped, left
<1>4. CASE ImportDirectory
  <2> DEFINE steps == Files \o <<Merge>> \o Tail(left)
             by == Import.form
             frame == Spread(Current, steps, by)
  <2>1. stack' = WithTop(frame) /\ UNCHANGED <<text, moduleCache, ran, outcome>>
    BY <1>4, Zenon DEF ImportDirectory, Files, Spread, left
  <2>2. /\ steps \in Seq(Statement \cup {Merge})
        /\ Pending(steps) = ToSet(Directory) \cup Pending(Tail(left))
    BY <1>2, PendingDirectory
  <2>3. Sources(Head(left)) = ToSet(Directory) /\ Head(left) # Merge
    BY <1>4 DEF ImportDirectory, ImportsDirectory, Import, Sources, Merge, left
  <2> HIDE DEF steps, by
  <2>4. Shaped(frame) /\ frame.file = Current.file /\ frame.left = steps
    BY <1>1, SpreadKeeps
  <2>5. IsFrame(frame)
    BY <1>1, <2>2, <2>4 DEF IsFrame
  <2> HIDE DEF frame
  <2>6. Pending(steps) = Pending(left)
    BY <1>2, <2>2, <2>3
  <2>7. QED
    BY <1>1, <2>1, <2>4, <2>5, <2>6, TopGoesOn DEF left
<1>5. CASE MergeDirectory
  <2> DEFINE rest == Tail(left)
  <2>1. PICK env : /\ stack' = WithTop(Done([Current EXCEPT !.env = env]))
                   /\ UNCHANGED <<text, moduleCache, ran, outcome>>
    <3>1. Current = [Current EXCEPT !.env = Current.env]
      BY <1>3
    <3>2. QED
      BY <1>5, <3>1 DEF MergeDirectory
  <2> DEFINE held == [Current EXCEPT !.env = env]
             frame == Done(held)
  <2>2. Shaped(held) /\ held.file = Current.file /\ held.left = left
    <3>1. held = [file |-> Current.file, left |-> left, by |-> Current.by,
                  types |-> Current.types, env |-> env]
      BY <1>3
    <3>2. QED
      BY <3>1 DEF Shaped
  <2> HIDE DEF held
  <2>3. Shaped(frame) /\ frame.file = Current.file /\ frame.left = rest
    BY <2>2, DoneKeeps
  <2>4. Head(left) = Merge
    BY <1>5 DEF MergeDirectory, Import, left
  <2> HIDE DEF frame
  <2>5. IsFrame(frame)
    BY <1>1, <1>2, <2>3 DEF IsFrame
  <2>6. Pending(frame.left) = Pending(left)
    BY <1>2, <2>3, <2>4
  <2>7. stack' = WithTop(frame)
    BY <2>1 DEF held, frame
  <2>8. QED
    BY <1>1, <2>1, <2>3, <2>5, <2>6, <2>7, TopGoesOn DEF left
<1>6. QED
  BY <1>4, <1>5

LEMMA CachedWalks == WalkInv /\ ImportCached => WalkInv'
<1> SUFFICES ASSUME WalkInv, ImportCached PROVE WalkInv'
  OBVIOUS
<1> DEFINE left == Current.left
           done == Done(Current)
           frame == Bind(done, moduleCache[Import.of], Import.form)
<1>1. /\ Shaped(Current) /\ left \in Seq(Statement \cup {Merge}) /\ left # <<>>
      /\ Current.file \in DOMAIN text /\ outcome = "loading"
  BY InTheWork DEF ImportCached
<1>2. /\ stack' = WithTop(frame) /\ UNCHANGED <<text, moduleCache, ran, outcome>>
      /\ Head(left).of \in DOMAIN moduleCache
  BY DEF ImportCached, Import
<1>3. Head(left).of # "dir"
  BY <1>2, LoaderAssumption DEF WalkInv, CacheFits, TextFits
<1>4. Shaped(done) /\ done.file = Current.file /\ done.left = Tail(left)
  BY <1>1, DoneKeeps
<1> HIDE DEF left, done
<1>5. Shaped(frame) /\ frame.file = Current.file /\ frame.left = Tail(left)
  <2> DEFINE mod == moduleCache[Import.of]  form == Import.form
  <2> HIDE DEF mod, form
  <2>1. /\ Shaped(Bind(done, mod, form)) /\ Bind(done, mod, form).file = done.file
        /\ Bind(done, mod, form).left = done.left
    BY <1>4, BindKeeps
  <2>2. QED
    BY <1>4, <2>1 DEF mod, form
<1> HIDE DEF frame
<1>6. /\ Tail(left) \in Seq(Statement \cup {Merge})
      /\ Pending(Tail(left)) \subseteq Pending(left)
      /\ Pending(left) \subseteq Sources(Head(left)) \cup Pending(Tail(left))
  BY <1>1, PendingTail
<1>7. IsFrame(frame)
  BY <1>1, <1>5, <1>6 DEF IsFrame
<1>8. Sources(Head(left)) \subseteq DOMAIN moduleCache
  BY <1>2, <1>3 DEF Sources
<1>9. /\ Pending(frame.left) \subseteq Pending(left)
      /\ Pending(left) \subseteq DOMAIN moduleCache \cup Pending(frame.left)
  BY <1>5, <1>6, <1>8
<1>10. QED
  BY <1>1, <1>2, <1>5, <1>7, <1>9, TopGoesOn DEF left

\* What a file not in the cache is to the interpreter that comes to it.
LEMMA UnseenFits ==
    ASSUME WalkInv, Unseen
    PROVE  /\ outcome = "loading" /\ Import.of \in Modules \ DOMAIN moduleCache
           /\ Import.of \in Targets(Current.file)
           /\ \A i \in 1..Len(stack) : Import.of \in Reached(stack[i].file)
           /\ Import.of \in Reached("main")
           /\ Current.left # <<>> /\ Import = Head(Current.left)
<1> DEFINE left == Current.left  f == Import.of  n == Len(stack)
<1>1. /\ left \in Seq(Statement \cup {Merge}) /\ left # <<>> /\ outcome = "loading"
      /\ IsSeq(stack) /\ n \in Nat \ {0} /\ Current = stack[n] /\ Current.file \in DOMAIN text
      /\ f \in Modules \ DOMAIN moduleCache /\ Import = Head(left)
  BY InTheWork DEF Unseen, Import
<1>2. TextFits /\ StackFits /\ ImportsArePending /\ StackIsPath
  BY DEF WalkInv
<1>3. Head(left) \in Statement /\ Head(left).of = f /\ f # "dir" /\ Head(left) # Merge
  <2> HIDE DEF left
  <2>1. Head(left) \in Statement \cup {Merge}
    BY <1>1, PendingTail
  <2>2. f # "dir"
    BY <1>1, LoaderAssumption
  <2>3. QED
    BY <1>1, <2>1, <2>2, Literals
<1>4. f \in Pending(left)
  <2> HIDE DEF left, f
  <2>1. Sources(Head(left)) \subseteq Pending(left)
    BY <1>1, <1>3, PendingTail
  <2>2. f \in Sources(Head(left))
    BY <1>3 DEF Sources
  <2>3. QED
    BY <2>1, <2>2
<1> HIDE DEF left, f, n
<1>5. n \in 1..n /\ 1 \in 1..n /\ \A i \in 1..n : i = n \/ i < n
  BY <1>1
<1>6. f \in Targets(Current.file)
  BY <1>1, <1>2, <1>4, <1>5 DEF ImportsArePending, n, left
<1>7. \A i \in 1..n : f \in Reached(stack[i].file)
  <2>1. SUFFICES ASSUME NEW i \in 1..n PROVE f \in Reached(stack[i].file)
    OBVIOUS
  <2>2. stack[i].file \in DOMAIN text
    BY <1>2 DEF StackFits, IsFrame, n
  <2>3. CASE i = n
    BY <1>1, <1>2, <1>6, <2>2, <2>3, ReachedIsLeast
  <2>4. CASE i < n
    <3>1. Current.file \in Reached(stack[i].file)
      BY <1>1, <1>2, <1>5, <2>4 DEF StackIsPath, n
    <3>2. QED
      BY <1>1, <1>2, <1>6, <2>2, <3>1, ReachedIsTransitive
  <2>5. QED
    BY <1>5, <2>3, <2>4
<1>8. f \in Reached("main")
  BY <1>2, <1>5, <1>7 DEF StackFits
<1>9. QED
  BY <1>1, <1>6, <1>7, <1>8 DEF f, n, left

\* A file that is being imported and comes up again comes to itself.
LEMMA CycleWalks == WalkInv /\ ImportCycle => WalkInv'
<1> SUFFICES ASSUME WalkInv, ImportCycle PROVE WalkInv'
  OBVIOUS
<1> DEFINE f == Import.of  n == Len(stack)
<1>1. /\ Unseen /\ outcome' = "error" /\ UNCHANGED <<text, stack, moduleCache, ran>>
      /\ \E k \in 2..n : stack[k].file = f
  BY DEF ImportCycle, Importing, Fail
<1>2. PICK k \in 2..n : stack[k].file = f
  BY <1>1
<1>3. /\ f \in Reached("main") /\ outcome = "loading"
      /\ \A i \in 1..n : f \in Reached(stack[i].file)
  BY <1>1, UnseenFits
<1>4. k \in 1..n
  BY <1>2, InTheWork
<1>5. f \in DOMAIN text /\ f \in Reached(f)
  BY <1>2, <1>3, <1>4 DEF WalkInv, StackFits, IsFrame
<1>6. \A g : Targets(g)' = Targets(g) /\ Reached(g)' = Reached(g)
  BY <1>1, SameGraph
<1>7. FailsOnlyForCause'
  BY <1>1, <1>3, <1>5, <1>6 DEF FailsOnlyForCause
<1>8. DependenciesFirst'
  BY <1>1, <1>6 DEF WalkInv, GraphIsWalked, DependenciesFirst
<1>9. TextFits' /\ WrittenFits' /\ CacheFits'
  <2>1. TextFits' /\ CacheFits'
    BY <1>1, <1>3 DEF WalkInv, TextFits, CacheFits
  <2>2. WrittenFits'
    BY <1>1 DEF WalkInv, WrittenFits, Written, Places
  <2>3. QED
    BY <2>1, <2>2
<1>10. StackFits' /\ ImportsArePending' /\ StackIsPath'
  <2>1. StackFits'
    BY <1>1 DEF WalkInv, StackFits, IsFrame
  <2>2. ImportsArePending' /\ StackIsPath'
    BY <1>1, <1>6 DEF WalkInv, ImportsArePending, StackIsPath
  <2>3. QED
    BY <2>1, <2>2
<1>11. QED
  BY <1>7, <1>8, <1>9, <1>10 DEF WalkInv, GraphIsWalked

\* A directory that cannot be listed leaves all as it was.
LEMMA UnlistedWalks == WalkInv /\ ImportUnlisted => WalkInv'
<1> SUFFICES ASSUME WalkInv, ImportUnlisted PROVE WalkInv'
  OBVIOUS
<1>1. outcome = "loading" /\ outcome' = "unlisted" /\ UNCHANGED <<text, stack, moduleCache, ran>>
  BY DEF ImportUnlisted, ImportsDirectory
<1>2. \A g : Targets(g)' = Targets(g) /\ Reached(g)' = Reached(g)
  BY <1>1, SameGraph
<1>3. TextFits' /\ CacheFits'
  BY <1>1 DEF WalkInv, TextFits, CacheFits
<1>4. WrittenFits' /\ StackFits'
  BY <1>1 DEF WalkInv, WrittenFits, Written, Places, StackFits, IsFrame
<1>5. ImportsArePending' /\ StackIsPath'
  BY <1>1, <1>2 DEF WalkInv, ImportsArePending, StackIsPath
<1>6. GraphIsWalked'
  BY <1>1, <1>2 DEF WalkInv, GraphIsWalked, FailsOnlyForCause, DependenciesFirst
<1>7. QED
  BY <1>3, <1>4, <1>5, <1>6 DEF WalkInv

-----------------------------------------------------------------------------
(* A file is read. *)

LEMMA SameRun ==
    ASSUME WalkInv, outcome = "loading", ran' = ran,
           \A g \in DOMAIN text : Targets(g)' = Targets(g)
    PROVE  DependenciesFirst'
<1>1. DependenciesFirst
  BY DEF WalkInv, GraphIsWalked
<1>2. IsInjective(ran)'
  BY <1>1 DEF DependenciesFirst, IsInjective
<1>3. \A i \in DOMAIN ran : \A g : g = ran[i] => Targets(g)' = Targets(g)
  BY RanWereRead
<1>4. SUFFICES ASSUME NEW i \in DOMAIN ran, NEW g, g = ran[i]
               PROVE  Targets(g)' \subseteq {ran[j] : j \in 1..i - 1}
  BY <1>2 DEF DependenciesFirst
<1>5. Targets(g) \subseteq {ran[j] : j \in 1..i - 1}
  BY <1>1, <1>4 DEF DependenciesFirst
<1>6. QED
  BY <1>3, <1>4, <1>5

\* What is written in the files read stays within the bound.
LEMMA WrittenGrows ==
    ASSUME WrittenFits, NEW f, f \notin DOMAIN text, NEW t, t.imports \in Seq(Statement),
           Len(t.imports) \in 0..MaxImports - Written,
           text' = Over(text, [g \in {f} |-> t])
    PROVE  WrittenFits'
<1> DEFINE fresh == {f} \X DOMAIN t.imports
<1>1. IsFiniteSet(fresh) /\ Cardinality(fresh) = Len(t.imports)
  <2>1. Len(t.imports) \in Nat /\ DOMAIN t.imports = 1..Len(t.imports)
    OBVIOUS
  <2>2. /\ IsFiniteSet(1..Len(t.imports))
        /\ Cardinality(1..Len(t.imports)) = Len(t.imports)
    BY <2>1, FS_Interval
  <2>3. IsFiniteSet({f}) /\ Cardinality({f}) = 1
    BY FS_Singleton
  <2> DEFINE one == {f}  places == 1..Len(t.imports)
  <2> HIDE DEF one, places
  <2>4. /\ IsFiniteSet(one \X places)
        /\ Cardinality(one \X places) = Cardinality(one) * Cardinality(places)
    BY <2>2, <2>3, FS_Product DEF one, places
  <2>5. QED
    BY <2>1, <2>2, <2>3, <2>4 DEF one, places
<1>2. Places' = Places \cup fresh
  <2>1. DOMAIN text' = DOMAIN text \cup {f} /\ text'[f] = t
        /\ \A g \in DOMAIN text : text'[g] = text[g]
    BY DEF Over
  <2>2. Places' = UNION {{g} \X DOMAIN text'[g].imports : g \in DOMAIN text \cup {f}}
    BY <2>1 DEF Places
  <2>3. \A g \in DOMAIN text : {g} \X DOMAIN text'[g].imports = {g} \X DOMAIN text[g].imports
    BY <2>1
  <2>4. {f} \X DOMAIN text'[f].imports = fresh
    BY <2>1
  <2> HIDE DEF fresh
  <2>5. ASSUME NEW p PROVE p \in Places' <=> p \in Places \cup fresh
    BY <2>2, <2>3, <2>4 DEF Places
  <2>6. QED
    BY <2>5
<1>3. Places \cap fresh = {}
  BY DEF Places
<1> HIDE DEF fresh
<1>4. IsFiniteSet(Places) /\ Cardinality(Places) \in Nat
  BY FS_CardinalityType DEF WrittenFits
<1>5. /\ IsFiniteSet(Places \cup fresh)
      /\ Cardinality(Places \cup fresh) = Cardinality(Places) + Cardinality(fresh) - Cardinality({})
  <2>1. /\ IsFiniteSet(Places \cup fresh)
        /\ Cardinality(Places \cup fresh)
             = Cardinality(Places) + Cardinality(fresh) - Cardinality(Places \cap fresh)
    <3>1. IsFiniteSet(Places) /\ IsFiniteSet(fresh)
      BY <1>1, <1>4
    <3>2. QED
      BY ONLY <3>1, FS_Union
  <2>2. QED
    BY <1>3, <2>1
<1>6. Cardinality({}) = 0
  BY FS_EmptySet
<1>7. Cardinality(Places) = Written /\ Cardinality(Places)' = Written'
  BY DEF Places, Written
<1>8. Written + Len(t.imports) <= MaxImports
  BY <1>4, <1>7, LoaderAssumption
<1>9. QED
  BY <1>1, <1>2, <1>4, <1>5, <1>6, <1>7, <1>8 DEF WrittenFits

\* The import statements of a file that is read for the first time.
LEMMA ImportsFit ==
    ASSUME WrittenFits, NEW is \in Imports(Written)
    PROVE  is \in Seq(Statement) /\ Len(is) \in 0..MaxImports - Written
<1>1. PICK n \in 0..MaxImports - Written : is \in [1..n -> Statement]
  BY DEF Imports
<1>2. n \in Nat
  OBVIOUS
<1>3. is \in Seq(Statement) /\ Len(is) = n
  BY <1>1, <1>2
<1>4. QED
  BY <1>1, <1>3

\* Reading a file adds it to those read, and takes nothing away.
LEMMA ReadGrows ==
    ASSUME TextFits, WrittenFits, NEW f \in Modules, NEW t,
           text' = Over(text, [g \in {f} |-> t]), t.imports \in Seq(Statement),
           outcome' = "loading" => outcome = "loading" /\ t.usable,
           \/ f \in DOMAIN text /\ t = text[f]
           \/ f \notin DOMAIN text /\ Len(t.imports) \in 0..MaxImports - Written
    PROVE  /\ TextFits' /\ WrittenFits'
           /\ DOMAIN text' = DOMAIN text \cup {f} /\ text'[f] = t
           /\ \A g \in DOMAIN text : text'[g] = text[g]
<1>1. DOMAIN text' = DOMAIN text \cup {f} /\ text'[f] = t
  BY DEF Over
<1>2. \A g \in DOMAIN text : text'[g] = text[g]
  <2>1. \A g \in DOMAIN text : g # f => text'[g] = text[g]
    BY DEF Over
  <2>2. QED
    BY <1>1, <2>1
<1>3. TextFits'
  <2>1. DOMAIN text' \subseteq Modules /\ "main" \in DOMAIN text' /\ text'["main"].usable
    BY <1>1, <1>2 DEF TextFits
  <2>2. \A g \in DOMAIN text' : text'[g].imports \in Seq(Statement)
    BY <1>1, <1>2 DEF TextFits
  <2>3. outcome' = "loading" => \A g \in DOMAIN text' : text'[g].usable
    BY <1>1, <1>2 DEF TextFits
  <2>4. QED
    BY <2>1, <2>2, <2>3 DEF TextFits
<1>4. WrittenFits'
  <2>1. CASE f \in DOMAIN text
    <3>1. DOMAIN text' = DOMAIN text /\ \A g \in DOMAIN text : text'[g] = text[g]
      BY <1>1, <1>2, <2>1
    <3>2. Places' = Places
      BY <3>1 DEF Places
    <3>3. QED
      BY <3>2 DEF WrittenFits, Written, Places
  <2>2. CASE f \notin DOMAIN text
    BY <2>2, WrittenGrows
  <2>3. QED
    BY <2>1, <2>2
<1>5. QED
  BY <1>1, <1>2, <1>3, <1>4

\* A file is read and its imports come first.
LEMMA FileWalks ==
    ASSUME WalkInv, Unseen, NEW f, f = Import.of, ~Importing(f), NEW t,
           t.imports \in Seq(Statement), t.usable,
           \/ f \in DOMAIN text /\ t = text[f]
           \/ f \notin DOMAIN text /\ Len(t.imports) \in 0..MaxImports - Written,
           text' = Over(text, [g \in {f} |-> t]),
           stack' = Append(stack, Loading(f, t.imports)),
           UNCHANGED <<moduleCache, ran, outcome>>
    PROVE  WalkInv'
<1> DEFINE n == Len(stack)  frame == Loading(f, t.imports)
<1>1. /\ IsSeq(stack) /\ n \in Nat \ {0} /\ Current = stack[n] /\ outcome = "loading"
      /\ f \in Modules \ DOMAIN moduleCache /\ f \in Targets(Current.file)
      /\ \A i \in 1..n : f \in Reached(stack[i].file)
      /\ Current.left # <<>> /\ Head(Current.left).of = f
  BY InTheWork, UnseenFits
<1>2. /\ TextFits /\ WrittenFits /\ StackFits /\ ImportsArePending /\ StackIsPath /\ CacheFits
      /\ DependenciesFirst
  BY DEF WalkInv, GraphIsWalked
<1>3. /\ frame.file = f /\ frame.left = t.imports /\ Shaped(frame)
  BY DEF Loading, Shaped
<1>4. /\ TextFits' /\ WrittenFits'
      /\ DOMAIN text' = DOMAIN text \cup {f} /\ text'[f] = t
      /\ \A g \in DOMAIN text : text'[g] = text[g]
  BY <1>1, <1>2, ReadGrows
<1>5. \A i \in 2..n : stack[i].file # f
  BY DEF Importing
<1> HIDE DEF n, frame
<1>6. /\ IsSeq(stack') /\ Len(stack') = n + 1 /\ stack'[n + 1] = frame
      /\ \A i \in 1..n : stack'[i] = stack[i]
  BY <1>1, AppendSeq DEF n, frame
<1>7. /\ \A i \in 1..n + 1 : i = n + 1 \/ i \in 1..n
      /\ \A i \in 2..n + 1 : i = n + 1 \/ i \in 2..n
      /\ \A i \in 2..n : i \in 1..n
      /\ \A i \in 1..n - 1 : i \in 1..n /\ i + 1 \in 1..n
      /\ n + 1 \in 1..n + 1 /\ n \in 1..n /\ 1 \in 1..n
      /\ \A i \in 1..n : i = n \/ i \in 1..n - 1
      /\ \A i \in 1..n : ~(n + 1 < i)
      /\ ~(n + 1 < n + 1) /\ n + 1 - 1 = n
  BY <1>1
<1>8. \A i \in 1..n : IsFrame(stack[i]) /\ stack[i].file \in DOMAIN text
  BY <1>2 DEF StackFits, IsFrame, n
<1>9. \A g \in DOMAIN text : Targets(g)' = Targets(g) /\ Reached(g) \subseteq Reached(g)'
  BY <1>2, <1>4, GraphGrows
<1>10. StackFits'
  <2>1. \A i \in 1..n + 1 : IsFrame(stack[i])'
    <3>1. SUFFICES ASSUME NEW i \in 1..n + 1 PROVE IsFrame(stack[i])'
      OBVIOUS
    <3>2. CASE i = n + 1
      <4>1. t.imports \in Seq(Statement \cup {Merge})
        OBVIOUS
      <4>2. QED
        BY <1>3, <1>4, <1>6, <3>2, <4>1 DEF IsFrame
    <3>3. CASE i \in 1..n
      BY <1>4, <1>6, <1>8, <3>3 DEF IsFrame
    <3>4. QED
      BY <1>7, <3>2, <3>3
  <2>2. stack'[1].file = "main"
    BY <1>2, <1>6, <1>7 DEF StackFits
  <2>3. n + 1 \in Nat \ {0}
    BY <1>1
  <2>4. QED
    BY <1>6, <2>1, <2>2, <2>3 DEF StackFits
<1>11. Pending(t.imports) = Targets(f)'
  <2>1. Merge \notin ToSet(t.imports)
    BY Literals DEF ToSet
  <2>2. ToSet(t.imports) \ {Merge} = ToSet(t.imports)
    BY <2>1
  <2>3. Targets(f)' = UNION {Sources(st) : st \in ToSet(text'[f].imports)}
    BY DEF Targets
  <2>4. QED
    BY <1>4, <2>2, <2>3 DEF Pending
<1>12. ImportsArePending'
  <2>1. \A i \in 1..n : \A g : g = stack[i].file =>
          /\ Pending(stack[i].left) \subseteq Targets(g)'
          /\ Targets(g)' \subseteq DOMAIN moduleCache \cup Pending(stack[i].left)
    BY <1>2, <1>8, <1>9 DEF ImportsArePending, n
  <2>2. \A i \in 1..n + 1 : \A g : g = stack'[i].file =>
          /\ Pending(stack'[i].left) \subseteq Targets(g)'
          /\ Targets(g)' \subseteq DOMAIN moduleCache' \cup Pending(stack'[i].left)
    <3>1. SUFFICES ASSUME NEW i \in 1..n + 1, NEW g, g = stack'[i].file
                   PROVE  /\ Pending(stack'[i].left) \subseteq Targets(g)'
                          /\ Targets(g)' \subseteq DOMAIN moduleCache' \cup Pending(stack'[i].left)
      OBVIOUS
    <3>2. CASE i = n + 1
      BY <1>3, <1>6, <1>11, <3>1, <3>2
    <3>3. CASE i \in 1..n
      BY <1>6, <2>1, <3>1, <3>3
    <3>4. QED
      BY <1>7, <3>2, <3>3
  <2>3. \A i \in 1..n : stack'[i].left # <<>> /\ Head(stack'[i].left).of = stack'[i + 1].file
    <3>1. SUFFICES ASSUME NEW i \in 1..n
                   PROVE  stack'[i].left # <<>> /\ Head(stack'[i].left).of = stack'[i + 1].file
      OBVIOUS
    <3>2. CASE i = n
      BY <1>1, <1>3, <1>6, <1>7, <3>2
    <3>3. CASE i \in 1..n - 1
      BY <1>2, <1>6, <1>7, <3>3 DEF ImportsArePending, n
    <3>4. QED
      BY <1>7, <3>2, <3>3
  <2>4. (\A i \in 1..Len(stack) :
           /\ Pending(stack[i].left) \subseteq Targets(stack[i].file)
           /\ Targets(stack[i].file) \subseteq DOMAIN moduleCache \cup Pending(stack[i].left))'
    BY <1>6, <2>2
  <2>5. Len(stack') - 1 = n
    BY <1>1, <1>6
  <2>6. QED
    BY <2>3, <2>4, <2>5 DEF ImportsArePending
<1>13. StackIsPath'
  <2>1. \A i \in 2..n + 1 :
          /\ stack'[i].file \notin DOMAIN moduleCache'
          /\ \A j \in 2..n + 1 : stack'[i].file = stack'[j].file => i = j
    <3>1. \A i \in 2..n : /\ stack'[i] = stack[i] /\ stack[i].file # f
                            /\ stack[i].file \notin DOMAIN moduleCache
                            /\ \A j \in 2..n : stack[i].file = stack[j].file => i = j
      BY <1>2, <1>5, <1>6, <1>7 DEF StackIsPath, n
    <3>2. stack'[n + 1].file = f /\ f \notin DOMAIN moduleCache
      BY <1>1, <1>3, <1>6
    <3>3. SUFFICES ASSUME NEW i \in 2..n + 1
                   PROVE  /\ stack'[i].file \notin DOMAIN moduleCache'
                          /\ \A j \in 2..n + 1 : stack'[i].file = stack'[j].file => i = j
      OBVIOUS
    <3>4. CASE i = n + 1
      BY <1>7, <3>1, <3>2, <3>4
    <3>5. CASE i \in 2..n
      <4>1. stack'[i].file = stack[i].file /\ stack[i].file # f
            /\ stack[i].file \notin DOMAIN moduleCache
        BY <3>1, <3>5
      <4>2. ASSUME NEW j \in 2..n + 1, stack'[i].file = stack'[j].file PROVE i = j
        <5>1. j # n + 1
          BY <3>2, <4>1, <4>2
        <5>2. j \in 2..n
          BY <1>7, <5>1
        <5>3. QED
          BY <3>1, <3>5, <4>1, <4>2, <5>2
      <4>3. QED
        BY <1>6, <4>1, <4>2
    <3>6. QED
      BY <1>7, <3>4, <3>5
  <2>2. \A i, j \in 1..n + 1 : i < j => \A g : g = stack'[i].file => stack'[j].file \in Reached(g)'
    <3>1. SUFFICES ASSUME NEW i \in 1..n + 1, NEW j \in 1..n + 1, i < j, NEW g, g = stack'[i].file
                   PROVE  stack'[j].file \in Reached(g)'
      OBVIOUS
    <3>2. i \in 1..n /\ g = stack[i].file
      BY <1>1, <1>6, <3>1
    <3>3. Reached(g) \subseteq Reached(g)'
      BY <1>8, <1>9, <3>2
    <3>4. CASE j = n + 1
      BY <1>1, <1>3, <1>6, <3>2, <3>3, <3>4
    <3>5. CASE j \in 1..n
      BY <1>2, <1>6, <3>1, <3>2, <3>3, <3>5 DEF StackIsPath, n
    <3>6. QED
      BY <1>7, <3>4, <3>5
  <2>3. QED
    BY <1>6, <2>1, <2>2 DEF StackIsPath
<1>14. CacheFits'
  BY <1>2, <1>4 DEF CacheFits
<1>15. DependenciesFirst'
  BY <1>1, <1>2, <1>9, SameRun
<1>16. QED
  BY <1>1, <1>4, <1>10, <1>12, <1>13, <1>14, <1>15 DEF WalkInv, GraphIsWalked, FailsOnlyForCause

LEMMA MissingWalks ==
    ASSUME WalkInv, Unseen, NEW f, f = Import.of, NEW t, t.imports = <<>>, ~t.usable,
           f \notin DOMAIN text, text' = Over(text, [g \in {f} |-> t]), Fail
    PROVE  WalkInv'
<1> DEFINE n == Len(stack)
<1>1. /\ f \in Modules \ DOMAIN moduleCache /\ f \in Reached("main") /\ outcome = "loading"
  BY UnseenFits
<1>2. /\ TextFits /\ WrittenFits /\ StackFits /\ ImportsArePending /\ StackIsPath /\ CacheFits
      /\ DependenciesFirst
  BY DEF WalkInv, GraphIsWalked
<1>3. outcome' = "error" /\ UNCHANGED <<stack, moduleCache, ran>>
  BY DEF Fail
<1>4. /\ TextFits' /\ WrittenFits'
      /\ DOMAIN text' = DOMAIN text \cup {f} /\ text'[f] = t
      /\ \A g \in DOMAIN text : text'[g] = text[g]
  <2>1. t.imports \in Seq(Statement) /\ Len(t.imports) = 0
    OBVIOUS
  <2>2. 0 \in 0..MaxImports - Written
    BY <1>2, LoaderAssumption, FS_CardinalityType DEF WrittenFits, Written, Places
  <2>3. QED
    BY <1>1, <1>2, <1>3, <2>1, <2>2, ReadGrows
<1>5. \A g \in DOMAIN text : Targets(g)' = Targets(g) /\ Reached(g) \subseteq Reached(g)'
  BY <1>2, <1>4, GraphGrows
<1> HIDE DEF n
<1>6. \A i \in 1..n : stack[i].file \in DOMAIN text
  BY <1>2 DEF StackFits, IsFrame, n
<1>7. StackFits'
  BY <1>2, <1>3, <1>4 DEF StackFits, IsFrame
<1>8. ImportsArePending'
  <2>1. \A i \in 1..n : \A g : g = stack[i].file => Targets(g)' = Targets(g)
    BY <1>5, <1>6
  <2>2. QED
    BY <1>2, <1>3, <2>1 DEF ImportsArePending, n
<1>9. StackIsPath'
  <2>1. \A i \in 1..n : \A g : g = stack[i].file => Reached(g) \subseteq Reached(g)'
    BY <1>5, <1>6
  <2>2. QED
    BY <1>2, <1>3, <2>1 DEF StackIsPath, n
<1>10. CacheFits'
  BY <1>1, <1>2, <1>3, <1>4 DEF CacheFits
<1>11. FailsOnlyForCause'
  <2>1. Reached("main") \subseteq Reached("main")'
    BY <1>2, <1>5 DEF TextFits
  <2>2. f \in DOMAIN text' /\ ~text'[f].usable /\ f \in Reached("main")'
    BY <1>1, <1>4, <2>1
  <2>3. QED
    BY <1>3, <2>2 DEF FailsOnlyForCause
<1>12. DependenciesFirst'
  BY <1>1, <1>2, <1>3, <1>5, SameRun
<1>13. QED
  BY <1>4, <1>7, <1>8, <1>9, <1>10, <1>11, <1>12 DEF WalkInv, GraphIsWalked

LEMMA ReadWalks == WalkInv /\ ImportFile => WalkInv'
<1> SUFFICES ASSUME WalkInv, ImportFile PROVE WalkInv'
  OBVIOUS
<1>1. PICK f \in Modules : f = Import.of
  BY UnseenFits DEF ImportFile
<1>2. Unseen /\ ~Importing(f) /\ TextFits /\ WrittenFits /\ outcome = "loading"
  BY <1>1, UnseenFits DEF ImportFile, WalkInv
<1> DEFINE entry(is, c) == [usable |-> TRUE, imports |-> is,
                            defines |-> c.defines, exports |-> c.exports]
           none == [usable |-> FALSE, imports |-> <<>>, defines |-> {}, exports |-> {}]
           new == {entry(is, c) : is \in Imports(Written), c \in Contents}
           Reads(t) == /\ text' = Over(text, [g \in {f} |-> t])
                       /\ stack' = Append(stack, Loading(f, t.imports))
                       /\ UNCHANGED <<moduleCache, ran, outcome>>
<1>3. \/ \E t \in IF f \in DOMAIN text THEN {text[f]} ELSE new : Reads(t)
      \/ f \notin DOMAIN text /\ text' = Over(text, [g \in {f} |-> none]) /\ Fail
  BY <1>1 DEF ImportFile
<1> HIDE DEF Reads, none, new
<1>4. CASE f \in DOMAIN text
  <2>1. /\ text' = Over(text, [g \in {f} |-> text[f]])
        /\ stack' = Append(stack, Loading(f, text[f].imports))
        /\ UNCHANGED <<moduleCache, ran, outcome>>
    BY <1>3, <1>4 DEF Reads
  <2>2. text[f].imports \in Seq(Statement) /\ text[f].usable
    BY <1>2, <1>4 DEF TextFits
  <2>3. QED
    BY <1>1, <1>2, <1>4, <2>1, <2>2, FileWalks
<1>5. CASE f \notin DOMAIN text
  <2>1. (\E t \in new : Reads(t)) \/ (text' = Over(text, [g \in {f} |-> none]) /\ Fail)
    BY <1>3, <1>5
  <2>2. CASE text' = Over(text, [g \in {f} |-> none]) /\ Fail
    <3>1. none.imports = <<>> /\ ~none.usable
      BY DEF none
    <3>2. QED
      BY <1>1, <1>2, <1>5, <2>2, <3>1, MissingWalks
  <2>3. CASE \E t \in new : Reads(t)
    <3>1. PICK t \in new : Reads(t)
      BY <2>3
    <3>2. PICK is \in Imports(Written), c \in Contents : t = entry(is, c)
      BY DEF new
    <3>3. t.imports = is /\ t.usable
      BY <3>2
    <3>4. is \in Seq(Statement) /\ Len(is) \in 0..MaxImports - Written
      BY <1>2, ImportsFit
    <3>5. /\ text' = Over(text, [g \in {f} |-> t])
          /\ stack' = Append(stack, Loading(f, t.imports))
          /\ UNCHANGED <<moduleCache, ran, outcome>>
      BY <3>1 DEF Reads
    <3>6. t.imports \in Seq(Statement) /\ Len(t.imports) \in 0..MaxImports - Written
      BY <3>3, <3>4
    <3>7. QED
      BY <1>1, <1>2, <1>5, <3>3, <3>5, <3>6, FileWalks
  <2>4. QED
    BY <2>1, <2>2, <2>3
<1>6. QED
  BY <1>4, <1>5

-----------------------------------------------------------------------------
(* A file is evaluated. *)

\* A frame waits for the file of the one above it, which its file imports.
LEMMA WaitsFor ==
    ASSUME WalkInv, NEW i \in 1..Len(stack) - 1
    PROVE  LET left == stack[i].left
               f == stack[i + 1].file IN
           /\ left \in Seq(Statement \cup {Merge}) /\ left # <<>>
           /\ Tail(left) \in Seq(Statement \cup {Merge})
           /\ Pending(left) = {f} \cup Pending(Tail(left))
           /\ f \in Targets(stack[i].file)
<1> DEFINE left == stack[i].left  f == stack[i + 1].file
<1>1. Len(stack) \in Nat /\ i \in 1..Len(stack) /\ i + 1 \in 1..Len(stack)
  BY InTheWork
<1>2. /\ IsFrame(stack[i]) /\ IsFrame(stack[i + 1]) /\ TextFits
      /\ left # <<>> /\ Head(left).of = f /\ Pending(left) \subseteq Targets(stack[i].file)
  BY <1>1 DEF WalkInv, StackFits, ImportsArePending
<1>3. left \in Seq(Statement \cup {Merge}) /\ f \in Modules /\ f # "dir"
  BY <1>2, LoaderAssumption DEF IsFrame, TextFits
<1> HIDE DEF left, f
<1>4. /\ Head(left) \in Statement \cup {Merge} /\ Tail(left) \in Seq(Statement \cup {Merge})
      /\ Head(left) # Merge => Pending(left) = Sources(Head(left)) \cup Pending(Tail(left))
  BY <1>2, <1>3, PendingTail
<1>5. Head(left) # Merge /\ Sources(Head(left)) = {f}
  BY <1>2, <1>3, Literals DEF Sources
<1>6. Pending(left) = {f} \cup Pending(Tail(left)) /\ f \in Targets(stack[i].file)
  BY <1>2, <1>4, <1>5
<1>7. QED
  BY <1>2, <1>3, <1>4, <1>6 DEF left, f

\* A file whose imports are resolved has them in the cache, and is not main:
\* main imports the first file on importStack, which is not in the cache.
LEMMA Resolved ==
    ASSUME WalkInv, outcome = "loading", Current.left = <<>>
    PROVE  /\ Targets(Current.file) \subseteq DOMAIN moduleCache
           /\ Len(stack) > 1 => Current.file \notin DOMAIN moduleCache /\ Current.file # "main"
<1>1. /\ Len(stack) \in Nat \ {0} /\ Current = stack[Len(stack)] /\ Len(stack) \in 1..Len(stack)
  BY InTheWork
<1>2. Pending(<<>>) = {}
  BY DEF Pending, ToSet
<1>3. Targets(Current.file) \subseteq DOMAIN moduleCache
  BY <1>1, <1>2 DEF WalkInv, ImportsArePending
<1>4. ASSUME Len(stack) > 1
      PROVE  Current.file \notin DOMAIN moduleCache /\ Current.file # "main"
  <2>1. Len(stack) \in 2..Len(stack) /\ 2 \in 2..Len(stack) /\ 1 \in 1..Len(stack) - 1
    BY <1>1, <1>4
  <2>2. Current.file \notin DOMAIN moduleCache /\ stack[2].file \notin DOMAIN moduleCache
    BY <1>1, <2>1 DEF WalkInv, StackIsPath
  <2>3. stack[2].file \in Targets(stack[1].file)
    BY <2>1, WaitsFor
  <2>4. stack[1].file = "main"
    BY DEF WalkInv, StackFits
  <2>5. QED
    BY <1>3, <2>2, <2>3, <2>4
<1>5. QED
  BY <1>3, <1>4

\* A file is evaluated after the files it imports.
LEMMA RunGrows ==
    ASSUME WalkInv, outcome = "loading", NEW f, f \notin DOMAIN moduleCache,
           Targets(f) \subseteq DOMAIN moduleCache, ran' = Append(ran, f), text' = text
    PROVE  /\ IsSeq(ran') /\ Len(ran') \in Nat /\ ToSet(ran') = DOMAIN moduleCache \cup {f}
           /\ DependenciesFirst'
<1>1. CacheFits /\ DependenciesFirst
  BY DEF WalkInv, GraphIsWalked
<1>2. \A g : Targets(g)' = Targets(g) /\ Reached(g)' = Reached(g)
  BY SameGraph
<1>3. /\ IsSeq(ran') /\ Len(ran') = Len(ran) + 1 /\ DOMAIN ran' = 1..Len(ran) + 1
      /\ \A i \in 1..Len(ran) : ran'[i] = ran[i]
      /\ ran'[Len(ran) + 1] = f /\ Len(ran) \in Nat
      /\ DOMAIN ran = 1..Len(ran) /\ ToSet(ran) = DOMAIN moduleCache
  <2>1. IsSeq(ran) /\ Len(ran) \in Nat /\ ToSet(ran) = DOMAIN moduleCache
    BY <1>1 DEF CacheFits
  <2>2. DOMAIN ran = 1..Len(ran)
    BY <2>1, SeqFacts
  <2>3. /\ IsSeq(ran') /\ Len(ran') = Len(ran) + 1 /\ ran'[Len(ran) + 1] = f
        /\ \A i \in 1..Len(ran) : ran'[i] = ran[i]
    BY <2>1, AppendSeq
  <2>4. DOMAIN ran' = 1..Len(ran')
    BY <2>3, SeqFacts
  <2>5. QED
    BY <2>1, <2>2, <2>3, <2>4
<1> DEFINE m == Len(ran)
<1>4. /\ \A i \in 1..m + 1 : i = m + 1 \/ i \in 1..m
      /\ \A i \in 1..m : i \in 1..m + 1
      /\ m + 1 \in 1..m + 1
      /\ \A i \in 1..m + 1 : \A j \in 1..i - 1 : j \in 1..m
      /\ m + 1 - 1 = m /\ m \in Nat
  BY <1>3
<1> HIDE DEF m
<1>5. ToSet(ran) = {ran[j] : j \in 1..m} /\ ToSet(ran') = DOMAIN moduleCache \cup {f}
  <2>1. ToSet(ran) = {ran[j] : j \in 1..m}
    BY <1>3 DEF ToSet, m
  <2>2. ToSet(ran') = {ran'[j] : j \in 1..m + 1}
    BY <1>3 DEF ToSet, m
  <2>3. \A j \in 1..m : ran'[j] = ran[j]
    BY <1>3 DEF m
  <2>4. ran'[m + 1] = f
    BY <1>3 DEF m
  <2>5. {ran'[j] : j \in 1..m + 1} = {ran[j] : j \in 1..m} \cup {f}
    BY <1>4, <2>3, <2>4
  <2>6. QED
    BY <1>3, <2>1, <2>2, <2>5
<1>6. DependenciesFirst'
  <2>1. \A i \in 1..m : ran'[i] = ran[i] /\ ran[i] # f
    <3>1. \A i \in 1..m : ran[i] \in DOMAIN moduleCache
      BY <1>3, <1>5
    <3>2. QED
      BY <1>3, <3>1 DEF m
  <2>2. ran'[m + 1] = f /\ DOMAIN ran' = 1..m + 1 /\ DOMAIN ran = 1..m
    BY <1>3 DEF m
  <2>3. \A i, j \in 1..m : ran[i] = ran[j] => i = j
    BY <1>1, <2>2 DEF DependenciesFirst, IsInjective
  <2>4. \A i, j \in 1..m + 1 : ran'[i] = ran'[j] => i = j
    BY <1>4, <2>1, <2>2, <2>3
  <2>5. \A i \in 1..m + 1 : \A g : g = ran'[i] => Targets(g) \subseteq {ran'[j] : j \in 1..i - 1}
    <3>1. SUFFICES ASSUME NEW i \in 1..m + 1, NEW g, g = ran'[i]
                   PROVE  Targets(g) \subseteq {ran'[j] : j \in 1..i - 1}
      OBVIOUS
    <3>2. {ran'[j] : j \in 1..i - 1} = {ran[j] : j \in 1..i - 1}
      BY <1>4, <2>1
    <3>3. CASE i = m + 1
      <4>1. g = f /\ i - 1 = m
        BY <1>4, <2>2, <3>1, <3>3
      <4>2. Targets(g) \subseteq {ran[j] : j \in 1..i - 1}
        BY <1>3, <1>5, <4>1
      <4>3. QED
        BY <3>2, <4>2
    <3>4. CASE i \in 1..m
      BY <1>1, <2>1, <2>2, <3>1, <3>2, <3>4 DEF DependenciesFirst
    <3>5. QED
      BY <1>4, <3>3, <3>4
  <2>6. QED
    BY <1>2, <2>2, <2>4, <2>5 DEF DependenciesFirst, IsInjective
<1>7. Len(ran') \in Nat
  BY <1>3
<1>8. QED
  BY <1>3, <1>5, <1>6, <1>7

LEMMA EvaluateWalks == WalkInv /\ Evaluate => WalkInv'
<1> SUFFICES ASSUME WalkInv, Evaluate PROVE WalkInv'
  OBVIOUS
<1>1. PICK f : f = Current.file
  OBVIOUS
<1> DEFINE n == Len(stack)  importer == stack[n - 1]  left == importer.left
           mod == Module(Declared(Current))
           frame == Bind(Done(importer), mod, Head(left).form)
<1>2. /\ IsSeq(stack) /\ n \in Nat /\ n > 1 /\ Current = stack[n] /\ outcome = "loading"
      /\ f \in Modules /\ f \in DOMAIN text /\ Current.left = <<>>
  BY <1>1, InTheWork DEF Evaluate
<1>3. /\ stack' = LastTwoBy(stack, frame)
      /\ moduleCache' = Over(moduleCache, [g \in {f} |-> mod])
      /\ ran' = Append(ran, f) /\ UNCHANGED <<text, outcome>>
  BY <1>1 DEF Evaluate, LastTwoBy
<1>4. /\ Targets(f) \subseteq DOMAIN moduleCache /\ f \notin DOMAIN moduleCache /\ f # "main"
  BY <1>1, <1>2, Resolved
<1>5. DOMAIN moduleCache' = DOMAIN moduleCache \cup {f}
  BY <1>3 DEF Over
<1>6. /\ TextFits /\ WrittenFits /\ StackFits /\ ImportsArePending /\ StackIsPath /\ CacheFits
      /\ DependenciesFirst
  BY DEF WalkInv, GraphIsWalked
<1>7. /\ n - 1 \in 1..n - 1 /\ n - 1 \in 1..n /\ 1 \in 1..n
      /\ \A i \in 1..n - 1 : i = n - 1 \/ i \in 1..n - 2
      /\ \A i \in 1..n - 1 : i \in 1..n
      /\ \A i \in 2..n - 1 : i \in 2..n /\ i # n /\ i \in 1..n
      /\ \A i \in 1..n - 2 : i \in 1..n - 1 /\ i + 1 \in 1..n - 1
      /\ n \in 2..n /\ n - 1 + 1 = n /\ n - 1 \in Nat \ {0}
  BY <1>2
<1>8. /\ left \in Seq(Statement \cup {Merge}) /\ left # <<>>
      /\ Tail(left) \in Seq(Statement \cup {Merge})
      /\ Pending(left) = {f} \cup Pending(Tail(left))
  BY <1>1, <1>2, <1>7, WaitsFor
<1>9. Shaped(importer) /\ importer.file \in DOMAIN text
  BY <1>6, <1>7 DEF StackFits, IsFrame
<1>10. Shaped(frame) /\ frame.file = importer.file /\ frame.left = Tail(left)
  <2> DEFINE done == Done(importer)  form == Head(left).form
  <2>1. Shaped(done) /\ done.file = importer.file /\ done.left = Tail(left)
    BY <1>9, DoneKeeps
  <2> HIDE DEF done, form, mod
  <2>2. /\ Shaped(Bind(done, mod, form)) /\ Bind(done, mod, form).file = done.file
        /\ Bind(done, mod, form).left = done.left
    BY <2>1, BindKeeps
  <2>3. QED
    BY <2>1, <2>2 DEF done, form
<1> HIDE DEF frame, mod, left, importer, n
<1>11. /\ IsSeq(stack') /\ Len(stack') = n - 1 /\ stack'[n - 1] = frame
       /\ \A i \in 1..n - 2 : stack'[i] = stack[i]
  BY <1>2, <1>3, ReplaceTwo DEF n
<1>12. \A g : Targets(g)' = Targets(g) /\ Reached(g)' = Reached(g)
  BY <1>3, SameGraph
<1>13. TextFits' /\ WrittenFits'
  <2>1. TextFits'
    BY <1>3, <1>6 DEF TextFits
  <2>2. WrittenFits'
    BY <1>3, <1>6 DEF WrittenFits, Written, Places
  <2>3. QED
    BY <2>1, <2>2
<1>14. \A i \in 1..n - 1 : stack'[i].file = stack[i].file
  BY <1>7, <1>10, <1>11 DEF importer
<1>15. StackFits'
  <2>1. \A i \in 1..n - 1 : IsFrame(stack[i])'
    <3>1. SUFFICES ASSUME NEW i \in 1..n - 1 PROVE IsFrame(stack[i])'
      OBVIOUS
    <3>2. CASE i = n - 1
      BY <1>3, <1>8, <1>9, <1>10, <1>11, <3>2 DEF IsFrame
    <3>3. CASE i \in 1..n - 2
      <4>1. IsFrame(stack[i])
        BY <1>6, <1>7, <3>3 DEF StackFits, n
      <4>2. QED
        BY <1>3, <1>11, <3>3, <4>1 DEF IsFrame
    <3>4. QED
      BY <1>7, <3>2, <3>3
  <2>2. stack'[1].file = "main"
    BY <1>2, <1>6, <1>14 DEF StackFits
  <2>3. QED
    BY <1>7, <1>11, <2>1, <2>2 DEF StackFits
<1>16. ImportsArePending'
  <2>1. \A i \in 1..n - 1 :
          /\ Pending(stack'[i].left) \subseteq Targets(stack[i].file)
          /\ Targets(stack[i].file) \subseteq DOMAIN moduleCache' \cup Pending(stack'[i].left)
    <3>1. SUFFICES ASSUME NEW i \in 1..n - 1
                   PROVE  /\ Pending(stack'[i].left) \subseteq Targets(stack[i].file)
                          /\ Targets(stack[i].file)
                               \subseteq DOMAIN moduleCache' \cup Pending(stack'[i].left)
      OBVIOUS
    <3>2. /\ Pending(stack[i].left) \subseteq Targets(stack[i].file)
          /\ Targets(stack[i].file) \subseteq DOMAIN moduleCache \cup Pending(stack[i].left)
      BY <1>6, <1>7 DEF ImportsArePending, n
    <3>3. CASE i = n - 1
      BY <1>5, <1>8, <1>10, <1>11, <3>2, <3>3 DEF left, importer
    <3>4. CASE i \in 1..n - 2
      BY <1>5, <1>11, <3>2, <3>4
    <3>5. QED
      BY <1>7, <3>3, <3>4
  <2>2. \A i \in 1..n - 2 :
          stack'[i].left # <<>> /\ Head(stack'[i].left).of = stack'[i + 1].file
    BY <1>6, <1>7, <1>11, <1>14 DEF ImportsArePending, n
  <2>3. (\A i \in 1..Len(stack) :
           /\ Pending(stack[i].left) \subseteq Targets(stack[i].file)
           /\ Targets(stack[i].file) \subseteq DOMAIN moduleCache \cup Pending(stack[i].left))'
    BY <1>11, <1>12, <1>14, <2>1
  <2>4. Len(stack') - 1 = n - 2
    BY <1>2, <1>11
  <2>5. QED
    BY <2>2, <2>3, <2>4 DEF ImportsArePending
<1>17. StackIsPath'
  <2>1. \A i \in 2..n - 1 : stack[i].file # f
    BY <1>1, <1>2, <1>6, <1>7 DEF StackIsPath, n
  <2>2. \A i \in 2..n - 1 :
          /\ stack'[i].file \notin DOMAIN moduleCache'
          /\ \A j \in 2..n - 1 : stack'[i].file = stack'[j].file => i = j
    <3>1. \A i \in 2..n - 1 : i \in 1..n - 1 /\ i \in 2..n
      BY <1>2
    <3>2. QED
      BY <1>5, <1>6, <1>14, <2>1, <3>1 DEF StackIsPath, n
  <2>3. (\A i, j \in 1..Len(stack) : i < j => stack[j].file \in Reached(stack[i].file))'
    BY <1>6, <1>7, <1>11, <1>12, <1>14 DEF StackIsPath, n
  <2>4. QED
    BY <1>11, <2>2, <2>3 DEF StackIsPath
<1>18. /\ IsSeq(ran') /\ Len(ran') \in Nat /\ ToSet(ran') = DOMAIN moduleCache'
       /\ DependenciesFirst'
  BY <1>2, <1>3, <1>4, <1>5, RunGrows
<1>19. CacheFits'
  <2>1. \A g \in DOMAIN text : text[g].usable
    BY <1>2, <1>6 DEF TextFits
  <2>2. DOMAIN moduleCache' \subseteq {g \in DOMAIN text' : text'[g].usable} \ {"main"}
    BY <1>2, <1>3, <1>4, <1>5, <1>6, <2>1 DEF CacheFits
  <2>3. QED
    BY <1>18, <2>2 DEF CacheFits
<1>20. QED
  BY <1>2, <1>3, <1>13, <1>15, <1>16, <1>17, <1>18, <1>19
     DEF WalkInv, GraphIsWalked, FailsOnlyForCause

\* main has its imports: what it comes to is in the cache, where every file
\* comes to files evaluated before it only.
LEMMA MainWalks == WalkInv /\ EvaluateMain => WalkInv'
<1> SUFFICES ASSUME WalkInv, EvaluateMain PROVE WalkInv'
  OBVIOUS
<1>1. /\ outcome = "loading" /\ Current.left = <<>> /\ Len(stack) = 1 /\ outcome' = "loaded"
      /\ ran' = Append(ran, "main") /\ UNCHANGED <<text, stack, moduleCache>>
  BY DEF EvaluateMain
<1>2. /\ TextFits /\ WrittenFits /\ StackFits /\ ImportsArePending /\ StackIsPath /\ CacheFits
      /\ DependenciesFirst
  BY DEF WalkInv, GraphIsWalked
<1>3. Current.file = "main" /\ "main" \in DOMAIN text
  BY <1>1, <1>2, InTheWork DEF StackFits, TextFits
<1>4. Targets("main") \subseteq DOMAIN moduleCache /\ "main" \notin DOMAIN moduleCache
  BY <1>1, <1>2, <1>3, Resolved DEF CacheFits
<1>5. /\ IsSeq(ran') /\ Len(ran') \in Nat /\ DependenciesFirst'
  BY <1>1, <1>4, RunGrows
<1>6. \A g : Targets(g)' = Targets(g) /\ Reached(g)' = Reached(g)
  BY <1>1, SameGraph
<1>7. DOMAIN moduleCache \subseteq DOMAIN text /\ DOMAIN text \subseteq Modules
  BY <1>2 DEF CacheFits, TextFits
<1>8. DOMAIN ran = 1..Len(ran) /\ Len(ran) \in Nat /\ ToSet(ran) = DOMAIN moduleCache
  BY <1>1, <1>2, RanWereRead DEF CacheFits
<1>9. \A i \in 1..Len(ran) : Reached(ran[i]) \subseteq {ran[j] : j \in 1..i - 1}
  <2>1. SUFFICES ASSUME NEW i \in 1..Len(ran)
                 PROVE  Reached(ran[i]) \subseteq {ran[j] : j \in 1..i - 1}
    OBVIOUS
  <2> DEFINE S == {ran[j] : j \in 1..i - 1}
  <2>2. \A j \in 1..i - 1 : j \in 1..Len(ran) /\ \A k \in 1..j - 1 : k \in 1..i - 1
    BY <1>8
  <2>3. \A j \in 1..Len(ran) : ran[j] \in DOMAIN text
    BY <1>1, RanWereRead
  <2>4. S \subseteq DOMAIN text
    BY <2>2, <2>3
  <2>5. Targets(ran[i]) \subseteq S
    BY <1>2, <1>8 DEF DependenciesFirst
  <2>6. Closed(S)
    <3>1. SUFFICES ASSUME NEW j \in 1..i - 1 PROVE Targets(ran[j]) \subseteq S
      BY DEF Closed
    <3>2. Targets(ran[j]) \subseteq {ran[k] : k \in 1..j - 1}
      BY <1>2, <1>8, <2>2 DEF DependenciesFirst
    <3>3. QED
      BY <2>2, <3>2
  <2> HIDE DEF S
  <2>7. S \in SUBSET Modules
    BY <1>7, <2>4
  <2>8. Reached(ran[i]) \subseteq S
    BY <1>2, <2>3, <2>5, <2>6, <2>7, ReachedIsLeast
  <2>9. QED
    BY <2>8 DEF S
<1>10. \A g \in DOMAIN moduleCache : g \notin Reached(g) /\ Reached(g) \subseteq DOMAIN moduleCache
  <2>1. SUFFICES ASSUME NEW g \in DOMAIN moduleCache
                 PROVE  g \notin Reached(g) /\ Reached(g) \subseteq DOMAIN moduleCache
    OBVIOUS
  <2>2. PICK i \in 1..Len(ran) : g = ran[i]
    BY <1>8 DEF ToSet
  <2>3. \A j \in 1..i - 1 : j \in 1..Len(ran) /\ j # i
    BY <1>8
  <2>4. \A j \in 1..i - 1 : ran[j] # ran[i] /\ ran[j] \in DOMAIN moduleCache
    BY <1>2, <1>8, <2>3 DEF DependenciesFirst, IsInjective, ToSet
  <2>5. QED
    BY <1>9, <2>2, <2>4
<1>11. Reached("main") \subseteq DOMAIN moduleCache
  <2>1. Closed(DOMAIN moduleCache)
    <3>1. SUFFICES ASSUME NEW g \in DOMAIN moduleCache PROVE Targets(g) \subseteq DOMAIN moduleCache
      BY DEF Closed
    <3>2. Targets(g) \subseteq Reached(g)
      BY <1>2, <1>7, ReachedIsLeast
    <3>3. QED
      BY <1>10, <3>2
  <2>2. DOMAIN moduleCache \in SUBSET Modules
    BY <1>7
  <2>3. QED
    BY <1>2, <1>3, <1>4, <2>1, <2>2, ReachedIsLeast
<1>12. FailsOnlyForCause'
  <2>1. \A g \in {"main"} \cup Reached("main") :
          g \in DOMAIN text /\ text[g].usable /\ g \notin Reached(g)
    BY <1>1, <1>2, <1>3, <1>4, <1>7, <1>10, <1>11 DEF TextFits
  <2>2. QED
    BY <1>1, <1>6, <2>1 DEF FailsOnlyForCause
<1>13. TextFits' /\ WrittenFits' /\ CacheFits'
  <2>1. TextFits'
    BY <1>1, <1>2 DEF TextFits
  <2>2. WrittenFits'
    BY <1>1, <1>2 DEF WrittenFits, Written, Places
  <2>3. CacheFits'
    BY <1>1, <1>2, <1>5 DEF CacheFits
  <2>4. QED
    BY <2>1, <2>2, <2>3
<1>14. StackFits' /\ ImportsArePending' /\ StackIsPath'
  <2>1. StackFits'
    BY <1>1, <1>2 DEF StackFits, IsFrame
  <2>2. ImportsArePending' /\ StackIsPath'
    BY <1>1, <1>2, <1>6 DEF ImportsArePending, StackIsPath
  <2>3. QED
    BY <2>1, <2>2
<1>15. QED
  BY <1>5, <1>12, <1>13, <1>14 DEF WalkInv, GraphIsWalked

-----------------------------------------------------------------------------
(* A load from its beginning. *)

LEMMA InitWalks == MlInit => WalkInv
<1> SUFFICES ASSUME MlInit PROVE WalkInv
  OBVIOUS
<1>1. PICK is \in Imports(0) :
         /\ stack = <<Loading("main", is)>>
         /\ text = [f \in {"main"} |->
                       [usable |-> TRUE, imports |-> is, defines |-> {}, exports |-> {}]]
  BY DEF MlInit
<1>2. moduleCache = <<>> /\ ran = <<>> /\ outcome = "loading" /\ DOMAIN moduleCache = {}
  BY DEF MlInit
<1>3. PICK k \in 0..MaxImports : is \in [1..k -> Statement]
  BY LoaderAssumption DEF Imports
<1>4. is \in Seq(Statement) /\ Len(is) \in Nat /\ Len(is) <= MaxImports /\ DOMAIN is = 1..Len(is)
  <2>1. k \in Nat /\ k <= MaxImports
    BY <1>3, LoaderAssumption
  <2>2. is \in Seq(Statement) /\ Len(is) = k
    BY <1>3, <2>1
  <2>3. QED
    BY <2>1, <2>2
<1>5. DOMAIN text = {"main"} /\ text["main"].usable /\ text["main"].imports = is
  BY <1>1
<1>6. TextFits
  BY <1>2, <1>4, <1>5, LoaderAssumption DEF TextFits
<1>7. WrittenFits
  <2> DEFINE one == {"main"}  places == 1..Len(is)
  <2>1. Places = one \X places
    BY <1>4, <1>5 DEF Places
  <2>2. IsFiniteSet(one) /\ Cardinality(one) = 1
    BY FS_Singleton
  <2>3. IsFiniteSet(places) /\ Cardinality(places) = Len(is)
    <3>1. 1 \in Int /\ Len(is) \in Int /\ (1 > Len(is) <=> Len(is) = 0)
      BY <1>4
    <3>2. IsFiniteSet(places) /\ Cardinality(places) = IF 1 > Len(is) THEN 0 ELSE Len(is) - 1 + 1
      BY <3>1, FS_Interval
    <3>3. QED
      BY <1>4, <3>1, <3>2
  <2> HIDE DEF one, places
  <2>4. IsFiniteSet(one \X places)
        /\ Cardinality(one \X places) = Cardinality(one) * Cardinality(places)
    BY <2>2, <2>3, FS_Product
  <2>5. Written = Cardinality(Places)
    BY DEF Written, Places
  <2>6. QED
    BY <1>4, <2>1, <2>2, <2>3, <2>4, <2>5 DEF WrittenFits
<1> DEFINE frame == Loading("main", is)
<1>8. frame.file = "main" /\ frame.left = is /\ Shaped(frame)
  BY DEF Loading, Shaped
<1> HIDE DEF frame
<1>9. IsSeq(stack) /\ Len(stack) = 1 /\ stack[1] = frame
  <2>1. stack = <<frame>>
    BY <1>1 DEF frame
  <2>2. stack \in Seq({frame}) /\ Len(stack) = 1 /\ stack[1] = frame
    BY <2>1
  <2>3. QED
    BY <2>2 DEF IsSeq
<1>10. IsFrame(frame)
  <2>1. is \in Seq(Statement \cup {Merge})
    BY <1>4
  <2>2. QED
    BY <1>5, <1>8, <2>1 DEF IsFrame
<1>11. StackFits
  BY <1>8, <1>9, <1>10 DEF StackFits
<1>12. Pending(is) = Targets("main")
  <2>1. Merge \notin ToSet(is)
    BY <1>4, Literals DEF ToSet
  <2>2. ToSet(is) \ {Merge} = ToSet(is)
    BY <2>1
  <2>3. QED
    BY <1>5, <2>2 DEF Pending, Targets
<1>13. ImportsArePending /\ StackIsPath
  BY <1>8, <1>9, <1>12 DEF ImportsArePending, StackIsPath
<1>14. CacheFits
  BY <1>2 DEF CacheFits, IsSeq, ToSet
<1>15. GraphIsWalked
  BY <1>2 DEF GraphIsWalked, FailsOnlyForCause, DependenciesFirst, IsInjective
<1>16. QED
  BY <1>6, <1>7, <1>11, <1>13, <1>14, <1>15 DEF WalkInv

LEMMA NextWalks == WalkInv /\ [MlNext]_mlVars => WalkInv'
<1>1. CASE UNCHANGED mlVars
  <2> SUFFICES ASSUME WalkInv PROVE WalkInv'
    OBVIOUS
  <2>1. UNCHANGED <<text, stack, moduleCache, ran, outcome>>
    BY <1>1 DEF mlVars
  <2>2. \A g : Targets(g)' = Targets(g) /\ Reached(g)' = Reached(g)
    BY <2>1, SameGraph
  <2>3. TextFits' /\ CacheFits'
    BY <2>1 DEF WalkInv, TextFits, CacheFits
  <2>4. WrittenFits' /\ StackFits'
    BY <2>1 DEF WalkInv, WrittenFits, Written, Places, StackFits, IsFrame
  <2>5. ImportsArePending' /\ StackIsPath'
    BY <2>1, <2>2 DEF WalkInv, ImportsArePending, StackIsPath
  <2>6. GraphIsWalked'
    BY <2>1, <2>2 DEF WalkInv, GraphIsWalked, FailsOnlyForCause, DependenciesFirst
  <2>7. QED
    BY <2>3, <2>4, <2>5, <2>6 DEF WalkInv
<1>2. CASE MlNext
  BY <1>2, DirectoryWalks, UnlistedWalks, CachedWalks, CycleWalks, ReadWalks, EvaluateWalks, MainWalks DEF MlNext
<1>3. QED
  BY <1>1, <1>2

\* Loading is a walk of the graph of the files: it fails if a file of the
\* program's graph is missing, does not parse or comes to itself, and then only,
\* but for a directory that cannot be listed, and it evaluates every file once, after those it imports.
THEOREM LoadingWalksTheGraph == MlSpec => []GraphIsWalked
<1>1. MlSpec => []WalkInv
  BY InitWalks, NextWalks, PTL DEF MlSpec
<1>2. WalkInv => GraphIsWalked
  BY DEF WalkInv
<1>3. QED
  BY <1>1, <1>2, PTL

\* The state of a load is well formed, and reads no more than is written.
THEOREM LoaderTypeCorrect == MlSpec => []MlTypeOK
<1> DEFINE Known == outcome \in {"loading", "loaded", "error", "unlisted"}
<1>1. MlInit => Known
  BY DEF MlInit
<1>2. Known /\ [MlNext]_mlVars => Known'
  <2>1. CASE UNCHANGED mlVars
    BY <2>1 DEF mlVars
  <2>2. CASE MlNext
    <3>1. ImportDirectory \/ MergeDirectory \/ ImportCached => outcome' = outcome
      BY Zenon DEF ImportDirectory, MergeDirectory, ImportCached
    <3>2. ImportCycle \/ ImportFile => outcome' = outcome \/ outcome' = "error"
      BY DEF ImportCycle, ImportFile, Fail
    <3>3. Evaluate \/ EvaluateMain => outcome' = outcome \/ outcome' = "loaded"
      BY Zenon DEF Evaluate, EvaluateMain
    <3>4. ImportUnlisted => outcome' = "unlisted"
      BY Zenon DEF ImportUnlisted
    <3>5. QED
      BY <2>2, <3>1, <3>2, <3>3, <3>4 DEF MlNext
  <2>3. QED
    BY <2>1, <2>2
<1>3. WalkInv /\ Known => MlTypeOK
  <2> SUFFICES ASSUME WalkInv, Known PROVE MlTypeOK
    OBVIOUS
  <2>1. /\ DOMAIN text \subseteq Modules /\ Written <= MaxImports
        /\ DOMAIN moduleCache \subseteq DOMAIN text
    BY DEF WalkInv, TextFits, WrittenFits, CacheFits
  <2>2. stack # <<>> /\ Head(stack).file = "main"
    <3>1. IsSeq(stack) /\ Len(stack) \in Nat \ {0} /\ stack[1].file = "main"
      BY DEF WalkInv, StackFits
    <3>2. stack # <<>>
      BY <3>1, SeqFacts
    <3>3. Head(stack) = stack[1]
      BY <3>1 DEF IsSeq
    <3>4. QED
      BY <3>1, <3>2, <3>3
  <2>3. \A i \in DOMAIN stack : ToSet(stack[i].left) \subseteq Statement \cup {Merge}
    BY InTheWork DEF WalkInv, StackFits, IsFrame, ToSet
  <2>4. QED
    BY <2>1, <2>2, <2>3 DEF MlTypeOK
<1>4. MlSpec => []WalkInv
  BY InitWalks, NextWalks, PTL DEF MlSpec
<1>5. QED
  BY <1>1, <1>2, <1>3, <1>4, PTL DEF MlSpec

-----------------------------------------------------------------------------
(* Private names. *)

\* What is private in a scope is its file's own, or exported by the file that
\* defines it.
EnvFits(env, own) ==
    \A n \in DOMAIN env \cap Private :
        \/ env[n].file = own
        \/ env[n].file \in DOMAIN text /\ n \in text[env[n].file].exports

\* And so it is in the cache, where a module's exports are those of its text.
PrivateInv ==
    /\ \A i \in 1..Len(stack) : EnvFits(stack[i].env, stack[i].file)
    /\ \A f \in DOMAIN moduleCache :
         EnvFits(moduleCache[f].env, f) /\ moduleCache[f].exports = text[f].exports

\* An export is in scope under its name.
IsExport(n, value) == value.file \in DOMAIN text /\ n \in text[value.file].exports

LEMMA OverFits ==
    ASSUME NEW g, NEW h, NEW own, EnvFits(g, own),
           \A n \in DOMAIN h \cap Private : h[n].file = own \/ IsExport(n, h[n])
    PROVE  EnvFits(Over(g, h), own)
<1> DEFINE both == Over(g, h)
<1>1. SUFFICES ASSUME NEW n \in DOMAIN both \cap Private
               PROVE  both[n].file = own \/ IsExport(n, both[n])
  BY DEF EnvFits, IsExport
<1>2. CASE n \in DOMAIN h
  <2>1. both[n] = h[n]
    BY <1>2 DEF Over
  <2>2. QED
    BY <1>1, <1>2, <2>1
<1>3. CASE n \notin DOMAIN h
  <2>1. both[n] = g[n] /\ n \in DOMAIN g
    BY <1>1, <1>3 DEF Over
  <2>2. g[n].file = own \/ IsExport(n, g[n])
    BY <1>1, <2>1 DEF EnvFits, IsExport
  <2>3. QED
    BY <2>1, <2>2
<1>4. QED
  BY <1>2, <1>3

\* A binding brings no private name but an export.
LEMMA BindFits ==
    ASSUME NEW frame, Shaped(frame), NEW own, EnvFits(frame.env, own), NEW form,
           NEW f \in DOMAIN text, NEW mod, EnvFits(mod.env, f), mod.exports = text[f].exports
    PROVE  EnvFits(Bind(frame, mod, form).env, own)
<1> DEFINE values == Exports(mod)
           alias == [n \in {Alias} |-> Namespace(values)]
           named == Only(values, DOMAIN values \ Private)
<1>1. Bind(frame, mod, form).env \in
        {Over(frame.env, alias), Over(frame.env, named), Over(frame.env, values)}
  <2>1. PICK g, l, b, t, e : frame = [file |-> g, left |-> l, by |-> b, types |-> t, env |-> e]
    BY DEF Shaped
  <2> HIDE DEF alias, named, values
  <2>2. CASE form = "alias"
    BY <2>1, <2>2 DEF Bind, alias, values
  <2>3. CASE form = "names"
    BY <2>1, <2>3 DEF Bind, named, values
  <2>4. CASE form # "alias" /\ form # "names"
    BY <2>1, <2>4 DEF Bind, values
  <2>5. QED
    BY <2>2, <2>3, <2>4
<1>2. EnvFits(Over(frame.env, alias), own)
  <2>1. DOMAIN alias \cap Private = {}
    BY LoaderAssumption
  <2> HIDE DEF alias
  <2>2. QED
    BY <2>1, OverFits
<1>3. EnvFits(Over(frame.env, named), own)
  <2>1. DOMAIN named \cap Private = {}
    BY DEF Only
  <2> HIDE DEF named
  <2>2. QED
    BY <2>1, OverFits
<1>4. EnvFits(Over(frame.env, values), own)
  <2>1. ASSUME NEW n \in DOMAIN values \cap Private
        PROVE  IsExport(n, values[n])
    <3>1. n \in mod.exports /\ n \in DOMAIN mod.env /\ values[n] = mod.env[n]
      BY <2>1 DEF Exports, Only
    <3>2. mod.env[n].file = f \/ IsExport(n, mod.env[n])
      BY <2>1, <3>1 DEF EnvFits, IsExport
    <3>3. QED
      BY <3>1, <3>2 DEF IsExport
  <2> HIDE DEF values
  <2>2. QED
    BY <2>1, OverFits
<1> HIDE DEF alias, named, values
<1>5. QED
  BY <1>1, <1>2, <1>3, <1>4

\* The text of a file stays.
LEMMA TextGrows ==
    ASSUME WalkInv, MlNext
    PROVE  \A g \in DOMAIN text : g \in DOMAIN text' /\ text'[g] = text[g]
<1>1. CASE text' = text
  BY <1>1
<1>2. CASE ImportFile
  <2>1. PICK f : f = Import.of
    OBVIOUS
  <2> DEFINE new == {[usable |-> TRUE, imports |-> is, defines |-> c.defines,
                      exports |-> c.exports] : is \in Imports(Written), c \in Contents}
             none == [usable |-> FALSE, imports |-> <<>>, defines |-> {}, exports |-> {}]
  <2>2. \/ \E t \in IF f \in DOMAIN text THEN {text[f]} ELSE new :
             text' = Over(text, [g \in {f} |-> t])
        \/ f \notin DOMAIN text /\ text' = Over(text, [g \in {f} |-> none])
    BY <1>2, <2>1 DEF ImportFile
  <2> HIDE DEF new, none
  <2>3. PICK t : text' = Over(text, [g \in {f} |-> t]) /\ (f \in DOMAIN text => t = text[f])
    BY <2>2
  <2> DEFINE entry == [g \in {f} |-> t]
  <2>4. DOMAIN entry = {f} /\ entry[f] = t /\ text' = Over(text, entry)
    BY <2>3
  <2> HIDE DEF entry
  <2>5. SUFFICES ASSUME NEW g \in DOMAIN text PROVE g \in DOMAIN text' /\ text'[g] = text[g]
    OBVIOUS
  <2>6. g \in DOMAIN text'
    BY <2>4 DEF Over
  <2>7. CASE g = f
    BY <2>3, <2>4, <2>7 DEF Over
  <2>8. CASE g # f
    BY <2>4, <2>8 DEF Over
  <2>9. QED
    BY <2>7, <2>8
<1>3. MlNext => text' = text \/ ImportFile
  BY Zenon DEF MlNext, ImportDirectory, ImportUnlisted, MergeDirectory, ImportCached, ImportCycle, Evaluate,
               EvaluateMain
<1>4. QED
  BY <1>1, <1>2, <1>3

LEMMA FitsLater ==
    ASSUME WalkInv, MlNext, NEW env, NEW own, EnvFits(env, own)
    PROVE  EnvFits(env, own)'
<1>1. SUFFICES ASSUME NEW n \in DOMAIN env \cap Private, env[n].file # own
               PROVE  env[n].file \in DOMAIN text' /\ n \in text'[env[n].file].exports
  BY DEF EnvFits
<1>2. env[n].file \in DOMAIN text /\ n \in text[env[n].file].exports
  BY <1>1 DEF EnvFits
<1>3. QED
  BY <1>2, TextGrows

\* The frames below the top stay, and the cache.
LEMMA OthersFit ==
    ASSUME WalkInv, MlNext, PrivateInv
    PROVE  /\ \A i \in 1..Len(stack) : \A frame : frame = stack[i] =>
                EnvFits(frame.env, frame.file)'
           /\ \A f \in DOMAIN moduleCache : \A mod : mod = moduleCache[f] =>
                EnvFits(mod.env, f)' /\ mod.exports = text'[f].exports
<1>1. ASSUME NEW i \in 1..Len(stack), NEW frame, frame = stack[i]
      PROVE  EnvFits(frame.env, frame.file)'
  <2>1. EnvFits(frame.env, frame.file)
    BY <1>1 DEF PrivateInv
  <2>2. QED
    BY <2>1, FitsLater
<1>2. ASSUME NEW f \in DOMAIN moduleCache, NEW mod, mod = moduleCache[f]
      PROVE  EnvFits(mod.env, f)' /\ mod.exports = text'[f].exports
  <2>1. EnvFits(mod.env, f) /\ mod.exports = text[f].exports
    BY <1>2 DEF PrivateInv
  <2>2. f \in DOMAIN text
    BY <1>2 DEF WalkInv, CacheFits
  <2>3. QED
    BY <2>1, <2>2, FitsLater, TextGrows
<1>3. QED
  BY <1>1, <1>2

\* The frame at work binds what fits.
LEMMA TopFits ==
    ASSUME WalkInv, MlNext, PrivateInv, NEW frame, EnvFits(frame.env, Current.file),
           frame.file = Current.file, stack' = WithTop(frame), UNCHANGED <<text, moduleCache>>
    PROVE  PrivateInv'
<1> DEFINE n == Len(stack)
<1>1. IsSeq(stack) /\ n \in Nat \ {0} /\ Current = stack[n]
  BY InTheWork
<1>2. /\ Len(stack') = n /\ stack'[n] = frame
      /\ \A i \in 1..n - 1 : stack'[i] = stack[i]
  <2>1. stack' = LastBy(stack, frame) /\ Len(stack) # 0
    BY <1>1 DEF WithTop, LastBy
  <2>2. QED
    BY <1>1, <2>1, ReplaceLast
<1>3. /\ \A i \in 1..n : i = n \/ i \in 1..n - 1
      /\ \A i \in 1..n - 1 : i \in 1..n
  BY <1>1
<1> HIDE DEF n
<1>4. EnvFits(frame.env, frame.file)'
  <2>1. EnvFits(frame.env, frame.file)
    OBVIOUS
  <2>2. QED
    BY <2>1, FitsLater
<1>5. \A i \in 1..n : EnvFits(stack[i].env, stack[i].file)'
  BY <1>2, <1>3, <1>4, OthersFit DEF n
<1>6. \A f \in DOMAIN moduleCache : 
        (EnvFits(moduleCache[f].env, f) /\ moduleCache[f].exports = text[f].exports)'
  BY OthersFit
<1>7. QED
  BY <1>2, <1>5, <1>6 DEF PrivateInv

LEMMA DoneFits ==
    ASSUME NEW f, NEW l, NEW b, NEW t, NEW e, NEW frame,
           frame = [file |-> f, left |-> l, by |-> b, types |-> t, env |-> e]
    PROVE  Done(frame).file = f /\ Done(frame).env = e
<1> DEFINE rest == Tail(frame.left)
<1>1. Done(frame) = [frame EXCEPT !.left = rest]
  BY DEF Done
<1> HIDE DEF rest
<1>2. QED
  BY <1>1

LEMMA DirectoryFits ==
    ASSUME WalkInv, MlNext, PrivateInv, ImportDirectory \/ MergeDirectory
    PROVE  PrivateInv'
<1>1. Shaped(Current) /\ EnvFits(Current.env, Current.file)
  BY InTheWork DEF PrivateInv
<1>2. PICK f, l, b, t, e : Current = [file |-> f, left |-> l, by |-> b, types |-> t, env |-> e]
  BY <1>1 DEF Shaped
<1>3. EnvFits(e, f) /\ Current.file = f /\ Current.env = e
  BY <1>1, <1>2
<1>4. CASE ImportDirectory
  <2>1. PICK left, by : stack' = WithTop(Spread(Current, left, by)) /\ UNCHANGED <<text, moduleCache>>
    BY <1>4, Zenon DEF ImportDirectory, Spread
  <2> DEFINE one == [Current EXCEPT !.left = left]
             frame == Spread(Current, left, by)
  <2>2. one = [file |-> f, left |-> left, by |-> b, types |-> t, env |-> e]
    BY <1>2
  <2>3. Spread(Current, left, by) = [one EXCEPT !.by = by]
    BY DEF Spread
  <2> HIDE DEF one
  <2>4. frame.file = f /\ frame.env = e
    BY <2>2, <2>3
  <2> HIDE DEF frame
  <2>5. stack' = WithTop(frame)
    BY <2>1 DEF frame
  <2>6. QED
    BY <1>3, <2>1, <2>4, <2>5, TopFits
<1>5. CASE MergeDirectory
  <2>1. PICK merged : /\ stack' = WithTop(Done(
                            IF Current.by = "alias"
                            THEN [Current EXCEPT !.env = Over(@, [n \in {Alias} |-> Namespace(merged)])]
                            ELSE Current))
                      /\ UNCHANGED <<text, moduleCache>>
    BY <1>5, Zenon DEF MergeDirectory
  <2>2. CASE Current.by = "alias"
    <3> DEFINE alias == [n \in {Alias} |-> Namespace(merged)]
               held == [Current EXCEPT !.env = Over(e, alias)]
               frame == Done(held)
    <3>1. stack' = WithTop(frame)
      BY <1>3, <2>1, <2>2
    <3>2. DOMAIN alias \cap Private = {}
      BY LoaderAssumption
    <3> HIDE DEF alias
    <3>3. EnvFits(Over(e, alias), f)
      BY <1>3, <3>2, OverFits
    <3>4. held = [file |-> f, left |-> l, by |-> b, types |-> t, env |-> Over(e, alias)]
      BY <1>2
    <3> HIDE DEF held
    <3>5. frame.file = f /\ frame.env = Over(e, alias)
      BY <3>4, DoneFits
    <3> HIDE DEF frame
    <3>6. QED
      BY <1>3, <2>1, <3>1, <3>3, <3>5, TopFits
  <2>3. CASE Current.by # "alias"
    <3> DEFINE frame == Done(Current)
    <3>1. stack' = WithTop(frame)
      BY <2>1, <2>3
    <3>2. frame.file = f /\ frame.env = e
      BY <1>2, DoneFits
    <3> HIDE DEF frame
    <3>3. QED
      BY <1>3, <2>1, <3>1, <3>2, TopFits
  <2>4. QED
    BY <2>2, <2>3
<1>6. QED
  BY <1>4, <1>5

LEMMA CachedFits == WalkInv /\ MlNext /\ PrivateInv /\ ImportCached => PrivateInv'
<1> SUFFICES ASSUME WalkInv, MlNext, PrivateInv, ImportCached PROVE PrivateInv'
  OBVIOUS
<1> DEFINE done == Done(Current)
           frame == Bind(done, moduleCache[Import.of], Import.form)
<1>1. Shaped(Current) /\ EnvFits(Current.env, Current.file)
  BY InTheWork DEF PrivateInv
<1>2. /\ stack' = WithTop(frame) /\ UNCHANGED <<text, moduleCache>>
      /\ Import.of \in DOMAIN moduleCache
  BY DEF ImportCached
<1>3. PICK g, l, b, t, e : Current = [file |-> g, left |-> l, by |-> b, types |-> t, env |-> e]
  BY <1>1 DEF Shaped
<1>4. Shaped(done) /\ done.file = Current.file /\ done.env = Current.env
  BY <1>1, <1>3, DoneKeeps, DoneFits
<1> HIDE DEF done
<1>5. PICK f, mod, form : f = Import.of /\ mod = moduleCache[f] /\ form = Import.form
  OBVIOUS
<1>6. f \in DOMAIN text /\ EnvFits(mod.env, f) /\ mod.exports = text[f].exports
  BY <1>2, <1>5 DEF PrivateInv, WalkInv, CacheFits
<1>7. frame = Bind(done, mod, form)
  BY <1>5
<1> HIDE DEF frame
<1>8. EnvFits(frame.env, Current.file) /\ frame.file = Current.file
  BY <1>1, <1>4, <1>6, <1>7, BindFits, BindKeeps
<1>9. QED
  BY <1>2, <1>8, TopFits

\* A frame is made for a file, with the builtins in scope.
LEMMA PushFits ==
    ASSUME WalkInv, MlNext, PrivateInv, NEW f, NEW imports,
           stack' = Append(stack, Loading(f, imports)), UNCHANGED moduleCache
    PROVE  PrivateInv'
<1> DEFINE n == Len(stack)  frame == Loading(f, imports)
<1>1. IsSeq(stack) /\ n \in Nat \ {0}
  BY InTheWork
<1>2. frame.file = f /\ frame.env = [b \in Builtins |-> From("builtin")]
  BY DEF Loading
<1> HIDE DEF frame, n
<1>3. /\ Len(stack') = n + 1 /\ stack'[n + 1] = frame
      /\ \A i \in 1..n : stack'[i] = stack[i]
  BY <1>1, AppendSeq DEF n, frame
<1>4. \A i \in 1..n + 1 : i = n + 1 \/ i \in 1..n
  BY <1>1
<1>5. EnvFits(frame.env, f)'
  <2>1. DOMAIN frame.env \cap Private = {}
    BY <1>2, LoaderAssumption
  <2>2. EnvFits(frame.env, f)
    BY <2>1 DEF EnvFits
  <2>3. QED
    BY <2>2, FitsLater
<1>6. \A i \in 1..n + 1 : EnvFits(stack[i].env, stack[i].file)'
  BY <1>2, <1>3, <1>4, <1>5, OthersFit DEF n
<1>7. \A g \in DOMAIN moduleCache :
        (EnvFits(moduleCache[g].env, g) /\ moduleCache[g].exports = text[g].exports)'
  BY OthersFit
<1>8. QED
  BY <1>3, <1>6, <1>7 DEF PrivateInv

\* What is not bound to another scope fits as before.
LEMMA SameFits ==
    ASSUME WalkInv, MlNext, PrivateInv, UNCHANGED <<stack, moduleCache>>
    PROVE  PrivateInv'
<1>1. \A i \in 1..Len(stack) : EnvFits(stack[i].env, stack[i].file)'
  BY OthersFit
<1>2. \A f \in DOMAIN moduleCache :
        (EnvFits(moduleCache[f].env, f) /\ moduleCache[f].exports = text[f].exports)'
  BY OthersFit
<1>3. QED
  BY <1>1, <1>2 DEF PrivateInv

LEMMA EvaluateFits == WalkInv /\ MlNext /\ PrivateInv /\ Evaluate => PrivateInv'
<1> SUFFICES ASSUME WalkInv, MlNext, PrivateInv, Evaluate PROVE PrivateInv'
  OBVIOUS
<1>1. PICK f : f = Current.file
  OBVIOUS
<1> DEFINE n == Len(stack)  importer == stack[n - 1]
<1>2. PICK mod, form : mod = Module(Declared(Current)) /\ form = Head(importer.left).form
  OBVIOUS
<1>3. /\ IsSeq(stack) /\ n \in Nat /\ n > 1 /\ Current = stack[n]
      /\ f \in DOMAIN text /\ Shaped(Current) /\ EnvFits(Current.env, f)
  BY <1>1, InTheWork DEF Evaluate, PrivateInv
<1>4. n - 1 \in 1..n /\ n - 1 \in 1..n - 1 /\ \A i \in 1..n - 1 : i = n - 1 \/ i \in 1..n - 2
  BY <1>3
<1>5. Shaped(importer) /\ EnvFits(importer.env, importer.file)
  BY <1>4 DEF WalkInv, StackFits, IsFrame, PrivateInv
<1> DEFINE done == Done(importer)
<1>6. Shaped(done) /\ done.file = importer.file /\ done.env = importer.env
  <2>1. PICK g, l, b, t, e : importer = [file |-> g, left |-> l, by |-> b, types |-> t, env |-> e]
    BY <1>5 DEF Shaped
  <2>2. QED
    BY <1>5, <2>1, DoneKeeps, DoneFits
<1> HIDE DEF done
<1>7. PICK frame : frame = Bind(done, mod, form)
  OBVIOUS
<1>8. /\ stack' = LastTwoBy(stack, frame)
      /\ moduleCache' = Over(moduleCache, [g \in {f} |-> mod])
      /\ UNCHANGED text
  BY <1>1, <1>2, <1>7 DEF Evaluate, LastTwoBy, done
<1>9. EnvFits(mod.env, f) /\ mod.exports = text[f].exports
  <2> DEFINE own == [m \in text[f].defines \ Types |-> From(f)]
  <2>1. PICK l, b, t, e : Current = [file |-> f, left |-> l, by |-> b, types |-> t, env |-> e]
    BY <1>1, <1>3 DEF Shaped
  <2>2. mod.exports = text[f].exports /\ mod.env = Declared(Current).env
    <3>1. Declared(Current).file = f
      BY <1>1, <2>1 DEF Declared
    <3>2. QED
      BY <1>2, <3>1 DEF Module
  <2>3. Declared(Current).env = Over(e, own)
    BY <2>1 DEF Declared
  <2>4. \A m \in DOMAIN own : own[m].file = f
    BY DEF From
  <2> HIDE DEF own
  <2>5. EnvFits(Over(e, own), f)
    BY <1>3, <2>1, <2>4, OverFits
  <2>6. QED
    BY <2>2, <2>3, <2>5
<1> HIDE DEF importer
<1>10. EnvFits(frame.env, importer.file) /\ frame.file = importer.file
  BY <1>3, <1>5, <1>6, <1>7, <1>9, BindFits, BindKeeps
<1> HIDE DEF n
<1>11. /\ Len(stack') = n - 1 /\ stack'[n - 1] = frame
       /\ \A i \in 1..n - 2 : stack'[i] = stack[i]
  BY <1>3, <1>8, ReplaceTwo DEF n
<1>12. EnvFits(frame.env, frame.file)' /\ EnvFits(mod.env, f)' /\ mod.exports = text'[f].exports
  BY <1>8, <1>9, <1>10, FitsLater
<1>13. \A i \in 1..n - 1 : \A fr : fr = stack'[i] => EnvFits(fr.env, fr.file)'
  <2>1. SUFFICES ASSUME NEW i \in 1..n - 1, NEW fr, fr = stack'[i] PROVE EnvFits(fr.env, fr.file)'
    OBVIOUS
  <2>2. CASE i = n - 1
    <3>1. fr = frame
      BY <1>11, <2>1, <2>2
    <3>2. QED
      BY <1>12, <3>1
  <2>3. CASE i \in 1..n - 2
    <3>1. fr = stack[i] /\ i \in 1..Len(stack)
      BY <1>3, <1>11, <2>1, <2>3 DEF n
    <3>2. QED
      BY <3>1, OthersFit
  <2>4. QED
    BY <1>4, <2>2, <2>3
<1>14. \A g \in DOMAIN moduleCache' : \A m : m = moduleCache'[g] =>
         EnvFits(m.env, g)' /\ m.exports = text'[g].exports
  <2>1. SUFFICES ASSUME NEW g \in DOMAIN moduleCache', NEW m, m = moduleCache'[g]
                 PROVE  EnvFits(m.env, g)' /\ m.exports = text'[g].exports
    OBVIOUS
  <2>2. CASE g = f
    <3>1. m = mod
      BY <1>8, <2>1, <2>2 DEF Over
    <3>2. QED
      BY <1>12, <2>2, <3>1
  <2>3. CASE g # f
    <3>1. g \in DOMAIN moduleCache /\ m = moduleCache[g]
      BY <1>8, <2>1, <2>3 DEF Over
    <3>2. QED
      BY <3>1, OthersFit
  <2>4. QED
    BY <2>2, <2>3
<1>15. QED
  BY <1>11, <1>13, <1>14 DEF PrivateInv

LEMMA NextFits == WalkInv /\ PrivateInv /\ [MlNext]_mlVars => PrivateInv'
<1> SUFFICES ASSUME WalkInv, PrivateInv, [MlNext]_mlVars PROVE PrivateInv'
  OBVIOUS
<1>1. CASE UNCHANGED mlVars
  BY <1>1 DEF mlVars, PrivateInv, EnvFits
<1>2. CASE MlNext
  <2>1. CASE ImportDirectory \/ MergeDirectory
    BY <1>2, <2>1, DirectoryFits
  <2>2. CASE ImportCached
    BY <1>2, <2>2, CachedFits
  <2>3. CASE ImportCycle \/ ImportUnlisted \/ EvaluateMain
    <3>1. UNCHANGED <<stack, moduleCache>>
      BY <2>3 DEF ImportCycle, ImportUnlisted, EvaluateMain, Fail
    <3>2. QED
      BY <1>2, <3>1, SameFits
  <2>4. CASE ImportFile
    <3>1. \/ \E f, imports : stack' = Append(stack, Loading(f, imports)) /\ UNCHANGED moduleCache
          \/ UNCHANGED <<stack, moduleCache>>
      BY <2>4 DEF ImportFile, Fail
    <3>2. CASE UNCHANGED <<stack, moduleCache>>
      BY <1>2, <3>2, SameFits
    <3>3. CASE \E f, imports : /\ stack' = Append(stack, Loading(f, imports))
                               /\ UNCHANGED moduleCache
      <4>1. PICK f, imports : stack' = Append(stack, Loading(f, imports)) /\ UNCHANGED moduleCache
        BY <3>3
      <4>2. QED
        BY <1>2, <4>1, PushFits
    <3>4. QED
      BY <3>1, <3>2, <3>3
  <2>5. CASE Evaluate
    BY <1>2, <2>5, EvaluateFits
  <2>6. QED
    BY <1>2, <2>1, <2>2, <2>3, <2>4, <2>5 DEF MlNext
<1>3. QED
  BY <1>1, <1>2

\* A private name of a file comes to another's scope only as an export of the
\* file that defines it, in whatever form and by whatever way it is imported.
THEOREM PrivateNamesStay == MlSpec => []PrivateUnlessExported
<1>1. MlInit => PrivateInv
  <2> SUFFICES ASSUME MlInit PROVE PrivateInv
    OBVIOUS
  <2>1. PICK is : stack = <<Loading("main", is)>>
    BY DEF MlInit
  <2> DEFINE frame == Loading("main", is)
  <2>2. DOMAIN frame.env \cap Private = {}
    BY LoaderAssumption DEF Loading
  <2> HIDE DEF frame
  <2>3. stack = <<frame>> /\ DOMAIN moduleCache = {}
    BY <2>1 DEF MlInit, frame
  <2>4. Len(stack) = 1 /\ stack[1] = frame
    BY <2>3
  <2>5. QED
    BY <2>2, <2>3, <2>4 DEF PrivateInv, EnvFits
<1>2. MlSpec => []WalkInv
  BY InitWalks, NextWalks, PTL DEF MlSpec
<1>3. WalkInv /\ PrivateInv => PrivateUnlessExported
  <2> SUFFICES ASSUME WalkInv, PrivateInv, NEW i \in DOMAIN stack,
                      NEW n \in DOMAIN stack[i].env \cap Private
               PROVE  \/ stack[i].env[n].file = stack[i].file
                      \/ n \in text[stack[i].env[n].file].exports
    BY DEF PrivateUnlessExported, Scopes
  <2>1. i \in 1..Len(stack)
    BY InTheWork
  <2>2. QED
    BY <2>1 DEF PrivateInv, EnvFits
<1>4. QED
  BY <1>1, <1>2, <1>3, NextFits, PTL DEF MlSpec

\* Of any program, in any state of its load: the walk of its files and the scopes
\* it leaves are right.
THEOREM LoadingIsSound == MlSpec => []ImportsAreSound
  BY LoadingWalksTheGraph, PrivateNamesStay, PTL DEF ImportsAreSound
=============================================================================
