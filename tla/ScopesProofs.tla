----------------------------- MODULE ScopesProofs ------------------------------
(***************************************************************************)
(* For any goroutines, setups, names and bounds: the types of the dynamic  *)
(* scopes, and that each body runs with its own environment, capabilities, *)
(* handlers and session.                                                   *)
(*                                                                         *)
(* What a stack of scopes must hold is known from the calls: the r-th      *)
(* element belongs to the r-th call of its kind, counted from outside.     *)
(***************************************************************************)
EXTENDS DynamicScopes, FiniteSetTheorems, SequenceTheorems, TLAPS

-----------------------------------------------------------------------------
(* Ranks: which element of a stack is that of call k.                       *)

Rank(S, k) == Cardinality({j \in S : j <= k})

\* s has an element for each call of S, in order, and it is what f says.
Fits(s, S, f) == Len(s) = Cardinality(S) /\ \A k \in S : s[Rank(S, k)] = f[k]

LEMMA Picked ==
    ASSUME NEW n \in Nat, NEW S, S \subseteq 1..n
    PROVE  /\ IsFiniteSet(S) /\ Cardinality(S) \in Nat
           /\ \A T \in SUBSET S : IsFiniteSet(T) /\ Cardinality(T) \in 0..Cardinality(S)
           /\ \A k \in S : Rank(S, k) \in 1..Cardinality(S)
           /\ n + 1 \notin S
<1>1. IsFiniteSet(1..n)
  BY FS_Interval
<1>2. IsFiniteSet(S)
  BY <1>1, FS_Subset
<1>3. \A T \in SUBSET S : IsFiniteSet(T) /\ Cardinality(T) <= Cardinality(S)
                          /\ Cardinality(T) \in Nat
  BY <1>2, FS_Subset, FS_CardinalityType
<1>4. Cardinality(S) \in Nat
  BY <1>2, FS_CardinalityType
<1>5. ASSUME NEW k \in S
      PROVE  Rank(S, k) \in 1..Cardinality(S)
  <2>1. {j \in S : j <= k} \in SUBSET S /\ k \in {j \in S : j <= k}
    OBVIOUS
  <2>2. PICK T \in SUBSET S : T = {j \in S : j <= k}
    BY <2>1
  <2>3. Cardinality(T) # 0
    BY <1>3, <2>1, <2>2, FS_EmptySet
  <2>4. QED
    BY <1>3, <1>4, <2>2, <2>3 DEF Rank
<1>6. QED
  BY <1>2, <1>3, <1>4, <1>5

LEMMA RankOrder ==
    ASSUME NEW n \in Nat, NEW S, S \subseteq 1..n, NEW j \in S, NEW k \in S, j < k
    PROVE  Rank(S, j) < Rank(S, k)
<1>1. PICK T \in SUBSET S : T = {i \in S : i <= k}
  OBVIOUS
<1>2. PICK U \in SUBSET T : U = {i \in S : i <= j}
  <2>1. \A i \in S : i \in Nat /\ (i <= j => i <= k)
    OBVIOUS
  <2>2. {i \in S : i <= j} \in SUBSET T
    BY <1>1, <2>1, Zenon
  <2>3. QED
    BY <2>2
<1>3. IsFiniteSet(T) /\ IsFiniteSet(U) /\ Cardinality(T) \in Nat /\ Cardinality(U) \in Nat
  BY Picked
<1>4. U # T
  <2>1. ~ (k <= j) /\ k <= k
    OBVIOUS
  <2>2. QED
    BY <1>1, <1>2, <2>1, Zenon
<1>5. Cardinality(U) <= Cardinality(T) /\ Cardinality(T) # Cardinality(U)
  BY <1>3, <1>4, FS_Subset
<1>6. QED
  BY <1>1, <1>2, <1>3, <1>5 DEF Rank

\* Every element of a stack is some call's.
LEMMA RankOnto ==
    ASSUME NEW n \in Nat, NEW S, S \subseteq 1..n, NEW r \in 1..Cardinality(S)
    PROVE  \E k \in S : Rank(S, k) = r
<1>1. PICK c \in Nat : c = Cardinality(S)
  BY Picked
<1>2. PICK f : f = [k \in S |-> Rank(S, k)]
  OBVIOUS
<1>3. f \in [S -> 1..c]
  BY <1>1, <1>2, Picked
<1>4. \A j, k \in S : f[j] = f[k] => j = k
  <2> SUFFICES ASSUME NEW j \in S, NEW k \in S, j # k PROVE Rank(S, j) # Rank(S, k)
    BY <1>2
  <2>1. Rank(S, j) \in 1..c /\ Rank(S, k) \in 1..c
    BY <1>1, Picked
  <2>2. Rank(S, j) < Rank(S, k) \/ Rank(S, k) < Rank(S, j)
    <3>1. j < k \/ k < j
      OBVIOUS
    <3>2. QED
      BY <3>1, RankOrder
  <2>3. QED
    BY <2>1, <2>2
<1>5. f \in Injection(S, 1..c)
  BY <1>3, <1>4 DEF Injection, IsInjective
<1>6. IsFiniteSet(1..c) /\ Cardinality(1..c) = c
  BY FS_Interval
<1>7. f \in Surjection(S, 1..c)
  BY <1>1, <1>5, <1>6, FS_Injection
<1>8. QED
  BY <1>1, <1>2, <1>7 DEF Surjection

LEMMA InnermostIs ==
    ASSUME NEW n \in Nat, NEW S, S \subseteq 1..n, S # {}
    PROVE  /\ Innermost(S) \in S
           /\ \A j \in S : j <= Innermost(S)
           /\ Rank(S, Innermost(S)) = Cardinality(S)
<1>1. Cardinality(S) \in Nat /\ Cardinality(S) # 0 /\ IsFiniteSet(S)
  BY Picked, FS_EmptySet
<1>2. PICK k \in S : Rank(S, k) = Cardinality(S)
  <2>1. Cardinality(S) \in 1..Cardinality(S)
    BY <1>1
  <2>2. QED
    BY <2>1, RankOnto
<1>3. PICK T \in SUBSET S : T = {j \in S : j <= k}
  OBVIOUS
<1>4. T = S
  BY <1>1, <1>2, <1>3, FS_Subset DEF Rank
<1>5. \A j \in S : j <= k
  BY <1>3, <1>4
<1>6. Innermost(S) \in S /\ \A j \in S : j <= Innermost(S)
  BY <1>5 DEF Innermost
<1>7. Innermost(S) = k
  <2>1. PICK i \in S : i = Innermost(S)
    BY <1>6
  <2>2. i <= k /\ k <= i
    BY <1>5, <1>6, <2>1
  <2>3. QED
    BY <2>1, <2>2
<1>8. QED
  BY <1>2, <1>6, <1>7

\* Call n + 1 is entered: its element goes on top.
LEMMA FitsPushed ==
    ASSUME NEW n \in Nat, NEW S, S \subseteq 1..n, NEW V, NEW s \in Seq(V), NEW x \in V,
           NEW f, NEW g, Fits(s, S, f), \A k \in S : g[k] = f[k], g[n + 1] = x
    PROVE  Fits(Append(s, x), S \cup {n + 1}, g)
<1>1. PICK c \in Nat : c = Cardinality(S) /\ Len(s) = c
  BY Picked DEF Fits
<1>2. PICK T : T = S \cup {n + 1}
  OBVIOUS
<1>3. Cardinality(T) = c + 1
  BY <1>1, <1>2, Picked, FS_AddElement
<1>4. \A k \in S : {j \in T : j <= k} = {j \in S : j <= k}
  BY <1>2
<1>5. \A k \in S : Rank(T, k) = Rank(S, k)
  BY <1>4 DEF Rank
<1>6. {j \in T : j <= n + 1} = T
  <2>1. \A j \in T : j <= n + 1
    BY <1>2
  <2>2. QED
    BY <2>1, Zenon
<1>7. Rank(T, n + 1) = c + 1
  BY <1>3, <1>6 DEF Rank
<1>8. \A k \in S : Rank(S, k) \in 1..c
  BY <1>1, Picked
<1>9. Len(Append(s, x)) = c + 1 /\ Append(s, x)[c + 1] = x
      /\ \A r \in 1..c : Append(s, x)[r] = s[r]
  BY <1>1
<1>10. \A k \in S : s[Rank(S, k)] = f[k]
  BY DEF Fits
<1>11. \A k \in T : Append(s, x)[Rank(T, k)] = g[k]
  BY <1>2, <1>5, <1>7, <1>8, <1>9, <1>10
<1>12. QED
  BY <1>2, <1>3, <1>9, <1>11 DEF Fits

\* The calls after m are left: their elements are taken off.
LEMMA FitsCut ==
    ASSUME NEW n \in Nat, NEW S, S \subseteq 1..n, NEW V, NEW s \in Seq(V), NEW m \in Nat,
           NEW f, NEW g, Fits(s, S, f), \A k \in S : k <= m => g[k] = f[k]
    PROVE  /\ Len(s) - Cardinality({k \in S : k > m}) \in 0..Len(s)
           /\ Fits(SubSeq(s, 1, Len(s) - Cardinality({k \in S : k > m})),
                   {k \in S : k <= m}, g)
<1>1. PICK T, U : T = {k \in S : k <= m} /\ U = {k \in S : k > m}
  OBVIOUS
<1>2. T \in SUBSET S /\ U \in SUBSET S /\ T = S \ U /\ S \cap U = U
  <2>1. \A k \in S : k <= m <=> ~ (k > m)
    OBVIOUS
  <2>2. QED
    BY <1>1, <2>1, Zenon
<1>3. /\ Cardinality(S) \in Nat /\ Cardinality(T) \in Nat /\ Cardinality(U) \in Nat
      /\ IsFiniteSet(S)
  BY <1>2, Picked
<1>4. Cardinality(T) = Cardinality(S) - Cardinality(U)
  <2>1. Cardinality(S \ U) = Cardinality(S) - Cardinality(S \cap U)
    BY <1>3, FS_Difference
  <2>2. QED
    BY <1>2, <2>1, Zenon
<1>5. PICK c \in 0..Len(s) : c = Cardinality(T) /\ c = Len(s) - Cardinality(U)
  BY <1>3, <1>4 DEF Fits
<1>6. \A k \in T : {j \in T : j <= k} = {j \in S : j <= k}
  <2>1. \A k \in T : \A j \in S : j <= k => j <= m
    BY <1>1
  <2>2. QED
    BY <1>1, <2>1, Zenon
<1>7. \A k \in T : Rank(T, k) = Rank(S, k)
  BY <1>6 DEF Rank
<1>8. T \subseteq 1..n
  BY <1>2
<1>9. \A k \in T : Rank(T, k) \in 1..c
  BY <1>5, <1>8, Picked
<1>10. Len(SubSeq(s, 1, c)) = c /\ \A r \in 1..c : SubSeq(s, 1, c)[r] = s[r]
  BY <1>5
<1>11. \A k \in S : s[Rank(S, k)] = f[k]
  BY DEF Fits
<1>12. \A k \in T : SubSeq(s, 1, c)[Rank(T, k)] = g[k]
  BY <1>1, <1>2, <1>7, <1>9, <1>10, <1>11
<1>13. Fits(SubSeq(s, 1, c), T, g)
  BY <1>5, <1>10, <1>12 DEF Fits
<1>14. QED
  BY <1>1, <1>5, <1>13

-----------------------------------------------------------------------------
(* Calls: what the proofs see of a goroutine's stack.                       *)

Own(p)        == IF p = Main THEN Root ELSE p
Depth(p)      == Len(frames[p])
KindOf(p, k)  == frames[p][k].kind
NameOf(p, k)  == frames[p][k].name
OnOf(p, k)    == frames[p][k].on
LexOf(p, k)   == frames[p][k].lex
EnvOf(p, k)   == frames[p][k].env
SavedOf(p, k) == frames[p][k].saved

\* Call k of p is what it was.
Same(p, k) ==
    /\ KindOf(p, k)' = KindOf(p, k) /\ NameOf(p, k)' = NameOf(p, k)
    /\ OnOf(p, k)' = OnOf(p, k) /\ LexOf(p, k)' = LexOf(p, k)
    /\ EnvOf(p, k)' = EnvOf(p, k) /\ SavedOf(p, k)' = SavedOf(p, k)

\* Call k of p is now this.
Becomes(p, k, kind, name, on, lex, e, s) ==
    /\ KindOf(p, k)' = kind /\ NameOf(p, k)' = name
    /\ OnOf(p, k)' = on /\ LexOf(p, k)' = lex
    /\ EnvOf(p, k)' = e /\ SavedOf(p, k)' = s

LEMMA OwnIs == ASSUME NEW p \in All PROVE Own(p) \in Interps
  BY DEF Own, All, Interps

LEMMA OwnsDiffer ==
    ASSUME NEW p \in All, NEW q \in All, p # q
    PROVE  Own(p) # Own(q) /\ (p # Main => Own(p) # Root)
  BY ScopesAssumption DEF Own, All

LEMMA FramesAre ==
    ASSUME frames \in [All -> Seq(Frame)], NEW p \in All
    PROVE  /\ Depth(p) \in Nat /\ frames[p] \in Seq(Frame)
           /\ frames[p] = <<>> <=> Depth(p) = 0
           /\ \A k \in 1..Depth(p) : frames[p][k] \in Frame
           /\ \A kind : Calls(p, kind) \subseteq 1..Depth(p)
           /\ \A kind : Calls(p, kind) = {k \in 1..Depth(p) : KindOf(p, k) = kind}
<1>1. PICK s \in Seq(Frame) : s = frames[p]
  OBVIOUS
<1>2. Len(s) \in Nat /\ (s = <<>> <=> Len(s) = 0) /\ \A k \in 1..Len(s) : s[k] \in Frame
  BY EmptySeq
<1>3. QED
  BY <1>1, <1>2 DEF Depth, Calls, KindOf

LEMMA FrameIs ==
    ASSUME frames \in [All -> Seq(Frame)], NEW p \in All, NEW k \in 1..Depth(p)
    PROVE  /\ OnOf(p, k) \in Interps /\ LexOf(p, k) \in Interps
           /\ NameOf(p, k) \in Names /\ EnvOf(p, k) \in Nat /\ SavedOf(p, k) \in Nat
<1>1. PICK f \in Frame : f = frames[p][k]
  BY FramesAre
<1>2. f.on \in Interps /\ f.lex \in Interps
  BY DEF Frame
<1>3. f.name \in Names
  BY DEF Frame
<1>4. f.env \in Nat /\ f.saved \in Nat
  BY DEF Frame
<1>5. QED
  BY <1>1, <1>2, <1>3, <1>4 DEF OnOf, LexOf, NameOf, EnvOf, SavedOf

\* One call more.
LEMMA CallAdded ==
    ASSUME frames \in [All -> Seq(Frame)], NEW p \in All, NEW n, n = Depth(p),
           NEW kind \in Kinds \cup {"body"}, NEW name \in Names, NEW on \in Interps,
           NEW lex \in Interps, NEW e \in Nat, NEW s \in Nat,
           frames' = [frames EXCEPT ![p] = Append(@,
               [kind |-> kind, name |-> name, on |-> on, lex |-> lex, env |-> e, saved |-> s])]
    PROVE  /\ frames' \in [All -> Seq(Frame)]
           /\ Depth(p)' = n + 1
           /\ \A k \in 1..n : Same(p, k)
           /\ Becomes(p, n + 1, kind, name, on, lex, e, s)
           /\ \A q \in All : q # p => frames'[q] = frames[q]
<1>1. PICK f : f = [kind |-> kind, name |-> name, on |-> on, lex |-> lex, env |-> e, saved |-> s]
  OBVIOUS
<1>2. f \in Frame
  BY <1>1 DEF Frame
<1>3. PICK t \in Seq(Frame) : t = frames[p] /\ Len(t) = n
  BY DEF Depth
<1>4. frames' = [frames EXCEPT ![p] = Append(t, f)]
  BY <1>1, <1>3
<1>5. /\ Append(t, f) \in Seq(Frame) /\ Len(Append(t, f)) = n + 1
      /\ \A k \in 1..n : Append(t, f)[k] = t[k]
      /\ Append(t, f)[n + 1] = f
  BY <1>2, <1>3
<1>6. frames'[p] = Append(t, f) /\ (\A q \in All : q # p => frames'[q] = frames[q])
  BY <1>4
<1>7. frames' \in [All -> Seq(Frame)]
  BY <1>4, <1>5, Zenon
<1>8. Depth(p)' = n + 1
  BY <1>5, <1>6 DEF Depth
<1>9. \A k \in 1..n : frames'[p][k] = frames[p][k]
  BY <1>3, <1>5, <1>6
<1>10. \A k \in 1..n : Same(p, k)
  BY <1>9, Zenon DEF Same, KindOf, NameOf, OnOf, LexOf, EnvOf, SavedOf
<1>11. frames'[p][n + 1] = f
  BY <1>5, <1>6
<1>12. f.kind = kind /\ f.name = name /\ f.on = on /\ f.lex = lex /\ f.env = e /\ f.saved = s
  BY <1>1, Zenon
<1>13. Becomes(p, n + 1, kind, name, on, lex, e, s)
  BY <1>11, <1>12, Zenon DEF Becomes, KindOf, NameOf, OnOf, LexOf, EnvOf, SavedOf
<1>14. QED
  BY <1>6, <1>7, <1>8, <1>10, <1>13

\* The first m calls are left.
LEMMA CallsCut ==
    ASSUME frames \in [All -> Seq(Frame)], NEW p \in All, NEW m \in 0..Depth(p),
           frames' = [frames EXCEPT ![p] = SubSeq(@, 1, m)]
    PROVE  /\ frames' \in [All -> Seq(Frame)]
           /\ Depth(p)' = m
           /\ \A k \in 1..m : Same(p, k)
           /\ \A q \in All : q # p => frames'[q] = frames[q]
<1>1. PICK t \in Seq(Frame) : t = frames[p] /\ m \in 0..Len(t)
  BY DEF Depth
<1>2. /\ SubSeq(t, 1, m) \in Seq(Frame) /\ Len(SubSeq(t, 1, m)) = m
      /\ \A k \in 1..m : SubSeq(t, 1, m)[k] = t[k]
  BY <1>1
<1>3. frames' = [frames EXCEPT ![p] = SubSeq(t, 1, m)]
  BY <1>1
<1>4. frames'[p] = SubSeq(t, 1, m) /\ (\A q \in All : q # p => frames'[q] = frames[q])
  BY <1>3
<1>5. frames' \in [All -> Seq(Frame)]
  BY <1>2, <1>3, Zenon
<1>6. Depth(p)' = m
  BY <1>2, <1>4 DEF Depth
<1>7. \A k \in 1..m : frames'[p][k] = frames[p][k]
  BY <1>1, <1>2, <1>4
<1>8. \A k \in 1..m : Same(p, k)
  BY <1>7, Zenon DEF Same, KindOf, NameOf, OnOf, LexOf, EnvOf, SavedOf
<1>9. QED
  BY <1>4, <1>5, <1>6, <1>8

LEMMA OthersSame ==
    ASSUME NEW q, frames'[q] = frames[q]
    PROVE  /\ Depth(q)' = Depth(q) /\ \A k : Same(q, k)
           /\ \A kind : Calls(q, kind)' = Calls(q, kind)
  BY DEF Depth, Same, Calls, KindOf, NameOf, OnOf, LexOf, EnvOf, SavedOf

-----------------------------------------------------------------------------
(* What a step does to the calls, whatever it does to the stacks.           *)

\* p, n calls deep, enters one more.
Deeper(p, n, kind, name, on, lex) ==
    /\ n = Depth(p) /\ n \in Nat /\ n >= 1 /\ p \in setup.procs /\ kind \in setup.kinds
    /\ setup' = setup /\ made' = made + 1 /\ made' \in 0..MaxMade
    /\ frames' \in [All -> Seq(Frame)]
    /\ Depth(p)' = n + 1
    /\ \A k \in 1..n : Same(p, k)
    /\ Becomes(p, n + 1, kind, name, on, lex, made + 1, env[on])
    /\ \A q \in All : q # p => frames'[q] = frames[q]
    /\ env' = [env EXCEPT ![on] = made + 1]

\* p leaves all its calls but the first m.
Cuts(p, m) ==
    /\ m \in 0..Depth(p) /\ setup' = setup /\ made' = made
    /\ frames' \in [All -> Seq(Frame)]
    /\ Depth(p)' = m
    /\ \A k \in 1..m : Same(p, k)
    /\ \A q \in All : q # p => frames'[q] = frames[q]

\* p begins.
Begins(p) ==
    /\ p \in Procs /\ p \in setup.procs /\ Depth(p) = 0
    /\ setup' = setup /\ made' = made + 1 /\ made' \in 0..MaxMade
    /\ frames' \in [All -> Seq(Frame)]
    /\ Depth(p)' = 1
    /\ Becomes(p, 1, "body", "-", p, p, made + 1, made + 1)
    /\ \A q \in All : q # p => frames'[q] = frames[q]
    /\ env' = [env EXCEPT ![p] = made + 1]

\* The types of all but the capabilities.
ScopesTyped ==
    /\ setup \in Setups
    /\ frames \in [All -> Seq(Frame)]
    /\ env \in [Interps -> 0..made]
    /\ effects \in Seq([name : Effects, by : 1..made])
    /\ sessions \in Seq(1..made)
    /\ made \in 0..MaxMade

\* A stack begins with a body on the goroutine's own interpreter, and has what
\* the setup allows, on that interpreter or on the root.
Shaped(p) ==
    /\ p \notin setup.procs => Depth(p) = IF p = Main THEN 1 ELSE 0
    /\ p = Main => Depth(p) >= 1
    /\ \A k \in 1..Depth(p) :
          /\ KindOf(p, k) \in IF k = 1 THEN {"body"} ELSE setup.kinds
          /\ OnOf(p, k) \in {Own(p), Root} /\ LexOf(p, k) \in {Own(p), Root}
          /\ k = 1 => OnOf(p, k) = Own(p) /\ LexOf(p, k) = Own(p)

LEMMA SetupIs ==
    ASSUME setup \in Setups
    PROVE  setup.procs \subseteq All /\ setup.kinds \subseteq Kinds /\ setup.panics \in BOOLEAN
<1>1. setup \in [procs : SUBSET All, kinds : SUBSET Kinds, panics : BOOLEAN]
  BY ScopesAssumption
<1>2. QED
  BY <1>1

LEMMA EnterDeepens ==
    ASSUME ScopesTyped, NEW p \in All, NEW n, n = Depth(p), NEW kind, NEW name \in Names,
           NEW on \in Interps, NEW lex \in Interps, Enter(p, kind, name, on, lex)
    PROVE  Deeper(p, n, kind, name, on, lex)
<1>1. kind \in Kinds
  BY SetupIs DEF Enter, ScopesTyped
<1>2. made \in Nat /\ made + 1 \in Nat /\ made + 1 \in 0..MaxMade
  BY ScopesAssumption DEF Enter, ScopesTyped
<1>3. env[on] \in Nat
  BY <1>2 DEF ScopesTyped
<1>4. frames' = [frames EXCEPT ![p] = Append(@,
         [kind |-> kind, name |-> name, on |-> on, lex |-> lex,
          env |-> made + 1, saved |-> env[on]])]
  BY DEF Enter
<1>5. /\ frames' \in [All -> Seq(Frame)]
      /\ Depth(p)' = n + 1
      /\ \A k \in 1..n : Same(p, k)
      /\ Becomes(p, n + 1, kind, name, on, lex, made + 1, env[on])
      /\ \A q \in All : q # p => frames'[q] = frames[q]
  <2>1. PICK e \in Nat : e = made + 1
    BY <1>2
  <2>2. PICK s \in Nat : s = env[on]
    BY <1>3
  <2>3. frames' = [frames EXCEPT ![p] = Append(@,
         [kind |-> kind, name |-> name, on |-> on, lex |-> lex, env |-> e, saved |-> s])]
    BY <1>4, <2>1, <2>2
  <2>4. frames \in [All -> Seq(Frame)] /\ kind \in Kinds \cup {"body"}
    BY <1>1 DEF ScopesTyped
  <2>5. /\ frames' \in [All -> Seq(Frame)]
        /\ Depth(p)' = n + 1
        /\ \A k \in 1..n : Same(p, k)
        /\ Becomes(p, n + 1, kind, name, on, lex, e, s)
        /\ \A q \in All : q # p => frames'[q] = frames[q]
    BY <2>3, <2>4, CallAdded
  <2>6. Becomes(p, n + 1, kind, name, on, lex, made + 1, env[on])
    BY <2>1, <2>2, <2>5 DEF Becomes
  <2>7. QED
    BY <2>5, <2>6
<1>6. n \in Nat /\ n >= 1
  BY FramesAre DEF Enter, Depth, ScopesTyped
<1>7. p \in setup.procs /\ kind \in setup.kinds /\ setup' = setup /\ made' = made + 1
      /\ env' = [env EXCEPT ![on] = made + 1]
  BY DEF Enter
<1>8. QED
  BY <1>2, <1>5, <1>6, <1>7 DEF Deeper

LEMMA BeginBegins ==
    ASSUME ScopesTyped, NEW p \in All, Begin(p)
    PROVE  Begins(p)
<1>1. p \in Procs /\ p \in setup.procs /\ frames[p] = <<>> /\ made < MaxMade
      /\ made' = made + 1 /\ setup' = setup /\ env' = [env EXCEPT ![p] = made + 1]
      /\ frames' = [frames EXCEPT ![p] = <<Body(p, made + 1)>>]
  BY DEF Begin
<1>2. PICK e \in Nat : e = made + 1 /\ e \in 0..MaxMade
  BY <1>1, ScopesAssumption DEF ScopesTyped
<1>3. Append(frames[p], Body(p, e)) = <<Body(p, e)>>
  BY <1>1
<1>4. frames' = [frames EXCEPT ![p] = Append(@, Body(p, e))]
  BY <1>1, <1>2, <1>3
<1>5. frames' = [frames EXCEPT ![p] = Append(@,
         [kind |-> "body", name |-> "-", on |-> p, lex |-> p, env |-> e, saved |-> e])]
  BY <1>4 DEF Body
<1>6. p \in Interps /\ "-" \in Names /\ "body" \in Kinds \cup {"body"}
  BY <1>1 DEF Interps, Names
<1>7. frames \in [All -> Seq(Frame)]
  BY DEF ScopesTyped
<1>8. PICK n \in Nat : n = Depth(p) /\ n = 0
  BY <1>1, <1>7, FramesAre
<1>9. /\ frames' \in [All -> Seq(Frame)]
      /\ Depth(p)' = n + 1
      /\ Becomes(p, n + 1, "body", "-", p, p, e, e)
      /\ \A q \in All : q # p => frames'[q] = frames[q]
  BY <1>5, <1>6, <1>7, <1>8, CallAdded
<1>10. Depth(p)' = 1 /\ Becomes(p, 1, "body", "-", p, p, made + 1, made + 1)
  BY <1>2, <1>8, <1>9
<1>11. made' \in 0..MaxMade
  BY <1>1, <1>2
<1>12. QED
  BY <1>1, <1>8, <1>9, <1>10, <1>11 DEF Begins

LEMMA ReturnCuts ==
    ASSUME ScopesTyped, NEW p \in All, NEW n, n = Depth(p), Return(p)
    PROVE  n \in Nat /\ n > 1 /\ Cuts(p, n - 1)
<1>1. frames \in [All -> Seq(Frame)]
  BY DEF ScopesTyped
<1>2. n \in Nat /\ n > 1
  BY <1>1, FramesAre DEF Return, Depth
<1>3. frames' = [frames EXCEPT ![p] = SubSeq(@, 1, n - 1)]
  BY DEF Return, DropLast, Depth
<1>4. n - 1 \in 0..Depth(p)
  BY <1>2
<1>5. setup' = setup /\ made' = made
  BY DEF Return
<1>6. QED
  BY <1>1, <1>2, <1>3, <1>4, <1>5, CallsCut DEF Cuts

LEMMA EndCuts ==
    ASSUME ScopesTyped, NEW p \in All, End(p)
    PROVE  Cuts(p, 0) /\ Depth(p) = 1 /\ p \in Procs
<1>1. frames \in [All -> Seq(Frame)]
  BY DEF ScopesTyped
<1>2. Depth(p) = 1 /\ p \in Procs
  BY DEF End, Depth
<1>3. PICK t \in Seq(Frame) : t = frames[p]
  BY <1>1
<1>4. SubSeq(t, 1, 0) = <<>>
  BY SubSeqEmpty
<1>5. frames' = [frames EXCEPT ![p] = SubSeq(@, 1, 0)]
  BY <1>3, <1>4 DEF End
<1>6. 0 \in 0..Depth(p)
  BY <1>2
<1>7. setup' = setup /\ made' = made
  BY DEF End
<1>8. QED
  BY <1>1, <1>2, <1>5, <1>6, <1>7, CallsCut DEF Cuts

\* A panic leaves the body of the script, and all calls around a transaction.
LEMMA LeftIs ==
    ASSUME ScopesTyped, NEW p \in All, Shaped(p), Depth(p) # 0
    PROVE  /\ Left(p) \in 0..Depth(p)
           /\ p = Main => Left(p) >= 1
           /\ Calls(p, "transaction") = {} => Left(p) = IF p = Main THEN 1 ELSE 0
<1>1. PICK n \in Nat : n = Depth(p)
  BY FramesAre DEF ScopesTyped
<1>2. PICK T : T = Calls(p, "transaction")
  OBVIOUS
<1>3. T \subseteq 1..n
  BY <1>1, <1>2, FramesAre DEF ScopesTyped
<1>4. T = {} => Left(p) = IF p = Main THEN 1 ELSE 0
  BY <1>2 DEF Left
<1>5. ASSUME T # {} PROVE Left(p) \in 1..n
  <2>1. PICK i \in T : i = Innermost(T)
    BY <1>3, <1>5, InnermostIs
  <2>2. KindOf(p, i) = "transaction" /\ i \in 1..n
    BY <1>1, <1>2, <1>3, FramesAre DEF ScopesTyped
  <2>3. i # 1
    BY <1>1, <2>2 DEF Shaped
  <2>4. Left(p) = i - 1
    BY <1>2, <1>5, <2>1 DEF Left
  <2>5. QED
    BY <2>2, <2>3, <2>4
<1>6. p = Main => n >= 1
  BY <1>1 DEF Shaped
<1>7. QED
  BY <1>1, <1>2, <1>4, <1>5, <1>6

LEMMA PanicCuts ==
    ASSUME ScopesTyped, NEW p \in All, Shaped(p), Panic(p)
    PROVE  Cuts(p, Left(p)) /\ Depth(p) # 0 /\ setup.panics
<1>1. frames \in [All -> Seq(Frame)]
  BY DEF ScopesTyped
<1>2. Depth(p) # 0 /\ setup.panics
  BY <1>1, FramesAre DEF Panic
<1>3. Left(p) \in 0..Depth(p)
  BY <1>2, LeftIs
<1>4. frames' = [frames EXCEPT ![p] = SubSeq(@, 1, Left(p))] /\ setup' = setup /\ made' = made
  BY DEF Panic
<1>5. QED
  BY <1>1, <1>2, <1>3, <1>4, CallsCut DEF Cuts

\* p enters a call, with what each kind of call does to the stacks.
Entry(p, n, kind, name, on, lex) ==
    /\ Deeper(p, n, kind, name, on, lex)
    /\ on \in {Own(p), Root} /\ lex \in {Own(p), Root} /\ name \in Names
    /\ kind \in {"call", "handle"} => on = OnOf(p, n) /\ lex = LexOf(p, n)
    /\ kind = "capability" => on = LexOf(p, n) /\ lex = LexOf(p, n)
    /\ kind = "tool" => n = 1 /\ on = Root /\ lex = Root
    /\ IF kind = "handle"
       THEN name \in Effects /\ effects' = Append(effects, [name |-> name, by |-> made + 1])
       ELSE effects' = effects
    /\ sessions' = IF kind = "session" THEN Append(sessions, made + 1) ELSE sessions
    /\ IF kind = "capability" THEN AppendCap(on, name) ELSE caps' = caps /\ arrays' = arrays

Entering(p) ==
    \/ Call(p) \/ CallGlobal(p) \/ Tool(p)
    \/ \E c \in Caps : WithCapability(p, c)
    \/ \E e \in Effects : Handle(p, e)
    \/ WithSession(p) \/ Transaction(p)

LEMMA EntersAre ==
    ASSUME ScopesTyped, NEW p \in All, Shaped(p), NEW n, n = Depth(p), Entering(p)
    PROVE  \E kind, name, on, lex : Entry(p, n, kind, name, on, lex)
<1>1. frames \in [All -> Seq(Frame)] /\ n \in Nat
  BY FramesAre DEF ScopesTyped
<1>2. n >= 1
  <2>1. Len(frames[p]) > 0 \/ Len(frames[p]) = 1
    BY Zenon DEF Entering, Call, CallGlobal, Tool, WithCapability, Handle, WithSession,
                 Transaction
  <2>2. QED
    BY <1>1, <2>1 DEF Depth
<1>3. PICK on, lex : on = OnOf(p, n) /\ lex = LexOf(p, n)
  OBVIOUS
<1>4. Top(p).on = on /\ Top(p).lex = lex
  BY <1>3 DEF Top, OnOf, LexOf, Depth
<1>5. /\ on \in {Own(p), Root} /\ lex \in {Own(p), Root} /\ Root \in {Own(p), Root}
      /\ on \in Interps /\ lex \in Interps /\ Root \in Interps
  BY <1>1, <1>2, <1>3, FrameIs DEF Shaped, Interps
<1>6. "-" \in Names /\ Caps \subseteq Names /\ Effects \subseteq Names
  BY DEF Names
<1>7. CASE Call(p)
  <2>1. Enter(p, "call", "-", on, lex) /\ UNCHANGED <<caps, arrays, effects, sessions>>
    BY <1>4, <1>7 DEF Call
  <2>2. Deeper(p, n, "call", "-", on, lex)
    BY <1>5, <1>6, <2>1, EnterDeepens
  <2>3. Entry(p, n, "call", "-", on, lex)
    BY <1>3, <1>5, <1>6, <2>1, <2>2 DEF Entry
  <2>4. QED
    BY <2>3
<1>8. CASE CallGlobal(p)
  <2>1. Enter(p, "global", "-", on, Root) /\ UNCHANGED <<caps, arrays, effects, sessions>>
    BY <1>4, <1>8 DEF CallGlobal
  <2>2. Deeper(p, n, "global", "-", on, Root)
    BY <1>5, <1>6, <2>1, EnterDeepens
  <2>3. Entry(p, n, "global", "-", on, Root)
    BY <1>3, <1>5, <1>6, <2>1, <2>2 DEF Entry
  <2>4. QED
    BY <2>3
<1>9. CASE Tool(p)
  <2>1. Enter(p, "tool", "-", Root, Root) /\ UNCHANGED <<caps, arrays, effects, sessions>>
        /\ n = 1
    BY <1>9 DEF Tool, Depth
  <2>2. Deeper(p, n, "tool", "-", Root, Root)
    BY <1>5, <1>6, <2>1, EnterDeepens
  <2>3. Entry(p, n, "tool", "-", Root, Root)
    BY <1>5, <1>6, <2>1, <2>2 DEF Entry
  <2>4. QED
    BY <2>3
<1>10. ASSUME NEW c \in Caps, WithCapability(p, c)
       PROVE  \E kind, name, i, j : Entry(p, n, kind, name, i, j)
  <2>1. Enter(p, "capability", c, lex, lex) /\ AppendCap(lex, c) /\ UNCHANGED <<effects, sessions>>
    BY <1>4, <1>10 DEF WithCapability
  <2>2. Deeper(p, n, "capability", c, lex, lex)
    BY <1>5, <1>6, <2>1, EnterDeepens
  <2>3. Entry(p, n, "capability", c, lex, lex)
    BY <1>3, <1>5, <1>6, <2>1, <2>2 DEF Entry
  <2>4. QED
    BY <2>3
<1>11. ASSUME NEW e \in Effects, Handle(p, e)
       PROVE  \E kind, name, i, j : Entry(p, n, kind, name, i, j)
  <2>1. Enter(p, "handle", e, on, lex) /\ UNCHANGED <<caps, arrays, sessions>>
        /\ effects' = Append(effects, [name |-> e, by |-> made + 1])
    BY <1>4, <1>11 DEF Handle
  <2>2. Deeper(p, n, "handle", e, on, lex)
    BY <1>5, <1>6, <2>1, EnterDeepens
  <2>3. Entry(p, n, "handle", e, on, lex)
    BY <1>3, <1>5, <1>6, <2>1, <2>2 DEF Entry
  <2>4. QED
    BY <2>3
<1>12. CASE WithSession(p)
  <2>1. Enter(p, "session", "-", Root, lex) /\ UNCHANGED <<caps, arrays, effects>>
        /\ sessions' = Append(sessions, made + 1)
    BY <1>4, <1>12 DEF WithSession
  <2>2. Deeper(p, n, "session", "-", Root, lex)
    BY <1>5, <1>6, <2>1, EnterDeepens
  <2>3. Entry(p, n, "session", "-", Root, lex)
    BY <1>3, <1>5, <1>6, <2>1, <2>2 DEF Entry
  <2>4. QED
    BY <2>3
<1>13. CASE Transaction(p)
  <2>1. Enter(p, "transaction", "-", Root, lex) /\ UNCHANGED <<caps, arrays, effects, sessions>>
    BY <1>4, <1>13 DEF Transaction
  <2>2. Deeper(p, n, "transaction", "-", Root, lex)
    BY <1>5, <1>6, <2>1, EnterDeepens
  <2>3. Entry(p, n, "transaction", "-", Root, lex)
    BY <1>3, <1>5, <1>6, <2>1, <2>2 DEF Entry
  <2>4. QED
    BY <2>3
<1>14. QED
  BY <1>7, <1>8, <1>9, <1>10, <1>11, <1>12, <1>13 DEF Entering

LEMMA StepsAre ==
    ASSUME NEW p \in All, Step(p)
    PROVE  Entering(p) \/ Begin(p) \/ End(p) \/ Return(p) \/ Panic(p)
  BY DEF Step, Entering

-----------------------------------------------------------------------------
(* The shape of the stacks of calls.                                        *)

LEMMA ShapeSame ==
    ASSUME NEW q, Shaped(q), frames'[q] = frames[q], setup' = setup
    PROVE  Shaped(q)'
<1>1. Depth(q)' = Depth(q) /\ \A k : Same(q, k)
  BY OthersSame
<1>2. QED
  BY <1>1 DEF Shaped, Same

LEMMA ShapeDeeper ==
    ASSUME NEW p \in All, Shaped(p), NEW n, NEW kind, NEW name, NEW on, NEW lex,
           Deeper(p, n, kind, name, on, lex),
           on \in {Own(p), Root}, lex \in {Own(p), Root}
    PROVE  Shaped(p)'
<1>1. n \in Nat /\ n >= 1 /\ p \in setup'.procs /\ kind \in setup'.kinds /\ setup' = setup
      /\ Depth(p)' = n + 1 /\ Depth(p) = n
  BY DEF Deeper
<1>2. \A k \in 1..n : KindOf(p, k)' = KindOf(p, k) /\ OnOf(p, k)' = OnOf(p, k)
                       /\ LexOf(p, k)' = LexOf(p, k)
  BY DEF Deeper, Same
<1>3. KindOf(p, n + 1)' = kind /\ OnOf(p, n + 1)' = on /\ LexOf(p, n + 1)' = lex
  BY DEF Deeper, Becomes
<1>4. QED
  BY <1>1, <1>2, <1>3 DEF Shaped

LEMMA ShapeCut ==
    ASSUME NEW p \in All, Shaped(p), NEW m, Cuts(p, m),
           p \notin setup.procs => m = Depth(p), p = Main => m >= 1, Depth(p) \in Nat
    PROVE  Shaped(p)'
<1>1. m \in 0..Depth(p) /\ setup' = setup /\ Depth(p)' = m
  BY DEF Cuts
<1>2. \A k \in 1..m : KindOf(p, k)' = KindOf(p, k) /\ OnOf(p, k)' = OnOf(p, k)
                       /\ LexOf(p, k)' = LexOf(p, k)
  BY DEF Cuts, Same
<1>3. QED
  BY <1>1, <1>2 DEF Shaped

LEMMA ShapeBegins ==
    ASSUME NEW p \in All, Begins(p)
    PROVE  Shaped(p)'
<1>1. p # Main /\ p \in setup'.procs /\ Depth(p)' = 1 /\ Own(p) = p
  BY ScopesAssumption DEF Begins, Own
<1>2. KindOf(p, 1)' = "body" /\ OnOf(p, 1)' = p /\ LexOf(p, 1)' = p
  BY DEF Begins, Becomes
<1>3. QED
  BY <1>1, <1>2 DEF Shaped

\* A goroutine the setup does not have does nothing, or panics to no avail.
LEMMA IdleCuts ==
    ASSUME ScopesTyped, NEW p \in All, Shaped(p), p \notin setup.procs,
           End(p) \/ Return(p) \/ Panic(p)
    PROVE  Panic(p) /\ p = Main /\ Left(p) = 1 /\ Depth(p) = 1 /\ frames' = frames
           /\ \A kind \in Kinds : Calls(p, kind) = {}
<1>1. frames \in [All -> Seq(Frame)] /\ Depth(p) = IF p = Main THEN 1 ELSE 0
  BY DEF ScopesTyped, Shaped
<1>2. Panic(p)
  <2>1. End(p) => p # Main /\ Depth(p) = 1
    BY ScopesAssumption DEF End, Depth
  <2>2. Return(p) => Depth(p) > 1
    BY DEF Return, Depth
  <2>3. QED
    BY <1>1, <2>1, <2>2
<1>3. Depth(p) # 0
  BY <1>1, <1>2, FramesAre DEF Panic
<1>4. p = Main /\ Depth(p) = 1
  BY <1>1, <1>3
<1>5. ASSUME NEW kind \in Kinds PROVE Calls(p, kind) = {}
  <2>1. KindOf(p, 1) = "body" /\ kind # "body"
    BY <1>4 DEF Shaped, Kinds
  <2>2. QED
    BY <1>1, <1>4, <2>1, FramesAre
<1>6. Left(p) = 1
  BY <1>3, <1>4, <1>5, LeftIs DEF Kinds
<1>7. frames' = frames
  <2>1. PICK t \in Seq(Frame) : t = frames[p] /\ Len(t) = 1
    BY <1>1, <1>4 DEF Depth
  <2>2. SubSeq(t, 1, 1) = t
    BY <2>1, SubSeqFull
  <2>3. frames' = [frames EXCEPT ![p] = t]
    BY <1>2, <1>6, <2>1, <2>2 DEF Panic
  <2>4. QED
    BY <1>1, <2>1, <2>3
<1>8. QED
  BY <1>2, <1>4, <1>5, <1>6, <1>7

LEMMA CallsDeeper ==
    ASSUME frames \in [All -> Seq(Frame)], NEW p \in All, NEW n, NEW kind, NEW name, NEW on,
           NEW lex, Deeper(p, n, kind, name, on, lex)
    PROVE  \A c : Calls(p, c)' = IF c = kind THEN Calls(p, c) \cup {n + 1} ELSE Calls(p, c)
<1>1. n \in Nat /\ Depth(p) = n /\ Depth(p)' = n + 1 /\ KindOf(p, n + 1)' = kind
      /\ \A k \in 1..n : KindOf(p, k)' = KindOf(p, k)
  BY DEF Deeper, Same, Becomes
<1>2. \A c : Calls(p, c) = {k \in 1..n : KindOf(p, k) = c}
  BY <1>1 DEF Calls, Depth, KindOf
<1>3. \A c : Calls(p, c)' = {k \in 1..n + 1 : KindOf(p, k)' = c}
  BY <1>1 DEF Calls, Depth, KindOf
<1>4. ASSUME NEW c
      PROVE  Calls(p, c)' = IF c = kind THEN Calls(p, c) \cup {n + 1} ELSE Calls(p, c)
  <2>1. 1..n + 1 = (1..n) \cup {n + 1}
    BY <1>1
  <2>2. \A k : k \in Calls(p, c)' <=> k \in 1..n + 1 /\ KindOf(p, k)' = c
    BY <1>3, Zenon
  <2>3. \A k : k \in Calls(p, c) <=> k \in 1..n /\ KindOf(p, k) = c
    BY <1>2, Zenon
  <2>4. n + 1 \in 1..n + 1 /\ n + 1 \notin 1..n
    BY <1>1
  <2>5. ASSUME NEW k
        PROVE  k \in Calls(p, c)' <=> k \in Calls(p, c) \/ (k = n + 1 /\ c = kind)
    <3>1. k \in 1..n + 1 <=> k \in 1..n \/ k = n + 1
      BY <2>1
    <3>2. QED
      BY <1>1, <2>2, <2>3, <2>4, <3>1, Zenon
  <2>6. QED
    BY <2>5, Zenon
<1>5. QED
  BY <1>4

LEMMA CallsLeft ==
    ASSUME NEW p \in All, NEW m, Cuts(p, m), Depth(p) \in Nat
    PROVE  \A c : Calls(p, c)' = {k \in Calls(p, c) : k <= m}
<1>1. m \in 0..Depth(p) /\ Depth(p)' = m /\ \A k \in 1..m : KindOf(p, k)' = KindOf(p, k)
  BY DEF Cuts, Same
<1>2. \A c : Calls(p, c) = {k \in 1..Depth(p) : KindOf(p, k) = c}
  BY DEF Calls, Depth, KindOf
<1>3. \A c : Calls(p, c)' = {k \in 1..m : KindOf(p, k)' = c}
  BY <1>1 DEF Calls, Depth, KindOf
<1>4. QED
  BY <1>1, <1>2, <1>3

LEMMA CallsBegun ==
    ASSUME NEW p \in All, Begins(p)
    PROVE  \A c \in Kinds : Calls(p, c)' = {} /\ Calls(p, c) = {}
<1>1. Depth(p) = 0 /\ Depth(p)' = 1 /\ KindOf(p, 1)' = "body" /\ "body" \notin Kinds
  BY DEF Begins, Becomes, Kinds
<1>2. \A c : Calls(p, c)' = {k \in 1..1 : KindOf(p, k)' = c}
  BY <1>1 DEF Calls, Depth, KindOf
<1>3. \A c : Calls(p, c) = {k \in 1..0 : KindOf(p, k) = c}
  BY <1>1 DEF Calls, Depth, KindOf
<1>4. ASSUME NEW c \in Kinds PROVE Calls(p, c)' = {} /\ Calls(p, c) = {}
  <2>1. \A k \in 1..1 : KindOf(p, k)' # c
    BY <1>1
  <2>2. 1..0 = {}
    OBVIOUS
  <2>3. QED
    BY <1>2, <1>3, <2>1, <2>2
<1>5. QED
  BY <1>4

-----------------------------------------------------------------------------
(* The types.                                                               *)

\* What will be restored was once made.
SavedFit(p) == \A k \in 1..Depth(p) : SavedOf(p, k) \in 0..made

TypedInv == ScopesTyped /\ \A p \in All : Shaped(p) /\ SavedFit(p)

LEMMA SeqGrows ==
    ASSUME NEW S, NEW T, S \subseteq T, NEW s \in Seq(S)
    PROVE  s \in Seq(T)
  OBVIOUS

LEMMA SeqCut ==
    ASSUME NEW S, NEW s \in Seq(S), NEW c \in Nat
    PROVE  SubSeq(s, 1, Len(s) - c) \in Seq(S)
<1>1. Len(s) - c \in Int /\ \A i \in 1..Len(s) - c : s[i] \in S
  OBVIOUS
<1>2. QED
  BY <1>1, SubSeqProperties

LEMMA TypedBegins == Init => TypedInv
<1> SUFFICES ASSUME Init PROVE TypedInv
  OBVIOUS
<1>1. /\ setup \in Setups /\ made = 0 /\ effects = <<>> /\ sessions = <<>>
      /\ env = [i \in Interps |-> 0]
      /\ frames = [p \in All |-> IF p = Main THEN <<Body(Root, 0)>> ELSE <<>>]
  BY DEF Init
<1>2. Body(Root, 0) \in Frame
  <2>1. Root \in Interps /\ "-" \in Names /\ "body" \in Kinds \cup {"body"} /\ 0 \in Nat
    BY DEF Interps, Names
  <2>2. QED
    BY <2>1 DEF Body, Frame
<1>3. frames \in [All -> Seq(Frame)]
  <2>1. <<Body(Root, 0)>> \in Seq(Frame) /\ <<>> \in Seq(Frame)
    BY <1>2
  <2>2. QED
    BY <1>1, <2>1
<1>4. ScopesTyped
  <2>1. <<>> \in Seq([name : Effects, by : 1..made])
    OBVIOUS
  <2>2. <<>> \in Seq(1..made)
    OBVIOUS
  <2>3. env \in [Interps -> 0..made] /\ made \in 0..MaxMade
    BY <1>1, ScopesAssumption
  <2>4. QED
    BY <1>1, <1>3, <2>1, <2>2, <2>3, Zenon DEF ScopesTyped
<1>5. ASSUME NEW p \in All PROVE Shaped(p) /\ SavedFit(p)
  <2>1. CASE p = Main
    <3>1. frames[p] = <<Body(Root, 0)>>
      BY <1>1, <2>1
    <3>2. Depth(p) = 1 /\ frames[p][1] = Body(Root, 0) /\ Own(p) = Root
      BY <2>1, <3>1 DEF Depth, Own
    <3> PICK f : f = Body(Root, 0)
      OBVIOUS
    <3>a. f.kind = "body" /\ f.on = Root /\ f.lex = Root /\ f.saved = 0
      BY Zenon DEF Body
    <3>3. KindOf(p, 1) = "body" /\ OnOf(p, 1) = Root /\ LexOf(p, 1) = Root
      BY <3>2, <3>a, Zenon DEF KindOf, OnOf, LexOf
    <3>4. SavedOf(p, 1) = 0
      BY <3>2, <3>a, Zenon DEF SavedOf
    <3>5. Shaped(p)
      BY <2>1, <3>2, <3>3 DEF Shaped
    <3>6. QED
      BY <1>1, <3>2, <3>4, <3>5 DEF SavedFit
  <2>2. CASE p # Main
    <3>1. Depth(p) = 0
      BY <1>1, <2>2 DEF Depth
    <3>2. QED
      BY <2>2, <3>1 DEF Shaped, SavedFit
  <2>3. QED
    BY <2>1, <2>2
<1>6. QED
  BY <1>4, <1>5 DEF TypedInv

LEMMA SavedSame ==
    ASSUME NEW q, SavedFit(q), frames'[q] = frames[q], made \in Nat, made' \in {made, made + 1}
    PROVE  SavedFit(q)'
<1>1. Depth(q)' = Depth(q) /\ \A k : SavedOf(q, k)' = SavedOf(q, k)
  BY DEF Depth, SavedOf
<1>2. QED
  BY <1>1 DEF SavedFit

\* The stacks, by what a step does to them.
LEMMA StacksTyped ==
    ASSUME ScopesTyped, made' \in {made, made + 1},
           \/ effects' = effects
           \/ \E c \in Nat : effects' = SubSeq(effects, 1, Len(effects) - c)
           \/ made' = made + 1 /\ \E e \in Effects :
                effects' = Append(effects, [name |-> e, by |-> made + 1]),
           \/ sessions' = sessions
           \/ \E c \in Nat : sessions' = SubSeq(sessions, 1, Len(sessions) - c)
           \/ made' = made + 1 /\ sessions' = Append(sessions, made + 1)
    PROVE  /\ effects' \in Seq([name : Effects, by : 1..made'])
           /\ sessions' \in Seq(1..made')
<1>1. PICK E, F : E = [name : Effects, by : 1..made] /\ F = [name : Effects, by : 1..made']
  OBVIOUS
<1>2. made \in Nat /\ 1..made \subseteq 1..made'
  BY ScopesAssumption DEF ScopesTyped
<1>3. E \subseteq F
  BY <1>1, <1>2
<1>4. effects \in Seq(F)
  <2>1. effects \in Seq(E)
    BY <1>1, Zenon DEF ScopesTyped
  <2>2. QED
    BY <1>3, <2>1, SeqGrows
<1>5. sessions \in Seq(1..made) /\ sessions \in Seq(1..made')
  BY <1>2, SeqGrows DEF ScopesTyped
<1>6. effects' \in Seq(F)
  <2>1. ASSUME NEW c \in Nat PROVE SubSeq(effects, 1, Len(effects) - c) \in Seq(F)
    BY <1>4, SeqCut
  <2>2. ASSUME NEW e \in Effects, made' = made + 1
        PROVE  Append(effects, [name |-> e, by |-> made + 1]) \in Seq(F)
    <3>1. made + 1 \in 1..made'
      BY <1>2, <2>2
    <3>2. [name |-> e, by |-> made + 1] \in F
      BY <1>1, <3>1
    <3>3. QED
      BY <1>4, <3>2
  <2>3. QED
    BY <1>4, <2>1, <2>2, Zenon
<1>7. sessions' \in Seq(1..made')
  <2>1. ASSUME NEW c \in Nat PROVE SubSeq(sessions, 1, Len(sessions) - c) \in Seq(1..made')
    BY <1>5, SeqCut
  <2>2. ASSUME made' = made + 1 PROVE Append(sessions, made + 1) \in Seq(1..made')
    <3>1. made + 1 \in 1..made'
      BY <1>2, <2>2
    <3>2. QED
      BY <1>5, <3>1
  <2>3. QED
    BY <1>5, <2>1, <2>2, Zenon
<1>8. QED
  BY <1>1, <1>6, <1>7

LEMMA TypedDeeper ==
    ASSUME TypedInv, NEW p \in All, NEW n, NEW kind, NEW name, NEW on, NEW lex,
           Entry(p, n, kind, name, on, lex)
    PROVE  TypedInv'
<1>1. ScopesTyped /\ Deeper(p, n, kind, name, on, lex) /\ on \in {Own(p), Root}
      /\ lex \in {Own(p), Root}
  BY DEF TypedInv, Entry
<1>2. on \in Interps /\ made \in Nat
  BY <1>1, OwnIs, ScopesAssumption DEF Interps, ScopesTyped
<1>3. setup' = setup /\ made' = made + 1 /\ made' \in 0..MaxMade
      /\ frames' \in [All -> Seq(Frame)] /\ env' = [env EXCEPT ![on] = made + 1]
      /\ (\A q \in All : q # p => frames'[q] = frames[q])
  BY <1>1 DEF Deeper
<1>4. env' \in [Interps -> 0..made']
  <2>1. env \in [Interps -> 0..made] /\ 0..made \subseteq 0..made' /\ made + 1 \in 0..made'
    BY <1>1, <1>2, <1>3 DEF ScopesTyped
  <2>2. QED
    BY <1>2, <1>3, <2>1
<1>5. effects' \in Seq([name : Effects, by : 1..made']) /\ sessions' \in Seq(1..made')
  <2>1. \/ effects' = effects
        \/ \E e \in Effects : effects' = Append(effects, [name |-> e, by |-> made + 1])
    BY Zenon DEF Entry
  <2>2. sessions' = sessions \/ sessions' = Append(sessions, made + 1)
    BY Zenon DEF Entry
  <2>3. QED
    BY <1>1, <1>3, <2>1, <2>2, StacksTyped, Zenon
<1>6. ScopesTyped'
  BY <1>1, <1>3, <1>4, <1>5 DEF ScopesTyped
<1>7. ASSUME NEW q \in All PROVE Shaped(q)' /\ SavedFit(q)'
  <2>1. Shaped(q) /\ SavedFit(q)
    BY DEF TypedInv
  <2>2. CASE q # p
    BY <1>2, <1>3, <2>1, <2>2, ShapeSame, SavedSame
  <2>3. CASE q = p
    <3>1. Shaped(p)'
      BY <1>1, <2>1, <2>3, ShapeDeeper
    <3>2. n \in Nat /\ Depth(p) = n /\ Depth(p)' = n + 1 /\ SavedOf(p, n + 1)' = env[on]
          /\ \A k \in 1..n : SavedOf(p, k)' = SavedOf(p, k)
      BY <1>1 DEF Deeper, Same, Becomes
    <3>3. env[on] \in 0..made
      BY <1>1, <1>2 DEF ScopesTyped
    <3>4. SavedFit(p)'
      BY <1>2, <1>3, <2>1, <2>3, <3>2, <3>3 DEF SavedFit
    <3>5. QED
      BY <2>3, <3>1, <3>4
  <2>4. QED
    BY <2>2, <2>3
<1>8. QED
  BY <1>6, <1>7 DEF TypedInv

LEMMA TypedBegun ==
    ASSUME TypedInv, NEW p \in All, Begins(p), effects' = effects, sessions' = sessions
    PROVE  TypedInv'
<1>1. ScopesTyped /\ made \in Nat /\ p \in Interps
  BY ScopesAssumption DEF TypedInv, ScopesTyped, Begins, Interps
<1>2. setup' = setup /\ made' = made + 1 /\ made' \in 0..MaxMade
      /\ frames' \in [All -> Seq(Frame)] /\ env' = [env EXCEPT ![p] = made + 1]
      /\ (\A q \in All : q # p => frames'[q] = frames[q])
  BY DEF Begins
<1>3. env' \in [Interps -> 0..made']
  <2>1. env \in [Interps -> 0..made] /\ 0..made \subseteq 0..made' /\ made + 1 \in 0..made'
    BY <1>1, <1>2 DEF ScopesTyped
  <2>2. QED
    BY <1>1, <1>2, <2>1
<1>4. effects' \in Seq([name : Effects, by : 1..made']) /\ sessions' \in Seq(1..made')
  BY <1>1, <1>2, StacksTyped, Zenon
<1>5. ScopesTyped'
  BY <1>1, <1>2, <1>3, <1>4 DEF ScopesTyped
<1>6. ASSUME NEW q \in All PROVE Shaped(q)' /\ SavedFit(q)'
  <2>1. Shaped(q) /\ SavedFit(q)
    BY DEF TypedInv
  <2>2. CASE q # p
    BY <1>1, <1>2, <2>1, <2>2, ShapeSame, SavedSame
  <2>3. CASE q = p
    <3>1. Shaped(p)'
      BY ShapeBegins
    <3>2. Depth(p)' = 1 /\ SavedOf(p, 1)' = made + 1
      BY DEF Begins, Becomes
    <3>3. SavedFit(p)'
      BY <1>1, <1>2, <3>2 DEF SavedFit
    <3>4. QED
      BY <2>3, <3>1, <3>3
  <2>4. QED
    BY <2>2, <2>3
<1>7. QED
  BY <1>5, <1>6 DEF TypedInv

LEMMA TypedCut ==
    ASSUME TypedInv, NEW p \in All, NEW m, Cuts(p, m),
           p \notin setup.procs => m = Depth(p), p = Main => m >= 1,
           env' \in [Interps -> 0..made],
           \E c \in Nat : effects' = effects \/ effects' = SubSeq(effects, 1, Len(effects) - c),
           \E c \in Nat : sessions' = sessions \/ sessions' = SubSeq(sessions, 1, Len(sessions) - c)
    PROVE  TypedInv'
<1>1. ScopesTyped /\ made \in Nat /\ Depth(p) \in Nat
  BY ScopesAssumption, FramesAre DEF TypedInv, ScopesTyped
<1>2. setup' = setup /\ made' = made /\ frames' \in [All -> Seq(Frame)]
      /\ (\A q \in All : q # p => frames'[q] = frames[q])
  BY DEF Cuts
<1>3. effects' \in Seq([name : Effects, by : 1..made']) /\ sessions' \in Seq(1..made')
  BY <1>1, <1>2, StacksTyped, Zenon
<1>4. ScopesTyped'
  BY <1>1, <1>2, <1>3 DEF ScopesTyped
<1>5. ASSUME NEW q \in All PROVE Shaped(q)' /\ SavedFit(q)'
  <2>1. Shaped(q) /\ SavedFit(q)
    BY DEF TypedInv
  <2>2. CASE q # p
    BY <1>1, <1>2, <2>1, <2>2, ShapeSame, SavedSame
  <2>3. CASE q = p
    <3>1. Shaped(p)'
      BY <1>1, <2>1, <2>3, ShapeCut
    <3>2. m \in 0..Depth(p) /\ Depth(p)' = m /\ \A k \in 1..m : SavedOf(p, k)' = SavedOf(p, k)
      BY DEF Cuts, Same
    <3>3. SavedFit(p)'
      BY <1>1, <1>2, <2>1, <2>3, <3>2 DEF SavedFit
    <3>4. QED
      BY <2>3, <3>1, <3>3
  <2>4. QED
    BY <2>2, <2>3
<1>6. QED
  BY <1>4, <1>5 DEF TypedInv

LEMMA UnwoundIs ==
    ASSUME ScopesTyped, NEW p \in All, NEW kind
    PROVE  /\ Unwound(p, kind) = {k \in Calls(p, kind) : k > Left(p)}
           /\ Cardinality(Unwound(p, kind)) \in Nat
           /\ \A S \in SUBSET Unwound(p, kind) : Cardinality(S) \in Nat
<1>1. Unwound(p, kind) = {k \in Calls(p, kind) : k > Left(p)}
  BY DEF Unwound
<1>2. PICK n \in Nat : n = Depth(p) /\ Calls(p, kind) \subseteq 1..n
  BY FramesAre DEF ScopesTyped
<1>3. Unwound(p, kind) \subseteq 1..n
  BY <1>1, <1>2, Zenon
<1>4. Cardinality(Unwound(p, kind)) \in Nat
      /\ \A S \in SUBSET Unwound(p, kind) : Cardinality(S) \in 0..Cardinality(Unwound(p, kind))
  BY <1>3, Picked, Zenon
<1>5. QED
  BY <1>1, <1>4

LEMMA TypedKeeps ==
    ASSUME TypedInv, NEW p \in All, Step(p)
    PROVE  TypedInv'
<1>1. ScopesTyped /\ Shaped(p) /\ SavedFit(p) /\ env \in [Interps -> 0..made]
  BY DEF TypedInv, ScopesTyped
<1>2. PICK n \in Nat : n = Depth(p)
  BY <1>1, FramesAre DEF ScopesTyped
<1>3. CASE Entering(p)
  <2>1. PICK kind, name, on, lex : Entry(p, n, kind, name, on, lex)
    BY <1>1, <1>2, <1>3, EntersAre
  <2>2. QED
    BY <2>1, TypedDeeper
<1>4. CASE Begin(p)
  <2>1. Begins(p)
    BY <1>1, <1>4, BeginBegins
  <2>2. effects' = effects /\ sessions' = sessions
    BY <1>4 DEF Begin
  <2>3. QED
    BY <2>1, <2>2, TypedBegun
<1>5. ASSUME p \notin setup.procs, End(p) \/ Return(p) \/ Panic(p)
      PROVE  Panic(p) /\ p = Main /\ Left(p) = Depth(p)
  BY <1>1, <1>5, IdleCuts
<1>6. CASE End(p)
  <2>1. Cuts(p, 0) /\ p # Main /\ p \in setup.procs
    BY <1>1, <1>5, <1>6, EndCuts, ScopesAssumption
  <2>2. effects' = effects /\ sessions' = sessions /\ env' = env
    BY <1>6 DEF End
  <2>3. 0 \in Nat
    OBVIOUS
  <2>4. QED
    BY <1>1, <2>1, <2>2, <2>3, TypedCut
<1>7. CASE Return(p)
  <2>1. n > 1 /\ Cuts(p, n - 1)
    BY <1>1, <1>2, <1>7, ReturnCuts
  <2>2. p \in setup.procs
    BY <1>1, <1>2, <2>1 DEF Shaped
  <2>3. n \in 1..Depth(p)
    BY <1>2, <2>1
  <2>4. PICK on \in Interps, s \in 0..made : on = OnOf(p, n) /\ s = SavedOf(p, n)
    BY <1>1, <2>3, FrameIs DEF SavedFit, ScopesTyped
  <2>5. env' = [env EXCEPT ![on] = s]
    BY <1>2, <1>7, <2>4 DEF Return, Top, OnOf, SavedOf, Depth
  <2>6. env' \in [Interps -> 0..made]
    BY <1>1, <2>4, <2>5
  <2>7. (effects' = effects \/ effects' = SubSeq(effects, 1, Len(effects) - 1))
        /\ (sessions' = sessions \/ sessions' = SubSeq(sessions, 1, Len(sessions) - 1))
    BY <1>7, Zenon DEF Return, PopIf, DropLast
  <2>8. n - 1 >= 1 /\ 1 \in Nat
    BY <2>1
  <2>9. QED
    BY <2>1, <2>2, <2>6, <2>7, <2>8, TypedCut
<1>8. CASE Panic(p)
  <2>1. Cuts(p, Left(p)) /\ Depth(p) # 0
    BY <1>1, <1>8, PanicCuts
  <2>2. p = Main => Left(p) >= 1
    BY <1>1, <2>1, LeftIs
  <2>3. p \notin setup.procs => Left(p) = Depth(p)
    BY <1>5, <1>8
  <2>4. effects' = effects /\ env' = env
        /\ sessions' = SubSeq(sessions, 1, Len(sessions) - Cardinality(Unwound(p, "session")))
    BY <1>8 DEF Panic
  <2>5. Cardinality(Unwound(p, "session")) \in Nat /\ 0 \in Nat
    BY <1>1, UnwoundIs
  <2>6. QED
    BY <1>1, <2>1, <2>2, <2>3, <2>4, <2>5, TypedCut
<1>9. QED
  BY <1>3, <1>4, <1>6, <1>7, <1>8, StepsAre

-----------------------------------------------------------------------------
(* Goroutines that are kept apart.                                          *)

\* Calls and capabilities stay on the goroutine's own interpreter ...
AtHome(p) ==
    setup.kinds \subseteq {"call", "capability"} =>
        \A k \in 1..Depth(p) : OnOf(p, k) = Own(p) /\ LexOf(p, k) = Own(p)

\* ... and where nothing leads to the root but a tool, all calls are on one.
OnOne(p) ==
    setup.kinds \cap {"global", "session", "transaction"} = {} =>
        \A k \in 2..Depth(p) :
            OnOf(p, k) = OnOf(p, Depth(p)) /\ LexOf(p, k) = OnOf(p, Depth(p))

Homes == \A p \in All : AtHome(p) /\ OnOne(p)

LEMMA HomesBegin == Init => Homes
<1> SUFFICES ASSUME Init, TypedInv, NEW p \in All PROVE AtHome(p) /\ OnOne(p)
  BY TypedBegins DEF Homes
<1>1. frames = [q \in All |-> IF q = Main THEN <<Body(Root, 0)>> ELSE <<>>]
  BY DEF Init
<1>2. Depth(p) \in {0, 1}
  BY <1>1 DEF Depth
<1>3. \A k \in 1..Depth(p) : k = 1 /\ OnOf(p, k) = Own(p) /\ LexOf(p, k) = Own(p)
  BY <1>2 DEF TypedInv, Shaped
<1>4. 2..Depth(p) = {}
  BY <1>2
<1>5. QED
  BY <1>3, <1>4 DEF AtHome, OnOne

LEMMA HomeSame ==
    ASSUME NEW q, AtHome(q), OnOne(q), frames'[q] = frames[q], setup' = setup
    PROVE  AtHome(q)' /\ OnOne(q)'
<1>1. Depth(q)' = Depth(q) /\ \A k : OnOf(q, k)' = OnOf(q, k) /\ LexOf(q, k)' = LexOf(q, k)
  BY DEF Depth, OnOf, LexOf
<1>2. QED
  BY <1>1 DEF AtHome, OnOne

LEMMA HomeDeeper ==
    ASSUME NEW p \in All, Shaped(p), AtHome(p), OnOne(p), NEW n, NEW kind, NEW name, NEW on,
           NEW lex, Entry(p, n, kind, name, on, lex), setup \in Setups
    PROVE  AtHome(p)' /\ OnOne(p)'
<1>1. n \in Nat /\ n >= 1 /\ Depth(p) = n /\ Depth(p)' = n + 1 /\ setup' = setup
      /\ kind \in setup.kinds
      /\ (\A k \in 1..n : OnOf(p, k)' = OnOf(p, k) /\ LexOf(p, k)' = LexOf(p, k))
      /\ OnOf(p, n + 1)' = on /\ LexOf(p, n + 1)' = lex
  BY DEF Entry, Deeper, Same, Becomes
<1>2. /\ kind \in {"call", "handle"} => on = OnOf(p, n) /\ lex = LexOf(p, n)
      /\ kind = "capability" => on = LexOf(p, n) /\ lex = LexOf(p, n)
      /\ kind = "tool" => n = 1 /\ on = Root /\ lex = Root
  BY DEF Entry
<1>3. AtHome(p)'
  <2> SUFFICES ASSUME setup.kinds \subseteq {"call", "capability"}
               PROVE  \A k \in 1..n + 1 : OnOf(p, k)' = Own(p) /\ LexOf(p, k)' = Own(p)
    BY <1>1 DEF AtHome
  <2>1. \A k \in 1..n : OnOf(p, k) = Own(p) /\ LexOf(p, k) = Own(p)
    BY <1>1 DEF AtHome
  <2>2. on = Own(p) /\ lex = Own(p)
    BY <1>1, <1>2, <2>1
  <2>3. QED
    BY <1>1, <2>1, <2>2
<1>4. OnOne(p)'
  <2> SUFFICES ASSUME setup.kinds \cap {"global", "session", "transaction"} = {}
               PROVE  \A k \in 2..n + 1 : OnOf(p, k)' = on /\ LexOf(p, k)' = on
    BY <1>1 DEF OnOne
  <2>1. kind \in {"call", "handle", "capability", "tool"}
    BY <1>1, SetupIs DEF Kinds
  <2>2. CASE n = 1
    <3>1. OnOf(p, 1) = Own(p) /\ LexOf(p, 1) = Own(p)
      BY <1>1, <2>2 DEF Shaped
    <3>2. lex = on
      BY <1>2, <2>1, <2>2, <3>1
    <3>3. QED
      BY <1>1, <2>2, <3>2
  <2>3. CASE n # 1
    <3>1. \A k \in 2..n : OnOf(p, k) = OnOf(p, n) /\ LexOf(p, k) = OnOf(p, n)
      BY <1>1 DEF OnOne
    <3>2. n \in 2..n
      BY <1>1, <2>3
    <3>3. on = OnOf(p, n) /\ lex = OnOf(p, n)
      BY <1>2, <2>1, <2>3, <3>1, <3>2
    <3>4. QED
      BY <1>1, <3>1, <3>3
  <2>4. QED
    BY <2>2, <2>3
<1>5. QED
  BY <1>3, <1>4

LEMMA HomeBegun ==
    ASSUME NEW p \in All, Begins(p)
    PROVE  AtHome(p)' /\ OnOne(p)'
<1>1. Depth(p)' = 1 /\ OnOf(p, 1)' = p /\ LexOf(p, 1)' = p /\ Own(p) = p
  BY ScopesAssumption DEF Begins, Becomes, Own
<1>2. QED
  BY <1>1 DEF AtHome, OnOne

LEMMA HomeCut ==
    ASSUME NEW p \in All, AtHome(p), OnOne(p), NEW m, Cuts(p, m), Depth(p) \in Nat
    PROVE  AtHome(p)' /\ OnOne(p)'
<1>1. m \in 0..Depth(p) /\ setup' = setup /\ Depth(p)' = m
      /\ \A k \in 1..m : OnOf(p, k)' = OnOf(p, k) /\ LexOf(p, k)' = LexOf(p, k)
  BY DEF Cuts, Same
<1>2. AtHome(p)'
  BY <1>1 DEF AtHome
<1>3. OnOne(p)'
  <2> SUFFICES ASSUME setup.kinds \cap {"global", "session", "transaction"} = {}, NEW k \in 2..m
               PROVE  OnOf(p, k)' = OnOf(p, m)' /\ LexOf(p, k)' = OnOf(p, m)'
    BY <1>1 DEF OnOne
  <2>1. k \in 2..Depth(p) /\ m \in 2..Depth(p) /\ k \in 1..m /\ m \in 1..m
    BY <1>1
  <2>2. QED
    BY <1>1, <2>1 DEF OnOne
<1>4. QED
  BY <1>2, <1>3

\* What a step of p is, for the calls.
LEMMA StepCases ==
    ASSUME TypedInv, NEW p \in All, NEW n, n = Depth(p), Step(p)
    PROVE  /\ n \in Nat /\ ScopesTyped /\ Shaped(p)
           /\ frames \in [All -> Seq(Frame)] /\ setup \in Setups
           /\ setup' = setup /\ \A q \in All : q # p => frames'[q] = frames[q]
           /\ \/ p \in setup.procs /\ \E kind, name, on, lex : Entry(p, n, kind, name, on, lex)
              \/ p \in setup.procs /\ Begin(p) /\ Begins(p)
              \/ p \in setup.procs /\ End(p) /\ Cuts(p, 0) /\ n = 1
              \/ p \in setup.procs /\ Return(p) /\ Cuts(p, n - 1) /\ n > 1
              \/ p \in setup.procs /\ Panic(p) /\ Cuts(p, Left(p)) /\ n # 0 /\ setup.panics
              \/ /\ p \notin setup.procs /\ Panic(p) /\ Cuts(p, Left(p)) /\ frames' = frames
                 /\ \A kind \in Kinds : Calls(p, kind) = {}
<1>1. ScopesTyped /\ Shaped(p) /\ frames \in [All -> Seq(Frame)] /\ setup \in Setups
  BY DEF TypedInv, ScopesTyped
<1>2. n \in Nat
  BY <1>1, FramesAre
<1>3. CASE Entering(p)
  <2>1. PICK kind, name, on, lex : Entry(p, n, kind, name, on, lex)
    BY <1>1, <1>2, <1>3, EntersAre
  <2>2. p \in setup.procs /\ setup' = setup /\ \A q \in All : q # p => frames'[q] = frames[q]
    BY <2>1 DEF Entry, Deeper
  <2>3. QED
    BY <1>1, <1>2, <2>1, <2>2
<1>4. CASE Begin(p)
  <2>1. Begins(p)
    BY <1>1, <1>4, BeginBegins
  <2>2. p \in setup.procs /\ setup' = setup /\ \A q \in All : q # p => frames'[q] = frames[q]
    BY <2>1 DEF Begins
  <2>3. QED
    BY <1>1, <1>2, <1>4, <2>1, <2>2
<1>5. CASE End(p) \/ Return(p) \/ Panic(p)
  <2>1. End(p) => Cuts(p, 0) /\ n = 1
    BY <1>1, EndCuts
  <2>2. Return(p) => Cuts(p, n - 1) /\ n > 1
    BY <1>1, ReturnCuts
  <2>3. Panic(p) => Cuts(p, Left(p)) /\ n # 0 /\ setup.panics
    BY <1>1, PanicCuts
  <2>4. p \notin setup.procs => Panic(p) /\ frames' = frames
                                /\ \A kind \in Kinds : Calls(p, kind) = {}
    BY <1>1, <1>5, IdleCuts
  <2>5. setup' = setup /\ \A q \in All : q # p => frames'[q] = frames[q]
    BY <1>5, <2>1, <2>2, <2>3, Zenon DEF Cuts
  <2>6. QED
    BY <1>1, <1>2, <1>5, <2>1, <2>2, <2>3, <2>4, <2>5
<1>6. QED
  BY <1>3, <1>4, <1>5, StepsAre

LEMMA HomesKeep ==
    ASSUME TypedInv, Homes, NEW p \in All, Step(p)
    PROVE  Homes'
<1> SUFFICES ASSUME NEW q \in All PROVE AtHome(q)' /\ OnOne(q)'
  BY DEF Homes
<1>1. PICK n : n = Depth(p)
  OBVIOUS
<1>2. AtHome(q) /\ OnOne(q)
  BY DEF Homes
<1>3. CASE q # p
  BY <1>1, <1>2, <1>3, StepCases, HomeSame
<1>4. CASE q = p
  <2>1. Depth(p) \in Nat /\ Shaped(p) /\ setup \in Setups
    BY <1>1, StepCases
  <2>2. \/ \E kind, name, on, lex : Entry(p, n, kind, name, on, lex)
        \/ Begins(p)
        \/ \E m : Cuts(p, m)
    BY <1>1, StepCases
  <2>3. QED
    BY <1>2, <1>4, <2>1, <2>2, HomeDeeper, HomeBegun, HomeCut
<1>5. QED
  BY <1>3, <1>4

LEMMA ApartIs ==
    ASSUME TypedInv, Apart, NEW p \in All, NEW q \in setup.procs, p # q, p \in setup.procs
    PROVE  setup.kinds \subseteq {"call", "capability"} /\ Main \notin setup.procs
  BY DEF Apart

\* While goroutines are apart, the step of one shows nothing to the others.
LEMMA OthersQuiet ==
    ASSUME TypedInv, Homes, Apart, NEW p \in All, Step(p), NEW q \in setup.procs, q # p
    PROVE  /\ sessions' = sessions /\ effects' = effects
           /\ env'[Own(q)] = env[Own(q)]
           /\ frames'[q] = frames[q] /\ q \in All
<1>1. PICK n : n = Depth(p)
  OBVIOUS
<1>2. q \in All
  BY SetupIs DEF TypedInv, ScopesTyped
<1>3. /\ n \in Nat /\ ScopesTyped /\ Shaped(p) /\ setup' = setup /\ frames'[q] = frames[q]
      /\ env \in [Interps -> 0..made]
  BY <1>1, <1>2, StepCases DEF ScopesTyped
<1>4. Own(p) # Own(q)
  BY <1>2, OwnsDiffer
<1>5. p \in setup.procs => setup.kinds \subseteq {"call", "capability"} /\ AtHome(p)
  BY ApartIs DEF Homes
<1>6. p \in setup.procs => \A k \in 1..n :
          /\ KindOf(p, k) \in {"body", "call", "capability"}
          /\ OnOf(p, k) = Own(p) /\ LexOf(p, k) = Own(p)
  BY <1>1, <1>3, <1>5 DEF AtHome, Shaped
<1>7. p \in setup.procs => Calls(p, "session") = {}
  <2> SUFFICES ASSUME p \in setup.procs PROVE Calls(p, "session") = {}
    OBVIOUS
  <2>1. Calls(p, "session") = {k \in 1..n : KindOf(p, k) = "session"}
    BY <1>1, <1>3, FramesAre DEF ScopesTyped
  <2>2. QED
    BY <1>6, <2>1
<1>8. CASE p \in setup.procs /\ \E kind, name, on, lex : Entry(p, n, kind, name, on, lex)
  <2>1. PICK kind, name, on, lex : Entry(p, n, kind, name, on, lex)
    BY <1>8
  <2>2. kind \in {"call", "capability"} /\ n \in 1..n
    BY <1>5, <1>8, <2>1 DEF Entry, Deeper
  <2>3. on = Own(p) /\ env' = [env EXCEPT ![on] = made + 1]
    BY <1>6, <1>8, <2>1, <2>2 DEF Entry, Deeper
  <2>4. effects' = effects /\ sessions' = sessions
    BY <2>1, <2>2 DEF Entry
  <2>5. QED
    BY <1>2, <1>3, <1>4, <2>3, <2>4
<1>9. CASE Begin(p) /\ Begins(p)
  <2>1. Own(p) = p /\ env' = [env EXCEPT ![p] = made + 1]
    BY <1>9, ScopesAssumption DEF Begins, Own
  <2>2. effects' = effects /\ sessions' = sessions
    BY <1>9 DEF Begin
  <2>3. QED
    BY <1>2, <1>3, <1>4, <2>1, <2>2
<1>10. CASE End(p)
  BY <1>2, <1>3, <1>10 DEF End
<1>11. CASE p \in setup.procs /\ Return(p) /\ n > 1
  <2>1. n \in 1..n
    BY <1>3, <1>11
  <2>2. KindOf(p, n) \notin {"handle", "session"} /\ OnOf(p, n) = Own(p)
    BY <1>6, <1>11, <2>1
  <2>3. Top(p).kind = KindOf(p, n) /\ Top(p).on = OnOf(p, n)
    BY <1>1 DEF Top, KindOf, OnOf, Depth
  <2>4. effects' = effects /\ sessions' = sessions
    BY <1>11, <2>2, <2>3 DEF Return, PopIf
  <2>5. env' = [env EXCEPT ![Own(p)] = Top(p).saved]
    BY <1>11, <2>2, <2>3 DEF Return
  <2>6. QED
    BY <1>2, <1>3, <1>4, <2>4, <2>5
<1>12. CASE Panic(p) /\ (p \notin setup.procs => \A kind \in Kinds : Calls(p, kind) = {})
  <2>1. Calls(p, "session") = {}
    BY <1>7, <1>12 DEF Kinds
  <2>2. Unwound(p, "session") = {} /\ Cardinality({}) = 0
    BY <2>1, FS_EmptySet DEF Unwound
  <2>3. sessions' = SubSeq(sessions, 1, Len(sessions) - 0)
    BY <1>12, <2>2 DEF Panic
  <2>4. sessions' = sessions
    BY <1>3, <2>3, SubSeqFull DEF ScopesTyped
  <2>5. effects' = effects /\ env' = env
    BY <1>12 DEF Panic
  <2>6. QED
    BY <1>2, <1>3, <2>4, <2>5
<1>13. QED
  BY <1>1, <1>8, <1>9, <1>10, <1>11, <1>12, StepCases

-----------------------------------------------------------------------------
(* Sessions and handlers: the stacks hold what the calls say.               *)

EnvsOf(p)    == [k \in 1..Depth(p) |-> EnvOf(p, k)]
Provider(p, k) == [name |-> NameOf(p, k), by |-> EnvOf(p, k)]
Providers(p) == [k \in 1..Depth(p) |-> Provider(p, k)]

SessionsFit(p) == Fits(sessions, Calls(p, "session"), EnvsOf(p))
EffectsFit(p)  == Fits(effects, Calls(p, "handle"), Providers(p))

Quiet == "handle" \in setup.kinds => ~ setup.panics

LEMMA FitsAlike ==
    ASSUME NEW s, NEW S, NEW f, NEW g, Fits(s, S, f), \A k \in S : g[k] = f[k]
    PROVE  Fits(s, S, g)
  BY DEF Fits

LEMMA FitsNone ==
    ASSUME NEW f PROVE Fits(<<>>, {}, f)
  BY FS_EmptySet DEF Fits

\* The last call returns.
LEMMA FitsReturn ==
    ASSUME NEW n \in Nat, n >= 1, NEW S, S \subseteq 1..n, NEW V, NEW s \in Seq(V),
           NEW f, NEW g, Fits(s, S, f), \A k \in 1..n - 1 : g[k] = f[k],
           NEW t, t = IF n \in S /\ s # <<>> THEN DropLast(s) ELSE s
    PROVE  Fits(t, {k \in S : k <= n - 1}, g)
<1>1. PICK U, T : U = {k \in S : k > n - 1} /\ T = {k \in S : k <= n - 1}
  OBVIOUS
<1>2. n - 1 \in Nat /\ \A k \in S : k <= n - 1 => k \in 1..n - 1
  OBVIOUS
<1>3. Len(s) - Cardinality(U) \in 0..Len(s) /\ Fits(SubSeq(s, 1, Len(s) - Cardinality(U)), T, g)
  BY <1>1, <1>2, FitsCut
<1>4. \A k \in S : k > n - 1 <=> k = n
  OBVIOUS
<1>5. CASE n \in S
  <2>1. U = {n}
    BY <1>1, <1>4, <1>5
  <2>2. Cardinality(U) = 1
    BY <2>1, FS_Singleton
  <2>3. s # <<>>
    BY <1>3, <2>2
  <2>4. t = SubSeq(s, 1, Len(s) - 1)
    BY <1>5, <2>3 DEF DropLast
  <2>5. QED
    BY <1>1, <1>3, <2>2, <2>4
<1>6. CASE n \notin S
  <2>1. U = {}
    BY <1>1, <1>4, <1>6
  <2>2. Cardinality(U) = 0
    BY <2>1, FS_EmptySet
  <2>3. SubSeq(s, 1, Len(s) - Cardinality(U)) = s
    BY <2>2, SubSeqFull
  <2>4. t = s
    BY <1>6
  <2>5. QED
    BY <1>1, <1>3, <2>3, <2>4
<1>7. QED
  BY <1>5, <1>6

\* What a step keeps of the calls.
LEMMA CallsAgree ==
    ASSUME NEW p \in All, NEW m \in Nat, \A k \in 1..m : Same(p, k),
           Depth(p) \in Nat, m <= Depth(p), Depth(p)' \in Nat, m <= Depth(p)'
    PROVE  \A k \in 1..m : EnvsOf(p)'[k] = EnvsOf(p)[k] /\ Providers(p)'[k] = Providers(p)[k]
<1> SUFFICES ASSUME NEW k \in 1..m
             PROVE  EnvsOf(p)'[k] = EnvsOf(p)[k] /\ Providers(p)'[k] = Providers(p)[k]
  OBVIOUS
<1>1. k \in 1..Depth(p) /\ k \in 1..Depth(p)'
  OBVIOUS
<1>2. EnvOf(p, k)' = EnvOf(p, k) /\ NameOf(p, k)' = NameOf(p, k)
  BY DEF Same
<1>3. Provider(p, k)' = Provider(p, k)
  BY <1>2 DEF Provider
<1>4. EnvsOf(p)[k] = EnvOf(p, k) /\ Providers(p)[k] = Provider(p, k)
  BY <1>1 DEF EnvsOf, Providers
<1>5. EnvsOf(p)'[k] = EnvOf(p, k)' /\ Providers(p)'[k] = Provider(p, k)'
  BY <1>1 DEF EnvsOf, Providers
<1>6. QED
  BY <1>2, <1>3, <1>4, <1>5

\* What an entry adds to them.
LEMMA EntryAgrees ==
    ASSUME TypedInv, NEW p \in All, NEW n, NEW kind, NEW name, NEW on, NEW lex,
           Entry(p, n, kind, name, on, lex), NEW x, x = [name |-> name, by |-> made + 1]
    PROVE  /\ n \in Nat /\ n = Depth(p) /\ made \in Nat /\ made' = made + 1
           /\ \A k \in 1..n : EnvsOf(p)'[k] = EnvsOf(p)[k] /\ Providers(p)'[k] = Providers(p)[k]
           /\ EnvsOf(p)'[n + 1] = made + 1
           /\ Providers(p)'[n + 1] = x
           /\ \A c : Calls(p, c)' = IF c = kind THEN Calls(p, c) \cup {n + 1} ELSE Calls(p, c)
<1>1. frames \in [All -> Seq(Frame)] /\ made \in Nat /\ Deeper(p, n, kind, name, on, lex)
  BY ScopesAssumption DEF TypedInv, ScopesTyped, Entry
<1>2. n \in Nat /\ n = Depth(p) /\ Depth(p)' = n + 1 /\ made' = made + 1
      /\ \A k \in 1..n : Same(p, k)
  BY <1>1 DEF Deeper
<1>3. EnvOf(p, n + 1)' = made + 1 /\ NameOf(p, n + 1)' = name
  BY <1>1 DEF Deeper, Becomes
<1>4. \A k \in 1..n : EnvsOf(p)'[k] = EnvsOf(p)[k] /\ Providers(p)'[k] = Providers(p)[k]
  <2>1. n <= n /\ Depth(p)' \in Nat /\ n <= Depth(p)'
    BY <1>2
  <2>2. QED
    BY <1>2, <2>1, CallsAgree
<1>5. n + 1 \in 1..Depth(p)'
  BY <1>2
<1>6. EnvsOf(p)'[n + 1] = EnvOf(p, n + 1)' /\ Providers(p)'[n + 1] = Provider(p, n + 1)'
  BY <1>5 DEF EnvsOf, Providers
<1>7. Provider(p, n + 1)' = x
  BY <1>3 DEF Provider
<1>8. \A c : Calls(p, c)' = IF c = kind THEN Calls(p, c) \cup {n + 1} ELSE Calls(p, c)
  BY <1>1, CallsDeeper
<1>9. QED
  BY <1>1, <1>2, <1>3, <1>4, <1>6, <1>7, <1>8

LEMMA CutAgrees ==
    ASSUME TypedInv, NEW p \in All, NEW m, Cuts(p, m)
    PROVE  /\ m \in Nat /\ m <= Depth(p) /\ made' = made
           /\ \A k \in 1..m : EnvsOf(p)'[k] = EnvsOf(p)[k] /\ Providers(p)'[k] = Providers(p)[k]
           /\ \A c : Calls(p, c)' = {k \in Calls(p, c) : k <= m}
<1>1. Depth(p) \in Nat
  BY FramesAre DEF TypedInv, ScopesTyped
<1>2. m \in Nat /\ m <= Depth(p) /\ Depth(p)' = m /\ made' = made
      /\ \A k \in 1..m : Same(p, k)
  BY <1>1 DEF Cuts
<1>3. \A c : Calls(p, c)' = {k \in Calls(p, c) : k <= m}
  BY <1>1, CallsLeft
<1>4. \A k \in 1..m : EnvsOf(p)'[k] = EnvsOf(p)[k] /\ Providers(p)'[k] = Providers(p)[k]
  <2>1. Depth(p)' \in Nat /\ m <= Depth(p)'
    BY <1>2
  <2>2. QED
    BY <1>1, <1>2, <2>1, CallsAgree
<1>5. QED
  BY <1>2, <1>3, <1>4

LEMMA SessionsKeep ==
    ASSUME TypedInv, NEW p \in All, p \in setup.procs, SessionsFit(p), Step(p)
    PROVE  SessionsFit(p)'
<1>1. PICK n : n = Depth(p)
  OBVIOUS
<1>2. n \in Nat /\ ScopesTyped /\ Shaped(p) /\ frames \in [All -> Seq(Frame)]
  BY <1>1, StepCases
<1>3. PICK S, f : S = Calls(p, "session") /\ f = EnvsOf(p)
  OBVIOUS
<1>4. S \subseteq 1..n /\ Fits(sessions, S, f)
  BY <1>1, <1>2, <1>3, FramesAre DEF SessionsFit
<1>5. sessions \in Seq(1..made)
  BY <1>2 DEF ScopesTyped
<1>6. ASSUME NEW m, Cuts(p, m)
      PROVE  /\ m \in Nat /\ m <= n
             /\ \A k \in 1..m : EnvsOf(p)'[k] = f[k]
             /\ Calls(p, "session")' = {k \in S : k <= m}
  BY <1>1, <1>3, <1>6, CutAgrees
<1>7. CASE \E kind, name, on, lex : Entry(p, n, kind, name, on, lex)
  <2>1. PICK kind, name, on, lex : Entry(p, n, kind, name, on, lex)
    BY <1>7
  <2>2. /\ made \in Nat /\ made' = made + 1 /\ EnvsOf(p)'[n + 1] = made + 1
        /\ \A k \in 1..n : EnvsOf(p)'[k] = f[k]
        /\ Calls(p, "session")' = IF "session" = kind THEN S \cup {n + 1} ELSE S
    <3>1. /\ made \in Nat /\ made' = made + 1
          /\ \A k \in 1..n : EnvsOf(p)'[k] = EnvsOf(p)[k]
          /\ EnvsOf(p)'[n + 1] = made + 1
      BY <2>1, EntryAgrees
    <3>2. \A c : Calls(p, c)' = IF c = kind THEN Calls(p, c) \cup {n + 1} ELSE Calls(p, c)
      BY <2>1, EntryAgrees
    <3>3. QED
      BY <1>3, <3>1, <3>2
  <2>3. PICK g : g = EnvsOf(p)'
    OBVIOUS
  <2>4. \A k \in S : g[k] = f[k]
    BY <1>4, <2>2, <2>3
  <2>5. CASE kind = "session"
    <3>1. sessions' = Append(sessions, made + 1)
      BY <2>1, <2>5 DEF Entry
    <3>2. 1..made \subseteq 1..made + 1 /\ made + 1 \in 1..made + 1
      BY <2>2
    <3>3. sessions \in Seq(1..made + 1)
      BY <1>5, <3>2, SeqGrows
    <3>4. g[n + 1] = made + 1
      BY <2>2, <2>3
    <3>5. Fits(Append(sessions, made + 1), S \cup {n + 1}, g)
      BY <1>2, <1>4, <2>4, <3>2, <3>3, <3>4, FitsPushed
    <3>6. QED
      BY <2>2, <2>3, <2>5, <3>1, <3>5 DEF SessionsFit
  <2>6. CASE kind # "session"
    <3>1. sessions' = sessions
      BY <2>1, <2>6 DEF Entry
    <3>2. Fits(sessions, S, g)
      BY <1>4, <2>4, FitsAlike
    <3>3. QED
      BY <2>2, <2>3, <2>6, <3>1, <3>2 DEF SessionsFit
  <2>7. QED
    BY <2>5, <2>6
<1>8. CASE Begin(p) /\ Begins(p)
  <2>1. Calls(p, "session")' = {} /\ S = {} /\ sessions' = sessions
    BY <1>3, <1>8, CallsBegun DEF Begin, Kinds
  <2>2. Fits(sessions, {}, EnvsOf(p)')
    BY <1>4, <2>1, FitsAlike
  <2>3. QED
    BY <2>1, <2>2 DEF SessionsFit
<1>9. CASE End(p) /\ Cuts(p, 0) /\ n = 1
  <2>1. Calls(p, "session")' = {k \in S : k <= 0} /\ sessions' = sessions
    BY <1>6, <1>9 DEF End
  <2>2. S = {}
    <3>1. KindOf(p, 1) = "body"
      BY <1>1, <1>2, <1>9 DEF Shaped
    <3>2. S = {k \in 1..1 : KindOf(p, k) = "session"}
      BY <1>1, <1>2, <1>3, <1>9, FramesAre
    <3>3. QED
      BY <3>1, <3>2
  <2>3. Fits(sessions, {}, EnvsOf(p)') /\ Calls(p, "session")' = {}
    BY <1>4, <2>1, <2>2, FitsAlike
  <2>4. QED
    BY <2>1, <2>3 DEF SessionsFit
<1>10. CASE Return(p) /\ Cuts(p, n - 1) /\ n > 1
  <2>2. Top(p).kind = "session" <=> n \in S
    <3>1. n \in 1..n
      BY <1>2, <1>10
    <3>2. S = {k \in 1..n : KindOf(p, k) = "session"} /\ Top(p).kind = KindOf(p, n)
      BY <1>1, <1>2, <1>3, FramesAre DEF Top, KindOf, Depth
    <3>3. QED
      BY <3>1, <3>2
  <2>3. PICK t : t = sessions' /\ t = IF n \in S /\ sessions # <<>> THEN DropLast(sessions) ELSE sessions
    BY <1>10, <2>2 DEF Return, PopIf
  <2>4. PICK g : g = EnvsOf(p)'
    OBVIOUS
  <2>5. \A k \in 1..n - 1 : g[k] = f[k]
    BY <1>6, <1>10, <2>4
  <2>6. Fits(t, {k \in S : k <= n - 1}, g)
    <3>1. n >= 1
      BY <1>2, <1>10
    <3>2. QED
      BY <1>2, <1>4, <1>5, <2>3, <2>5, <3>1, FitsReturn
  <2>7. QED
    BY <1>6, <1>10, <2>3, <2>4, <2>6 DEF SessionsFit
<1>11. CASE Panic(p) /\ Cuts(p, Left(p))
  <2>1. PICK m \in Nat : m = Left(p)
    BY <1>6, <1>11
  <2>2. PICK g : g = EnvsOf(p)'
    OBVIOUS
  <2>3. \A k \in S : k <= m => g[k] = f[k]
    <3>1. \A k \in 1..m : g[k] = f[k]
      BY <1>6, <1>11, <2>1, <2>2
    <3>2. \A k \in S : k \in 1..n
      BY <1>4
    <3>3. QED
      BY <1>2, <3>1, <3>2
  <2>4. Fits(SubSeq(sessions, 1, Len(sessions) - Cardinality({k \in S : k > m})),
             {k \in S : k <= m}, g)
    BY <1>2, <1>4, <1>5, <2>3, FitsCut
  <2>5. sessions' = SubSeq(sessions, 1, Len(sessions) - Cardinality({k \in S : k > m}))
    BY <1>3, <1>11, <2>1 DEF Panic, Unwound
  <2>6. QED
    BY <1>6, <1>11, <2>1, <2>2, <2>4, <2>5 DEF SessionsFit
<1>12. QED
  BY <1>1, <1>7, <1>8, <1>9, <1>10, <1>11, StepCases

\* Handlers are not popped by a panic, so that nothing may panic in one.
LEMMA EffectsKeep ==
    ASSUME TypedInv, NEW p \in All, p \in setup.procs, EffectsFit(p), Quiet, Step(p)
    PROVE  EffectsFit(p)'
<1>1. PICK n : n = Depth(p)
  OBVIOUS
<1>2. n \in Nat /\ ScopesTyped /\ Shaped(p) /\ frames \in [All -> Seq(Frame)]
  BY <1>1, StepCases
<1>3. PICK S, f : S = Calls(p, "handle") /\ f = Providers(p)
  OBVIOUS
<1>4. S \subseteq 1..n /\ Fits(effects, S, f)
  BY <1>1, <1>2, <1>3, FramesAre DEF EffectsFit
<1>5. PICK E : E = [name : Effects, by : 1..made] /\ effects \in Seq(E)
  BY <1>2 DEF ScopesTyped
<1>6. ASSUME NEW m, Cuts(p, m)
      PROVE  /\ m \in Nat /\ m <= n
             /\ \A k \in 1..m : Providers(p)'[k] = f[k]
             /\ Calls(p, "handle")' = {k \in S : k <= m}
  BY <1>1, <1>3, <1>6, CutAgrees
<1>7. CASE \E kind, name, on, lex : Entry(p, n, kind, name, on, lex)
  <2>1. PICK kind, name, on, lex : Entry(p, n, kind, name, on, lex)
    BY <1>7
  <2>2. PICK x : x = [name |-> name, by |-> made + 1]
    OBVIOUS
  <2>3. /\ made \in Nat /\ made' = made + 1 /\ Providers(p)'[n + 1] = x
        /\ \A k \in 1..n : Providers(p)'[k] = f[k]
        /\ Calls(p, "handle")' = IF "handle" = kind THEN S \cup {n + 1} ELSE S
    <3>1. /\ made \in Nat /\ made' = made + 1
          /\ \A k \in 1..n : Providers(p)'[k] = Providers(p)[k]
          /\ Providers(p)'[n + 1] = x
      BY <2>1, <2>2, EntryAgrees
    <3>2. \A c : Calls(p, c)' = IF c = kind THEN Calls(p, c) \cup {n + 1} ELSE Calls(p, c)
      BY <2>1, EntryAgrees
    <3>3. QED
      BY <1>3, <2>2, <3>1, <3>2
  <2>4. PICK g : g = Providers(p)'
    OBVIOUS
  <2>5. \A k \in S : g[k] = f[k]
    BY <1>4, <2>3, <2>4
  <2>6. CASE kind = "handle"
    <3>1. effects' = Append(effects, x) /\ name \in Effects
      BY <2>1, <2>2, <2>6 DEF Entry
    <3>2. PICK F : F = [name : Effects, by : 1..made + 1]
      OBVIOUS
    <3>3. 1..made \subseteq 1..made + 1 /\ made + 1 \in 1..made + 1
      BY <2>3
    <3>4. E \subseteq F
      BY <1>5, <3>2, <3>3
    <3>5. effects \in Seq(F)
      BY <1>5, <3>4, SeqGrows
    <3>6. x \in F
      BY <2>2, <3>1, <3>2, <3>3
    <3>7. g[n + 1] = x
      BY <2>3, <2>4
    <3>8. Fits(Append(effects, x), S \cup {n + 1}, g)
      BY <1>2, <1>4, <2>5, <3>5, <3>6, <3>7, FitsPushed
    <3>9. QED
      BY <2>3, <2>4, <2>6, <3>1, <3>8 DEF EffectsFit
  <2>7. CASE kind # "handle"
    <3>1. effects' = effects
      BY <2>1, <2>7 DEF Entry
    <3>2. Fits(effects, S, g)
      BY <1>4, <2>5, FitsAlike
    <3>3. QED
      BY <2>3, <2>4, <2>7, <3>1, <3>2 DEF EffectsFit
  <2>8. QED
    BY <2>6, <2>7
<1>8. CASE Begin(p) /\ Begins(p)
  <2>1. Calls(p, "handle")' = {} /\ S = {} /\ effects' = effects
    BY <1>3, <1>8, CallsBegun DEF Begin, Kinds
  <2>2. Fits(effects, {}, Providers(p)')
    BY <1>4, <2>1, FitsAlike
  <2>3. QED
    BY <2>1, <2>2 DEF EffectsFit
<1>9. CASE End(p) /\ Cuts(p, 0) /\ n = 1
  <2>1. Calls(p, "handle")' = {k \in S : k <= 0} /\ effects' = effects
    BY <1>6, <1>9 DEF End
  <2>2. S = {}
    <3>1. KindOf(p, 1) = "body"
      BY <1>1, <1>2, <1>9 DEF Shaped
    <3>2. S = {k \in 1..1 : KindOf(p, k) = "handle"}
      BY <1>1, <1>2, <1>3, <1>9, FramesAre
    <3>3. QED
      BY <3>1, <3>2
  <2>3. Fits(effects, {}, Providers(p)') /\ Calls(p, "handle")' = {}
    BY <1>4, <2>1, <2>2, FitsAlike
  <2>4. QED
    BY <2>1, <2>3 DEF EffectsFit
<1>10. CASE Return(p) /\ Cuts(p, n - 1) /\ n > 1
  <2>2. Top(p).kind = "handle" <=> n \in S
    <3>1. n \in 1..n
      BY <1>2, <1>10
    <3>2. S = {k \in 1..n : KindOf(p, k) = "handle"} /\ Top(p).kind = KindOf(p, n)
      BY <1>1, <1>2, <1>3, FramesAre DEF Top, KindOf, Depth
    <3>3. QED
      BY <3>1, <3>2
  <2>3. PICK t : t = effects' /\ t = IF n \in S /\ effects # <<>> THEN DropLast(effects) ELSE effects
    BY <1>10, <2>2 DEF Return, PopIf
  <2>4. PICK g : g = Providers(p)'
    OBVIOUS
  <2>5. \A k \in 1..n - 1 : g[k] = f[k]
    BY <1>6, <1>10, <2>4
  <2>6. Fits(t, {k \in S : k <= n - 1}, g)
    <3>1. n >= 1
      BY <1>2, <1>10
    <3>2. QED
      BY <1>2, <1>4, <1>5, <2>3, <2>5, <3>1, FitsReturn
  <2>7. QED
    BY <1>6, <1>10, <2>3, <2>4, <2>6 DEF EffectsFit
<1>11. CASE Panic(p) /\ Cuts(p, Left(p)) /\ setup.panics
  <2>1. S = {}
    <3>1. "handle" \notin setup.kinds /\ "handle" # "body"
      BY <1>11 DEF Quiet
    <3>2. \A k \in 1..n : KindOf(p, k) # "handle"
      BY <1>1, <3>1 DEF TypedInv, Shaped
    <3>3. S = {k \in 1..n : KindOf(p, k) = "handle"}
      BY <1>1, <1>2, <1>3, FramesAre
    <3>4. QED
      BY <3>2, <3>3
  <2>2. Calls(p, "handle")' = {k \in S : k <= Left(p)} /\ effects' = effects
    BY <1>6, <1>11 DEF Panic
  <2>3. Fits(effects, {}, Providers(p)') /\ Calls(p, "handle")' = {}
    BY <1>4, <2>1, <2>2, FitsAlike
  <2>4. QED
    BY <2>2, <2>3 DEF EffectsFit
<1>12. QED
  BY <1>1, <1>7, <1>8, <1>9, <1>10, <1>11, StepCases

-----------------------------------------------------------------------------
(* Environments: each interpreter has the one of the last call on it, and   *)
(* each call will restore the one of the call before it there.              *)

LastOn(p, k) == \A j \in k + 1..Depth(p) : OnOf(p, j) # OnOf(p, k)

EnvFits(p) ==
    /\ \A k \in 1..Depth(p) : LastOn(p, k) => env[OnOf(p, k)] = EnvOf(p, k)
    /\ \A k \in 1..Depth(p) : \A j \in 1..k - 1 :
          /\ OnOf(p, j) = OnOf(p, k)
          /\ \A i \in j + 1..k - 1 : OnOf(p, i) # OnOf(p, k)
          => SavedOf(p, k) = EnvOf(p, j)

LEMMA EnvBegins ==
    ASSUME Init, NEW p \in All
    PROVE  EnvFits(p)
<1>1. /\ frames = [q \in All |-> IF q = Main THEN <<Body(Root, 0)>> ELSE <<>>]
      /\ env = [i \in Interps |-> 0]
  BY DEF Init
<1>2. CASE p = Main
  <2>1. frames[p] = <<Body(Root, 0)>>
    BY <1>1, <1>2
  <2>2. Depth(p) = 1 /\ frames[p][1] = Body(Root, 0)
    BY <2>1 DEF Depth
  <2>3. PICK f : f = Body(Root, 0)
    OBVIOUS
  <2>4. f.on = Root /\ f.env = 0
    BY <2>3, Zenon DEF Body
  <2>5. OnOf(p, 1) = Root /\ EnvOf(p, 1) = 0
    BY <2>2, <2>3, <2>4, Zenon DEF OnOf, EnvOf
  <2>6. env[Root] = 0
    BY <1>1 DEF Interps
  <2>7. QED
    BY <2>2, <2>5, <2>6 DEF EnvFits
<1>3. CASE p # Main
  <2>1. Depth(p) = 0
    BY <1>1, <1>3 DEF Depth
  <2>2. QED
    BY <2>1 DEF EnvFits
<1>4. QED
  BY <1>2, <1>3

LEMMA EnvDeeper ==
    ASSUME TypedInv, NEW p \in All, EnvFits(p), NEW n, NEW kind, NEW name, NEW on, NEW lex,
           Deeper(p, n, kind, name, on, lex), on \in Interps
    PROVE  EnvFits(p)'
<1>1. /\ n \in Nat /\ Depth(p) = n /\ Depth(p)' = n + 1
      /\ \A k \in 1..n : OnOf(p, k)' = OnOf(p, k) /\ EnvOf(p, k)' = EnvOf(p, k)
                         /\ SavedOf(p, k)' = SavedOf(p, k)
      /\ OnOf(p, n + 1)' = on /\ EnvOf(p, n + 1)' = made + 1 /\ SavedOf(p, n + 1)' = env[on]
      /\ env' = [env EXCEPT ![on] = made + 1]
  BY DEF Deeper, Same, Becomes
<1>2. env \in [Interps -> 0..made] /\ frames \in [All -> Seq(Frame)]
  BY DEF TypedInv, ScopesTyped
<1>3. \A k \in 1..n : OnOf(p, k) \in Interps
  BY <1>1, <1>2, FrameIs
<1>4. env'[on] = made + 1 /\ \A i \in Interps : i # on => env'[i] = env[i]
  BY <1>1, <1>2
<1>5. ASSUME NEW k \in 1..n + 1, LastOn(p, k)'
      PROVE  env'[OnOf(p, k)'] = EnvOf(p, k)'
  <2>1. CASE k = n + 1
    BY <1>1, <1>4, <2>1
  <2>2. CASE k # n + 1
    <3>1. k \in 1..n /\ n + 1 \in k + 1..n + 1 /\ \A j \in k + 1..n : j \in k + 1..n + 1 /\ j \in 1..n
      BY <1>1, <2>2
    <3>2. OnOf(p, n + 1)' # OnOf(p, k)' /\ \A j \in k + 1..n : OnOf(p, j)' # OnOf(p, k)'
      BY <1>1, <1>5, <3>1 DEF LastOn
    <3>3. LastOn(p, k)
      BY <1>1, <3>1, <3>2 DEF LastOn
    <3>4. env[OnOf(p, k)] = EnvOf(p, k)
      BY <1>1, <3>1, <3>3 DEF EnvFits
    <3>5. QED
      BY <1>1, <1>3, <1>4, <3>1, <3>2, <3>4
  <2>3. QED
    BY <2>1, <2>2
<1>6. ASSUME NEW k \in 1..n + 1, NEW j \in 1..k - 1, OnOf(p, j)' = OnOf(p, k)',
             \A i \in j + 1..k - 1 : OnOf(p, i)' # OnOf(p, k)'
      PROVE  SavedOf(p, k)' = EnvOf(p, j)'
  <2>1. j \in 1..n /\ \A i \in j + 1..k - 1 : i \in 1..n
    BY <1>1
  <2>2. CASE k = n + 1
    <3>1. \A i \in j + 1..n : OnOf(p, i) # OnOf(p, j)
      BY <1>1, <1>6, <2>1, <2>2
    <3>2. env[OnOf(p, j)] = EnvOf(p, j)
      BY <1>1, <2>1, <3>1 DEF EnvFits, LastOn
    <3>3. QED
      BY <1>1, <1>6, <2>1, <2>2, <3>2
  <2>3. CASE k # n + 1
    <3>1. k \in 1..n
      BY <1>1, <2>3
    <3>2. OnOf(p, j) = OnOf(p, k) /\ \A i \in j + 1..k - 1 : OnOf(p, i) # OnOf(p, k)
      BY <1>1, <1>6, <2>1, <3>1
    <3>3. SavedOf(p, k) = EnvOf(p, j)
      BY <1>1, <3>1, <3>2 DEF EnvFits
    <3>4. QED
      BY <1>1, <2>1, <3>1, <3>3
  <2>4. QED
    BY <2>2, <2>3
<1>7. QED
  BY <1>1, <1>5, <1>6 DEF EnvFits

LEMMA EnvReturn ==
    ASSUME TypedInv, NEW p \in All, EnvFits(p), NEW n, n = Depth(p), Return(p)
    PROVE  EnvFits(p)'
<1>1. n \in Nat /\ n > 1 /\ Cuts(p, n - 1) /\ ScopesTyped
  BY ReturnCuts DEF TypedInv
<1>2. PICK m \in Nat : m = n - 1 /\ m \in 1..n
  BY <1>1
<1>3. /\ Depth(p)' = m
      /\ \A k \in 1..m : OnOf(p, k)' = OnOf(p, k) /\ EnvOf(p, k)' = EnvOf(p, k)
                         /\ SavedOf(p, k)' = SavedOf(p, k)
  BY <1>1, <1>2 DEF Cuts, Same
<1>4. PICK on, s : on = OnOf(p, n) /\ s = SavedOf(p, n)
  OBVIOUS
<1>5. env' = [env EXCEPT ![on] = s]
  BY <1>4 DEF Return, Top, OnOf, SavedOf, Depth
<1>6. env \in [Interps -> 0..made] /\ \A k \in 1..n : OnOf(p, k) \in Interps
  BY <1>1, FrameIs DEF ScopesTyped
<1>7. on \in Interps
  BY <1>1, <1>4, <1>6
<1>8. env'[on] = s /\ \A i \in Interps : i # on => env'[i] = env[i]
  BY <1>5, <1>6, <1>7
<1>9. ASSUME NEW k \in 1..m, LastOn(p, k)'
      PROVE  env'[OnOf(p, k)'] = EnvOf(p, k)'
  <2>1. k \in 1..n /\ \A j \in k + 1..m : j \in 1..m
    BY <1>1, <1>2
  <2>2. \A j \in k + 1..m : OnOf(p, j) # OnOf(p, k)
    BY <1>3, <1>9, <2>1 DEF LastOn
  <2>3. CASE OnOf(p, k) = on
    <3>1. n \in 1..n /\ k \in 1..n - 1
      BY <1>1, <1>2
    <3>2. SavedOf(p, n) = EnvOf(p, k)
      BY <1>2, <1>4, <2>2, <2>3, <3>1 DEF EnvFits
    <3>3. QED
      BY <1>3, <1>4, <1>8, <2>3, <3>2
  <2>4. CASE OnOf(p, k) # on
    <3>1. \A j \in k + 1..n : j \in k + 1..m \/ j = n
      BY <1>1, <1>2
    <3>2. LastOn(p, k)
      BY <1>4, <2>2, <2>4, <3>1 DEF LastOn
    <3>3. env[OnOf(p, k)] = EnvOf(p, k)
      BY <2>1, <3>2 DEF EnvFits
    <3>4. QED
      BY <1>3, <1>6, <1>8, <2>1, <2>4, <3>3
  <2>5. QED
    BY <2>3, <2>4
<1>10. ASSUME NEW k \in 1..m, NEW j \in 1..k - 1, OnOf(p, j)' = OnOf(p, k)',
              \A i \in j + 1..k - 1 : OnOf(p, i)' # OnOf(p, k)'
       PROVE  SavedOf(p, k)' = EnvOf(p, j)'
  <2>1. k \in 1..n /\ j \in 1..m /\ \A i \in j + 1..k - 1 : i \in 1..m
    BY <1>1, <1>2
  <2>2. OnOf(p, j) = OnOf(p, k) /\ \A i \in j + 1..k - 1 : OnOf(p, i) # OnOf(p, k)
    BY <1>3, <1>10, <2>1
  <2>3. SavedOf(p, k) = EnvOf(p, j)
    BY <2>1, <2>2 DEF EnvFits
  <2>4. QED
    BY <1>3, <2>1, <2>3
<1>11. QED
  BY <1>3, <1>9, <1>10 DEF EnvFits

LEMMA EnvKeep ==
    ASSUME TypedInv, NEW p \in All, p \in setup.procs, EnvFits(p), NoRecovery, Step(p)
    PROVE  EnvFits(p)'
<1>1. PICK n : n = Depth(p)
  OBVIOUS
<1>2. n \in Nat /\ ScopesTyped /\ Shaped(p)
  BY <1>1, StepCases
<1>3. ASSUME Cuts(p, 0) PROVE EnvFits(p)'
  <2>1. Depth(p)' = 0
    BY <1>3 DEF Cuts
  <2>2. QED
    BY <2>1 DEF EnvFits
<1>4. CASE \E kind, name, on, lex : Entry(p, n, kind, name, on, lex)
  <2>1. PICK kind, name, on, lex : Entry(p, n, kind, name, on, lex)
    BY <1>4
  <2>2. Deeper(p, n, kind, name, on, lex) /\ on \in {Own(p), Root}
    BY <2>1 DEF Entry
  <2>3. on \in Interps
    BY <2>2, OwnIs DEF Interps
  <2>4. QED
    BY <2>2, <2>3, EnvDeeper
<1>5. CASE Begins(p)
  <2>1. Depth(p)' = 1 /\ OnOf(p, 1)' = p /\ EnvOf(p, 1)' = made + 1
        /\ env' = [env EXCEPT ![p] = made + 1] /\ p \in Interps
    BY <1>5 DEF Begins, Becomes, Interps
  <2>2. env'[p] = made + 1
    BY <1>2, <2>1 DEF ScopesTyped
  <2>3. QED
    BY <2>1, <2>2 DEF EnvFits
<1>6. CASE Return(p)
  BY <1>1, <1>6, EnvReturn
<1>7. CASE Panic(p) /\ Cuts(p, Left(p)) /\ n # 0 /\ setup.panics
  <2>1. p # Main /\ "transaction" \notin setup.kinds
    BY <1>7 DEF NoRecovery
  <2>2. \A k \in 1..n : KindOf(p, k) # "transaction"
    BY <1>1, <2>1 , <1>2 DEF Shaped
  <2>3. Calls(p, "transaction") = {k \in 1..n : KindOf(p, k) = "transaction"}
    BY <1>1, <1>2, FramesAre DEF ScopesTyped
  <2>4. Left(p) = 0
    BY <1>1, <1>2, <1>7, <2>1, <2>2, <2>3, LeftIs
  <2>5. QED
    BY <1>3, <1>7, <2>4
<1>8. QED
  BY <1>1, <1>3, <1>4, <1>5, <1>6, <1>7, StepCases

\* The step of another does not change it.
LEMMA EnvOthers ==
    ASSUME TypedInv, Homes, Apart, NEW p \in All, Step(p), NEW q \in setup.procs, q # p,
           EnvFits(q)
    PROVE  EnvFits(q)'
<1>1. env'[Own(q)] = env[Own(q)] /\ frames'[q] = frames[q] /\ q \in All
  BY OthersQuiet
<1>2. PICK n : n = Depth(p)
  OBVIOUS
<1>3. \A k \in 1..Depth(q) : env'[OnOf(q, k)] = env[OnOf(q, k)]
  <2>1. CASE p \in setup.procs
    <3>1. setup.kinds \subseteq {"call", "capability"}
      BY <1>1, <2>1, ApartIs
    <3>2. \A k \in 1..Depth(q) : OnOf(q, k) = Own(q)
      BY <1>1, <3>1 DEF Homes, AtHome
    <3>3. QED
      BY <1>1, <3>2
  <2>2. CASE p \notin setup.procs
    <3>1. Panic(p)
      BY <1>2, <2>2, StepCases
    <3>2. QED
      BY <3>1 DEF Panic
  <2>3. QED
    BY <2>1, <2>2
<1>4. /\ Depth(q)' = Depth(q)
      /\ \A k : OnOf(q, k)' = OnOf(q, k) /\ EnvOf(q, k)' = EnvOf(q, k)
                /\ SavedOf(q, k)' = SavedOf(q, k)
  BY <1>1, OthersSame DEF Same
<1>5. \A k \in 1..Depth(q) : LastOn(q, k)' <=> LastOn(q, k)
  BY <1>4 DEF LastOn
<1>6. QED
  BY <1>3, <1>4, <1>5 DEF EnvFits

-----------------------------------------------------------------------------
(* Slices: what an append does, to a shared array or to a larger one.       *)

ArrayOf(i) == caps[i].array
LenOf(i)   == caps[i].len

\* A slice is no longer than its array.
SlicesTyped ==
    /\ caps \in [Interps -> Slice]
    /\ arrays \in Seq(Seq(Names))
    /\ \A i \in Interps : /\ ArrayOf(i) \in 0..Len(arrays)
                          /\ IF ArrayOf(i) = 0 THEN LenOf(i) = 0
                             ELSE LenOf(i) <= Len(arrays[ArrayOf(i)])

LEMMA SliceIs ==
    ASSUME SlicesTyped, NEW i \in Interps
    PROVE  /\ ArrayOf(i) \in 0..Len(arrays) /\ LenOf(i) \in Nat /\ Len(arrays) \in Nat
           /\ ArrayOf(i) = 0 => LenOf(i) = 0
           /\ ArrayOf(i) # 0 => /\ arrays[ArrayOf(i)] \in Seq(Names)
                                /\ LenOf(i) <= Len(arrays[ArrayOf(i)])
<1>1. PICK s \in Slice : s = caps[i]
  BY DEF SlicesTyped
<1>2. s.array = ArrayOf(i) /\ s.len = LenOf(i) /\ s.len \in Nat
  BY <1>1 DEF Slice, ArrayOf, LenOf
<1>3. arrays \in Seq(Seq(Names)) /\ ArrayOf(i) \in 0..Len(arrays)
      /\ IF ArrayOf(i) = 0 THEN LenOf(i) = 0 ELSE LenOf(i) <= Len(arrays[ArrayOf(i)])
  BY DEF SlicesTyped
<1>4. ArrayOf(i) # 0 => ArrayOf(i) \in 1..Len(arrays)
  BY <1>3
<1>5. \A a \in 1..Len(arrays) : arrays[a] \in Seq(Names)
  BY <1>3
<1>6. QED
  BY <1>1, <1>2, <1>3, <1>4, <1>5

LEMMA SliceRecord ==
    ASSUME SlicesTyped, NEW i \in Interps
    PROVE  caps[i] = [array |-> ArrayOf(i), len |-> LenOf(i)]
  BY DEF SlicesTyped, Slice, ArrayOf, LenOf

\* x is appended to the slice of i.
Appends(i, x) ==
    /\ SlicesTyped'
    /\ Len(arrays) <= Len(arrays')
    /\ \A j \in Interps : j # i => ArrayOf(j)' = ArrayOf(j) /\ LenOf(j)' = LenOf(j)
    /\ LenOf(i)' = LenOf(i) + 1
    /\ ArrayOf(i)' # 0 /\ (ArrayOf(i)' = ArrayOf(i) \/ ArrayOf(i)' = Len(arrays) + 1)
    /\ \A k \in 1..LenOf(i) : arrays'[ArrayOf(i)'][k] = arrays[ArrayOf(i)][k]
    /\ arrays'[ArrayOf(i)'][LenOf(i) + 1] = x
    /\ \A a \in 1..Len(arrays) : a # ArrayOf(i) => arrays'[a] = arrays[a]

LEMMA AppendInPlace ==
    ASSUME SlicesTyped, NEW i \in Interps, NEW x \in Names, NEW a \in Nat, NEW l \in Nat,
           a = ArrayOf(i), l = LenOf(i), a # 0, l < Len(arrays[a]),
           arrays' = [arrays EXCEPT ![a][l + 1] = x],
           caps' = [caps EXCEPT ![i].len = @ + 1]
    PROVE  Appends(i, x)
<1>1. PICK t \in Seq(Names) : t = arrays[a]
  BY SliceIs
<1>2. a \in 1..Len(arrays) /\ arrays \in Seq(Seq(Names)) /\ l + 1 \in 1..Len(t)
  BY <1>1, SliceIs DEF SlicesTyped
<1>3. PICK u : u = [t EXCEPT ![l + 1] = x]
  OBVIOUS
<1>4. u \in Seq(Names) /\ Len(u) = Len(t) /\ u[l + 1] = x /\ \A k \in 1..l : u[k] = t[k]
  BY <1>2, <1>3
<1>5. arrays' = [arrays EXCEPT ![a] = u]
  BY <1>1, <1>3
<1>6. /\ arrays' \in Seq(Seq(Names)) /\ Len(arrays') = Len(arrays) /\ arrays'[a] = u
      /\ \A b \in 1..Len(arrays) : b # a => arrays'[b] = arrays[b]
  BY <1>2, <1>4, <1>5
<1>7. /\ caps' \in [Interps -> Slice]
      /\ ArrayOf(i)' = a /\ LenOf(i)' = l + 1
      /\ \A j \in Interps : j # i => ArrayOf(j)' = ArrayOf(j) /\ LenOf(j)' = LenOf(j)
  <2>1. PICK s : s = [array |-> a, len |-> l + 1]
    OBVIOUS
  <2>2. s \in Slice /\ s.array = a /\ s.len = l + 1
    BY <2>1 DEF Slice
  <2>3. caps[i] = [array |-> a, len |-> l]
    BY SliceRecord
  <2>4. caps' = [caps EXCEPT ![i] = s]
    <3>1. [[array |-> a, len |-> l] EXCEPT !.len = @ + 1] = s
      BY <2>1
    <3>2. caps' = [caps EXCEPT ![i] = [caps[i] EXCEPT !.len = @ + 1]]
      OBVIOUS
    <3>3. QED
      BY <2>3, <3>1, <3>2
  <2>5. caps \in [Interps -> Slice]
    BY DEF SlicesTyped
  <2>6. caps' \in [Interps -> Slice]
    BY <2>2, <2>4, <2>5
  <2>7. caps'[i] = s /\ \A j \in Interps : j # i => caps'[j] = caps[j]
    BY <2>4, <2>5
  <2>8. QED
    BY <2>2, <2>6, <2>7 DEF ArrayOf, LenOf
<1>8. \A j \in Interps : /\ ArrayOf(j)' \in 0..Len(arrays')
                         /\ IF ArrayOf(j)' = 0 THEN LenOf(j)' = 0
                            ELSE LenOf(j)' <= Len(arrays'[ArrayOf(j)'])
  <2> SUFFICES ASSUME NEW j \in Interps
               PROVE  /\ ArrayOf(j)' \in 0..Len(arrays')
                      /\ IF ArrayOf(j)' = 0 THEN LenOf(j)' = 0
                         ELSE LenOf(j)' <= Len(arrays'[ArrayOf(j)'])
    OBVIOUS
  <2>1. CASE j = i
    BY <1>1, <1>2, <1>4, <1>6, <1>7, <2>1
  <2>2. CASE j # i
    <3>1. ArrayOf(j) # 0 => ArrayOf(j) \in 1..Len(arrays)
      BY SliceIs
    <3>2. ArrayOf(j) # 0 => Len(arrays'[ArrayOf(j)]) = Len(arrays[ArrayOf(j)])
      BY <1>1, <1>4, <1>6, <3>1
    <3>3. QED
      BY <1>6, <1>7, <2>2, <3>2, SliceIs
  <2>3. QED
    BY <2>1, <2>2
<1>9. SlicesTyped'
  BY <1>6, <1>7, <1>8 DEF SlicesTyped
<1>10. QED
  BY <1>1, <1>2, <1>4, <1>6, <1>7, <1>9 DEF Appends

LEMMA AppendMoves ==
    ASSUME SlicesTyped, NEW i \in Interps, NEW x \in Names, AppendToCopy(i, x)
    PROVE  Appends(i, x)
<1>1. PICK a \in Nat, l \in Nat : a = ArrayOf(i) /\ l = LenOf(i)
  BY SliceIs
<1>2. caps[i].array = a /\ caps[i].len = l
  BY <1>1 DEF ArrayOf, LenOf
<1>3. PICK c \in Nat : c = Len(arrays)
  BY SliceIs
<1>4. PICK m \in Nat : m = IF l = 0 THEN 1 ELSE 2 * l
  <2>1. (IF l = 0 THEN 1 ELSE 2 * l) \in Nat
    OBVIOUS
  <2>2. QED
    BY <2>1
<1>5. l < m
  BY <1>4
<1>6. PICK u : u = Larger(caps[i], x)
  OBVIOUS
<1>7. u = [k \in 1..m |-> IF k <= l THEN arrays[a][k] ELSE IF k = l + 1 THEN x ELSE "-"]
  BY <1>2, <1>4, <1>6 DEF Larger
<1>8. \A k \in 1..l : arrays[a][k] \in Names
  <2>1. CASE a = 0
    <3>1. l = 0
      BY <1>1, <2>1, SliceIs
    <3>2. QED
      BY <3>1
  <2>2. CASE a # 0
    <3>1. PICK t \in Seq(Names) : t = arrays[a] /\ l <= Len(t)
      BY <1>1, <2>2, SliceIs
    <3>2. QED
      BY <3>1
  <2>3. QED
    BY <2>1, <2>2
<1>9. "-" \in Names
  BY DEF Names
<1>10. u \in [1..m -> Names]
  BY <1>7, <1>8, <1>9
<1>11. u \in Seq(Names) /\ Len(u) = m
  BY <1>10
<1>12. u[l + 1] = x /\ \A k \in 1..l : u[k] = arrays[a][k]
  BY <1>5, <1>7
<1>13. arrays' = Append(arrays, u) /\ caps' = [caps EXCEPT ![i] = [array |-> c + 1, len |-> l + 1]]
  BY <1>2, <1>3, <1>6 DEF AppendToCopy
<1>14. /\ arrays' \in Seq(Seq(Names)) /\ Len(arrays') = c + 1 /\ arrays'[c + 1] = u
       /\ \A b \in 1..c : arrays'[b] = arrays[b]
  BY <1>3, <1>11, <1>13 DEF SlicesTyped
<1>15. /\ caps' \in [Interps -> Slice]
       /\ ArrayOf(i)' = c + 1 /\ LenOf(i)' = l + 1
       /\ \A j \in Interps : j # i => ArrayOf(j)' = ArrayOf(j) /\ LenOf(j)' = LenOf(j)
  <2>1. PICK s : s = [array |-> c + 1, len |-> l + 1]
    OBVIOUS
  <2>2. s \in Slice /\ s.array = c + 1 /\ s.len = l + 1
    BY <2>1 DEF Slice
  <2>3. caps' = [caps EXCEPT ![i] = s]
    BY <1>13, <2>1
  <2>4. caps \in [Interps -> Slice]
    BY DEF SlicesTyped
  <2>5. caps' \in [Interps -> Slice]
    BY <2>2, <2>3, <2>4
  <2>6. caps'[i] = s /\ \A j \in Interps : j # i => caps'[j] = caps[j]
    BY <2>3, <2>4
  <2>7. QED
    BY <2>2, <2>5, <2>6 DEF ArrayOf, LenOf
<1>16. \A j \in Interps : /\ ArrayOf(j)' \in 0..Len(arrays')
                          /\ IF ArrayOf(j)' = 0 THEN LenOf(j)' = 0
                             ELSE LenOf(j)' <= Len(arrays'[ArrayOf(j)'])
  <2> SUFFICES ASSUME NEW j \in Interps
               PROVE  /\ ArrayOf(j)' \in 0..Len(arrays')
                      /\ IF ArrayOf(j)' = 0 THEN LenOf(j)' = 0
                         ELSE LenOf(j)' <= Len(arrays'[ArrayOf(j)'])
    OBVIOUS
  <2>1. CASE j = i
    BY <1>5, <1>11, <1>14, <1>15, <2>1
  <2>2. CASE j # i
    <3>1. PICK b \in 0..c, d \in Nat : b = ArrayOf(j) /\ d = LenOf(j)
      BY <1>3, SliceIs
    <3>2. (b = 0 => d = 0) /\ (b # 0 => d <= Len(arrays[b]))
      BY <3>1, SliceIs
    <3>3. b # 0 => arrays'[b] = arrays[b]
      BY <1>14
    <3>4. ArrayOf(j)' = b /\ LenOf(j)' = d /\ b \in 0..Len(arrays')
      BY <1>14, <1>15, <2>2, <3>1
    <3>5. QED
      BY <3>2, <3>3, <3>4
  <2>3. QED
    BY <2>1, <2>2
<1>17. SlicesTyped'
  BY <1>14, <1>15, <1>16 DEF SlicesTyped
<1>18. Len(arrays) <= Len(arrays')
  BY <1>3, <1>14
<1>19. LenOf(i)' = LenOf(i) + 1 /\ ArrayOf(i)' # 0 /\ ArrayOf(i)' = Len(arrays) + 1
  BY <1>1, <1>3, <1>15
<1>20. arrays'[ArrayOf(i)'] = u
  BY <1>14, <1>15
<1>21. \A k \in 1..LenOf(i) : arrays'[ArrayOf(i)'][k] = arrays[ArrayOf(i)][k]
  BY <1>1, <1>12, <1>20
<1>22. arrays'[ArrayOf(i)'][LenOf(i) + 1] = x
  BY <1>1, <1>12, <1>20
<1>23. \A b \in 1..Len(arrays) : b # ArrayOf(i) => arrays'[b] = arrays[b]
  BY <1>3, <1>14
<1>24. \A j \in Interps : j # i => ArrayOf(j)' = ArrayOf(j) /\ LenOf(j)' = LenOf(j)
  BY <1>15
<1>25. QED
  BY <1>17, <1>18, <1>19, <1>21, <1>22, <1>23, <1>24, Zenon DEF Appends

LEMMA AppendIs ==
    ASSUME SlicesTyped, NEW i \in Interps, NEW x \in Names, AppendCap(i, x)
    PROVE  Appends(i, x)
<1>1. PICK a \in Nat, l \in Nat : a = ArrayOf(i) /\ l = LenOf(i)
  BY SliceIs
<1>2. caps[i].array = a /\ caps[i].len = l
  BY <1>1 DEF ArrayOf, LenOf
<1>3. CASE l < Room(caps[i])
  <2>1. a # 0 /\ l < Len(arrays[a])
    BY <1>2, <1>3 DEF Room
  <2>2. arrays' = [arrays EXCEPT ![a][l + 1] = x] /\ caps' = [caps EXCEPT ![i].len = @ + 1]
    BY <1>2, <1>3 DEF AppendCap
  <2>3. QED
    BY <1>1, <2>1, <2>2, AppendInPlace
<1>4. CASE ~ (l < Room(caps[i]))
  <2>1. AppendToCopy(i, x)
    BY <1>2, <1>4 DEF AppendCap
  <2>2. QED
    BY <2>1, AppendMoves
<1>5. QED
  BY <1>3, <1>4

-----------------------------------------------------------------------------
(* Counting: a slice is at least as long as the calls that will pop it,     *)
(* of however many goroutines.  A call is counted by its environment.       *)

\* No two calls have the same environment.
Distinct ==
    /\ \A p \in All : \A k \in 1..Depth(p) : EnvOf(p, k) \in 0..made
    /\ \A p, q \in All : \A k \in 1..Depth(p), j \in 1..Depth(q) :
          EnvOf(p, k) = EnvOf(q, j) => p = q /\ k = j

CapCalls(p, i) == {k \in Calls(p, "capability") : OnOf(p, k) = i}

CapEnvs(i) == {e \in 0..MaxMade : \E p \in All : \E k \in CapCalls(p, i) : EnvOf(p, k) = e}

Counted == \A i \in Interps : Cardinality(CapEnvs(i)) <= LenOf(i)

LEMMA OneToOne ==
    ASSUME NEW U, IsFiniteSet(U), NEW f, \A j, k \in U : f[j] = f[k] => j = k,
           NEW X, \A e : e \in X <=> \E k \in U : f[k] = e
    PROVE  IsFiniteSet(X) /\ Cardinality(X) = Cardinality(U)
<1>1. PICK g : g = [k \in U |-> f[k]]
  OBVIOUS
<1>2. g \in [U -> X] /\ \A k \in U : g[k] = f[k]
  BY <1>1
<1>3. \A e \in X : \E k \in U : g[k] = e
  BY <1>2
<1>4. g \in Surjection(U, X)
  BY <1>2, <1>3 DEF Surjection
<1>5. g \in Injection(U, X)
  BY <1>2 DEF Injection, IsInjective
<1>6. QED
  BY <1>4, <1>5, FS_Surjection

LEMMA DistinctBegins == Init => Distinct
<1> SUFFICES ASSUME Init PROVE Distinct
  OBVIOUS
<1>1. frames = [p \in All |-> IF p = Main THEN <<Body(Root, 0)>> ELSE <<>>] /\ made = 0
  BY DEF Init
<1>2. \A p \in All : p # Main => Depth(p) = 0
  BY <1>1 DEF Depth
<1>3. Main \in All
  BY DEF All
<1>4. frames[Main] = <<Body(Root, 0)>>
  BY <1>1, <1>3
<1>5. Depth(Main) = 1 /\ frames[Main][1] = Body(Root, 0)
  BY <1>4 DEF Depth
<1>6. PICK f : f = Body(Root, 0)
  OBVIOUS
<1>7. f.env = 0
  BY <1>6, Zenon DEF Body
<1>8. EnvOf(Main, 1) = 0
  BY <1>5, <1>6, <1>7, Zenon DEF EnvOf
<1>9. \A p \in All : \A k \in 1..Depth(p) : p = Main /\ k = 1
  BY <1>2, <1>5
<1>10. QED
  BY <1>1, <1>8, <1>9 DEF Distinct

\* Every call of the next state is one of this, or has an environment of its own.
LEMMA CallsMove ==
    ASSUME TypedInv, NEW p \in All, Step(p)
    PROVE  /\ made \in Nat /\ made' \in {made, made + 1}
           /\ \A q \in All : \A k \in 1..Depth(q)' :
                \/ k \in 1..Depth(q) /\ EnvOf(q, k)' = EnvOf(q, k)
                \/ q = p /\ k = Depth(p)' /\ EnvOf(q, k)' = made + 1 /\ made' = made + 1
<1>1. PICK n : n = Depth(p)
  OBVIOUS
<1>2. n \in Nat /\ made \in Nat
      /\ \A q \in All : q # p => frames'[q] = frames[q]
  BY <1>1, StepCases, ScopesAssumption DEF ScopesTyped
<1>3. ASSUME NEW q \in All, q # p, NEW k \in 1..Depth(q)'
      PROVE  k \in 1..Depth(q) /\ EnvOf(q, k)' = EnvOf(q, k)
  BY <1>2, <1>3, OthersSame DEF Same
<1>4. ASSUME NEW m, Cuts(p, m)
      PROVE  /\ made' = made
             /\ \A k \in 1..Depth(p)' : k \in 1..Depth(p) /\ EnvOf(p, k)' = EnvOf(p, k)
  BY <1>1, <1>2, <1>4 DEF Cuts, Same
<1>5. CASE \E m : Cuts(p, m)
  BY <1>2, <1>3, <1>4, <1>5
<1>6. CASE \E kind, name, on, lex : Entry(p, n, kind, name, on, lex)
  <2>1. Depth(p)' = n + 1 /\ made' = made + 1 /\ EnvOf(p, n + 1)' = made + 1
        /\ \A k \in 1..n : EnvOf(p, k)' = EnvOf(p, k)
    BY <1>6 DEF Entry, Deeper, Same, Becomes
  <2>2. \A k \in 1..Depth(p)' : k \in 1..n \/ k = n + 1
    BY <1>2, <2>1
  <2>3. QED
    BY <1>1, <1>2, <1>3, <2>1, <2>2
<1>7. CASE Begins(p)
  <2>1. Depth(p)' = 1 /\ made' = made + 1 /\ EnvOf(p, 1)' = made + 1
    BY <1>7 DEF Begins, Becomes
  <2>2. \A k \in 1..Depth(p)' : k = 1
    BY <2>1
  <2>3. QED
    BY <1>2, <1>3, <2>1, <2>2
<1>8. QED
  BY <1>1, <1>5, <1>6, <1>7, StepCases

LEMMA DistinctKeeps ==
    ASSUME TypedInv, Distinct, NEW p \in All, Step(p)
    PROVE  Distinct'
<1>1. made \in Nat /\ made' \in {made, made + 1}
  BY CallsMove
<1>2. \A q \in All : \A k \in 1..Depth(q)' :
          \/ k \in 1..Depth(q) /\ EnvOf(q, k)' = EnvOf(q, k)
          \/ q = p /\ k = Depth(p)' /\ EnvOf(q, k)' = made + 1 /\ made' = made + 1
  BY CallsMove
<1>3. \A q \in All : \A k \in 1..Depth(q) : EnvOf(q, k) \in 0..made
  BY DEF Distinct
<1>4. ASSUME NEW q \in All, NEW k \in 1..Depth(q)'
      PROVE  EnvOf(q, k)' \in 0..made'
  BY <1>1, <1>2, <1>3
<1>5. ASSUME NEW q \in All, NEW r \in All, NEW k \in 1..Depth(q)', NEW j \in 1..Depth(r)',
             EnvOf(q, k)' = EnvOf(r, j)'
      PROVE  q = r /\ k = j
  <2>1. CASE /\ k \in 1..Depth(q) /\ EnvOf(q, k)' = EnvOf(q, k)
             /\ j \in 1..Depth(r) /\ EnvOf(r, j)' = EnvOf(r, j)
    <3>1. EnvOf(q, k) = EnvOf(r, j)
      BY <1>5, <2>1
    <3>2. \A a \in 1..Depth(q), b \in 1..Depth(r) : EnvOf(q, a) = EnvOf(r, b) => q = r /\ a = b
      BY DEF Distinct
    <3>3. QED
      BY <2>1, <3>1, <3>2
  <2>2. CASE EnvOf(q, k)' = made + 1 \/ EnvOf(r, j)' = made + 1
    <3>1. \A e \in 0..made : e # made + 1
      BY <1>1
    <3>2. EnvOf(q, k)' = made + 1 /\ EnvOf(r, j)' = made + 1
      BY <1>5, <2>2
    <3>3. q = p /\ k = Depth(p)' /\ r = p /\ j = Depth(p)'
      BY <1>2, <1>3, <3>1, <3>2
    <3>4. QED
      BY <3>3
  <2>3. QED
    BY <1>2, <2>1, <2>2
<1>6. QED
  BY <1>4, <1>5 DEF Distinct

LEMMA CapCallsAre ==
    ASSUME TypedInv, NEW p \in All, NEW i
    PROVE  /\ Depth(p) \in Nat /\ CapCalls(p, i) \subseteq 1..Depth(p)
           /\ CapCalls(p, i) \subseteq 2..Depth(p)
           /\ \A k \in CapCalls(p, i) : OnOf(p, k) = i
<1>1. frames \in [All -> Seq(Frame)] /\ Shaped(p)
  BY DEF TypedInv, ScopesTyped
<1>2. Depth(p) \in Nat
  BY <1>1, FramesAre
<1>3. \A k \in CapCalls(p, i) : k \in 1..Depth(p) /\ KindOf(p, k) = "capability" /\ OnOf(p, k) = i
  <2>1. Calls(p, "capability") = {k \in 1..Depth(p) : KindOf(p, k) = "capability"}
    BY <1>1, FramesAre
  <2>2. QED
    BY <2>1 DEF CapCalls
<1>4. \A k \in 1..Depth(p) : KindOf(p, k) = "capability" => k # 1
  BY <1>1 DEF Shaped
<1>5. \A k \in CapCalls(p, i) : k \in 2..Depth(p)
  BY <1>2, <1>3, <1>4
<1>6. QED
  BY <1>2, <1>3, <1>5

CapEnvsAre ==
    \A i, e : e \in CapEnvs(i) <=> \E p \in All : \E k \in CapCalls(p, i) : EnvOf(p, k) = e

LEMMA InCapEnvs == TypedInv /\ Distinct => CapEnvsAre
<1> SUFFICES ASSUME TypedInv, Distinct, NEW i, NEW e
             PROVE  e \in CapEnvs(i) <=>
                        \E p \in All : \E k \in CapCalls(p, i) : EnvOf(p, k) = e
  BY DEF CapEnvsAre
<1>1. made \in 0..MaxMade /\ MaxMade \in Nat
  BY ScopesAssumption DEF TypedInv, ScopesTyped
<1>2. ASSUME NEW p \in All, NEW k \in CapCalls(p, i)
      PROVE  EnvOf(p, k) \in 0..MaxMade
  <2>1. k \in 1..Depth(p)
    BY CapCallsAre
  <2>2. EnvOf(p, k) \in 0..made
    BY <2>1 DEF Distinct
  <2>3. QED
    BY <1>1, <2>2
<1>3. QED
  BY <1>2, Zenon DEF CapEnvs

LEMMA InCapEnvsNext == (TypedInv /\ Distinct => CapEnvsAre)'
  BY InCapEnvs, PTL

LEMMA CapEnvsFinite ==
    ASSUME NEW i, NEW T, T = CapEnvs(i)
    PROVE  IsFiniteSet(T) /\ Cardinality(T) \in Nat
<1>1. IsFiniteSet(0..MaxMade)
  BY ScopesAssumption, FS_Interval
<1>2. T \in SUBSET (0..MaxMade)
  BY DEF CapEnvs
<1>3. QED
  BY <1>1, <1>2, FS_Subset, FS_CardinalityType

LEMMA CapCallsDeeper ==
    ASSUME TypedInv, NEW p \in All, NEW n, NEW kind, NEW name, NEW on, NEW lex,
           Deeper(p, n, kind, name, on, lex), NEW i
    PROVE  CapCalls(p, i)' = IF kind = "capability" /\ on = i THEN CapCalls(p, i) \cup {n + 1}
                             ELSE CapCalls(p, i)
<1>1. frames \in [All -> Seq(Frame)]
  BY DEF TypedInv, ScopesTyped
<1>2. n \in Nat /\ Depth(p) = n /\ OnOf(p, n + 1)' = on
      /\ \A k \in 1..n : OnOf(p, k)' = OnOf(p, k)
  BY DEF Deeper, Same, Becomes
<1>3. PICK S : S = Calls(p, "capability")
  OBVIOUS
<1>4. S \subseteq 1..n
  BY <1>1, <1>2, <1>3, FramesAre
<1>5. Calls(p, "capability")' = IF kind = "capability" THEN S \cup {n + 1} ELSE S
  <2>1. \A c : Calls(p, c)' = IF c = kind THEN Calls(p, c) \cup {n + 1} ELSE Calls(p, c)
    BY <1>1, CallsDeeper
  <2>2. QED
    BY <1>3, <2>1
<1>6. \A k : k \in CapCalls(p, i)' <=> k \in Calls(p, "capability")' /\ OnOf(p, k)' = i
  BY DEF CapCalls
<1>7. \A k : k \in CapCalls(p, i) <=> k \in S /\ OnOf(p, k) = i
  BY <1>3 DEF CapCalls
<1>8. \A k \in S : OnOf(p, k)' = OnOf(p, k)
  BY <1>2, <1>4
<1>9. \A k : k \in CapCalls(p, i)' <=>
          k \in CapCalls(p, i) \/ (k = n + 1 /\ kind = "capability" /\ on = i)
  BY <1>2, <1>5, <1>6, <1>7, <1>8
<1>10. QED
  BY <1>9

LEMMA CapCallsCut ==
    ASSUME TypedInv, NEW p \in All, NEW m, Cuts(p, m), NEW i
    PROVE  CapCalls(p, i)' = {k \in CapCalls(p, i) : k <= m}
<1>1. m \in Nat /\ m <= Depth(p) /\ Calls(p, "capability")' = {k \in Calls(p, "capability") : k <= m}
  BY CutAgrees
<1>2. frames \in [All -> Seq(Frame)] /\ \A k \in 1..m : OnOf(p, k)' = OnOf(p, k)
  BY DEF TypedInv, ScopesTyped, Cuts, Same
<1>3. PICK S : S = Calls(p, "capability")
  OBVIOUS
<1>4. S \subseteq 1..Depth(p) /\ Depth(p) \in Nat
  BY <1>2, <1>3, FramesAre
<1>5. \A k : k \in CapCalls(p, i)' <=> k \in Calls(p, "capability")' /\ OnOf(p, k)' = i
  BY DEF CapCalls
<1>6. \A k : k \in CapCalls(p, i) <=> k \in S /\ OnOf(p, k) = i
  BY <1>3 DEF CapCalls
<1>7. \A k : k \in CapCalls(p, i)' <=> k \in CapCalls(p, i) /\ k <= m
  <2> SUFFICES ASSUME NEW k PROVE k \in CapCalls(p, i)' <=> k \in CapCalls(p, i) /\ k <= m
    OBVIOUS
  <2>1. k \in S /\ k <= m => k \in 1..m
    BY <1>1, <1>4
  <2>2. k \in Calls(p, "capability")' <=> k \in S /\ k <= m
    BY <1>1, <1>3
  <2>3. QED
    BY <1>2, <1>5, <1>6, <2>1, <2>2, Zenon
<1>8. QED
  BY <1>7

\* A capability is granted.
LEMMA CountDeeper ==
    ASSUME TypedInv, Distinct, TypedInv', Distinct', NEW p \in All, NEW n, NEW kind, NEW name,
           NEW on, NEW lex, Deeper(p, n, kind, name, on, lex), NEW i
    PROVE  Cardinality(CapEnvs(i)')
             = IF kind = "capability" /\ on = i THEN Cardinality(CapEnvs(i)) + 1
               ELSE Cardinality(CapEnvs(i))
<1>1. PICK T, U : T = CapEnvs(i) /\ U = CapEnvs(i)'
  OBVIOUS
<1>2. \A e : e \in T <=> \E q \in All : \E k \in CapCalls(q, i) : EnvOf(q, k) = e
  BY <1>1, InCapEnvs DEF CapEnvsAre
<1>3. \A e : e \in U <=> \E q \in All : \E k \in CapCalls(q, i)' : EnvOf(q, k)' = e
  BY <1>1, InCapEnvsNext DEF CapEnvsAre
<1>4. \A q \in All : q # p => CapCalls(q, i)' = CapCalls(q, i)
                              /\ \A k : EnvOf(q, k)' = EnvOf(q, k)
  BY OthersSame DEF Deeper, Same, CapCalls
<1>5. n \in Nat /\ Depth(p) = n /\ EnvOf(p, n + 1)' = made + 1
      /\ \A k \in 1..n : EnvOf(p, k)' = EnvOf(p, k)
  BY DEF Deeper, Same, Becomes
<1>6. \A k \in CapCalls(p, i) : EnvOf(p, k)' = EnvOf(p, k)
  <2>1. CapCalls(p, i) \subseteq 1..n
    BY <1>5, CapCallsAre
  <2>2. QED
    BY <1>5, <2>1
<1>7. CASE kind = "capability" /\ on = i
  <2>1. CapCalls(p, i)' = CapCalls(p, i) \cup {n + 1}
    BY <1>7, CapCallsDeeper
  <2>2. \A e : e \in U <=> e \in T \/ e = made + 1
    <3>1. \A e : (\E k \in CapCalls(p, i)' : EnvOf(p, k)' = e)
                   <=> (\E k \in CapCalls(p, i) : EnvOf(p, k) = e) \/ e = made + 1
      BY <1>5, <1>6, <2>1
    <3>2. QED
      BY <1>2, <1>3, <1>4, <3>1
  <2>3. U = T \cup {made + 1}
    BY <2>2
  <2>4. made + 1 \notin T
    <3>1. made \in Nat
      BY ScopesAssumption DEF TypedInv, ScopesTyped
    <3>2. \A q \in All : \A k \in CapCalls(q, i) : EnvOf(q, k) \in 0..made
      BY CapCallsAre DEF Distinct
    <3>3. QED
      BY <1>2, <3>1, <3>2
  <2>5. Cardinality(U) = Cardinality(T) + 1
    BY <1>1, <2>3, <2>4, CapEnvsFinite, FS_AddElement
  <2>6. QED
    BY <1>1, <1>7, <2>5
<1>8. CASE ~ (kind = "capability" /\ on = i)
  <2>1. CapCalls(p, i)' = CapCalls(p, i)
    BY <1>8, CapCallsDeeper
  <2>2. \A q \in All : CapCalls(q, i)' = CapCalls(q, i)
                       /\ \A k \in CapCalls(q, i) : EnvOf(q, k)' = EnvOf(q, k)
    BY <1>4, <1>6, <2>1
  <2>3. \A e : e \in U <=> e \in T
    BY <1>2, <1>3, <2>2
  <2>4. QED
    BY <1>1, <1>8, <2>3
<1>9. QED
  BY <1>7, <1>8

\* Calls are left.
LEMMA CountCut ==
    ASSUME TypedInv, Distinct, TypedInv', Distinct', NEW p \in All, NEW m, Cuts(p, m), NEW i,
           NEW G, G = {k \in CapCalls(p, i) : k > m}
    PROVE  /\ Cardinality(G) \in Nat
           /\ Cardinality(CapEnvs(i)') = Cardinality(CapEnvs(i)) - Cardinality(G)
<1>1. PICK T, U : T = CapEnvs(i) /\ U = CapEnvs(i)'
  OBVIOUS
<1>2. \A e : e \in T <=> \E q \in All : \E k \in CapCalls(q, i) : EnvOf(q, k) = e
  BY <1>1, InCapEnvs DEF CapEnvsAre
<1>3. \A e : e \in U <=> \E q \in All : \E k \in CapCalls(q, i)' : EnvOf(q, k)' = e
  BY <1>1, InCapEnvsNext DEF CapEnvsAre
<1>4. \A q \in All : q # p => CapCalls(q, i)' = CapCalls(q, i)
                              /\ \A k : EnvOf(q, k)' = EnvOf(q, k)
  BY OthersSame DEF Cuts, Same, CapCalls
<1>5. PICK K : K = CapCalls(p, i)
  OBVIOUS
<1>6. CapCalls(p, i)' = {k \in K : k <= m}
  BY <1>5, CapCallsCut
<1>7. Depth(p) \in Nat /\ m \in Nat /\ K \subseteq 1..Depth(p) /\ G \subseteq 1..Depth(p)
  BY <1>5, CapCallsAre, CutAgrees
<1>8. \A k \in 1..m : EnvOf(p, k)' = EnvOf(p, k)
  BY DEF Cuts, Same
<1>9. \A j, k \in K : EnvOf(p, j) = EnvOf(p, k) => j = k
  BY <1>7 DEF Distinct
<1>10. \A q \in All : q # p => \A j \in CapCalls(q, i), k \in K : EnvOf(q, j) # EnvOf(p, k)
  BY <1>7, CapCallsAre DEF Distinct
<1>11. PICK X : X = {e \in T : \E k \in G : EnvOf(p, k) = e}
  OBVIOUS
<1>12. \A e : e \in X <=> \E k \in G : EnvOf(p, k) = e
  BY <1>2, <1>5, <1>11
<1>13. IsFiniteSet(G) /\ Cardinality(G) \in Nat
  BY <1>7, Picked
<1>14. Cardinality(X) = Cardinality(G)
  <2>1. PICK f : f = [k \in G |-> EnvOf(p, k)]
    OBVIOUS
  <2>2. \A k \in G : f[k] = EnvOf(p, k)
    BY <2>1
  <2>3. G \subseteq K
    BY <1>5
  <2>4. \A j, k \in G : f[j] = f[k] => j = k
    BY <1>9, <2>2, <2>3
  <2>5. \A e : e \in X <=> \E k \in G : f[k] = e
    BY <1>12, <2>2
  <2>6. QED
    BY <1>13, <2>4, <2>5, OneToOne
<1>15. \A e : e \in U <=> e \in T /\ e \notin X
  <2> SUFFICES ASSUME NEW e PROVE e \in U <=> e \in T /\ e \notin X
    OBVIOUS
  <2>1. \A k \in K : k <= m \/ k \in G
    BY <1>5, <1>7
  <2>2. \A k \in K : k <= m => k \in 1..m /\ k \notin G
    BY <1>7
  <2>3. (\E k \in CapCalls(p, i)' : EnvOf(p, k)' = e) <=> \E k \in K : k <= m /\ EnvOf(p, k) = e
    BY <1>6, <1>8, <2>2
  <2>4. ASSUME e \in U PROVE e \in T /\ e \notin X
    <3>1. PICK q \in All : \E k \in CapCalls(q, i)' : EnvOf(q, k)' = e
      BY <1>3, <2>4
    <3>2. CASE q = p
      <4>1. PICK k \in K : k <= m /\ EnvOf(p, k) = e
        BY <2>3, <3>1, <3>2
      <4>2. \A j \in G : EnvOf(p, j) # e
        BY <1>5, <1>9, <2>2, <4>1
      <4>3. QED
        BY <1>2, <1>5, <1>12, <4>1, <4>2
    <3>3. CASE q # p
      <4>1. PICK k \in CapCalls(q, i) : EnvOf(q, k) = e
        BY <1>4, <3>1, <3>3
      <4>2. \A j \in G : EnvOf(p, j) # e
        BY <1>5, <1>10, <3>3, <4>1
      <4>3. QED
        BY <1>2, <1>12, <4>1, <4>2
    <3>4. QED
      BY <3>2, <3>3
  <2>5. ASSUME e \in T, e \notin X PROVE e \in U
    <3>1. PICK q \in All : \E k \in CapCalls(q, i) : EnvOf(q, k) = e
      BY <1>2, <2>5
    <3>2. CASE q = p
      <4>1. PICK k \in K : EnvOf(p, k) = e
        BY <1>5, <3>1, <3>2
      <4>2. k <= m
        BY <1>12, <2>1, <2>5, <4>1
      <4>3. QED
        BY <1>3, <2>3, <4>1, <4>2
    <3>3. CASE q # p
      BY <1>3, <1>4, <3>1, <3>3
    <3>4. QED
      BY <3>2, <3>3
  <2>6. QED
    BY <2>4, <2>5
<1>16. Cardinality(U) = Cardinality(T) - Cardinality(X)
  <2>1. U = T \ X /\ T \cap X = X
    BY <1>11, <1>15
  <2>2. IsFiniteSet(T)
    BY <1>1, CapEnvsFinite
  <2>3. Cardinality(T \ X) = Cardinality(T) - Cardinality(T \cap X)
    BY <2>2, FS_Difference
  <2>4. QED
    BY <2>1, <2>3, Zenon
<1>17. QED
  BY <1>1, <1>13, <1>14, <1>16

\* p begins.
LEMMA CountBegins ==
    ASSUME TypedInv, Distinct, TypedInv', Distinct', NEW p \in All, Begins(p), NEW i
    PROVE  /\ CapEnvs(i)' = CapEnvs(i)
           /\ i = p => CapEnvs(i) = {}
<1>1. PICK T, U : T = CapEnvs(i) /\ U = CapEnvs(i)'
  OBVIOUS
<1>2. \A e : e \in T <=> \E q \in All : \E k \in CapCalls(q, i) : EnvOf(q, k) = e
  BY <1>1, InCapEnvs DEF CapEnvsAre
<1>3. \A e : e \in U <=> \E q \in All : \E k \in CapCalls(q, i)' : EnvOf(q, k)' = e
  BY <1>1, InCapEnvsNext DEF CapEnvsAre
<1>4. \A q \in All : q # p => CapCalls(q, i)' = CapCalls(q, i)
                              /\ \A k : EnvOf(q, k)' = EnvOf(q, k)
  BY OthersSame DEF Begins, Same, CapCalls
<1>5. CapCalls(p, i)' = {} /\ CapCalls(p, i) = {}
  BY CallsBegun DEF CapCalls, Kinds
<1>6. \A e : e \in U <=> e \in T
  BY <1>2, <1>3, <1>4, <1>5
<1>7. ASSUME i = p PROVE T = {}
  <2>1. p \in Procs /\ p # Root /\ Own(p) = p
    BY ScopesAssumption DEF Begins, Own
  <2>2. ASSUME NEW q \in All, q # p, NEW k \in CapCalls(q, i) PROVE FALSE
    <3>1. OnOf(q, k) = p /\ k \in 1..Depth(q)
      BY <1>7, <2>2, CapCallsAre
    <3>2. OnOf(q, k) \in {Own(q), Root}
      BY <3>1 DEF TypedInv, Shaped
    <3>3. Own(q) # Own(p)
      BY <2>2, OwnsDiffer
    <3>4. QED
      BY <2>1, <3>1, <3>2, <3>3
  <2>3. \A q \in All : CapCalls(q, i) = {}
    BY <1>5, <2>2
  <2>4. QED
    BY <1>2, <2>3
<1>8. QED
  BY <1>1, <1>6, <1>7

\* p leaves all calls but the first m, and their capabilities are popped.
Popped(p, m, i) == Cardinality({k \in CapCalls(p, i) : k > m})

Pops(p, m) ==
    /\ arrays' = arrays
    /\ caps' = [i \in Interps |-> [array |-> ArrayOf(i), len |-> LenOf(i) - Popped(p, m, i)]]

LEMMA Shorter ==
    ASSUME SlicesTyped, NEW i \in Interps, NEW c
    PROVE  [caps[i] EXCEPT !.len = @ - c] = [array |-> ArrayOf(i), len |-> LenOf(i) - c]
<1>1. PICK a, l : a = ArrayOf(i) /\ l = LenOf(i)
  OBVIOUS
<1>2. caps[i] = [array |-> a, len |-> l]
  BY <1>1, SliceRecord
<1>3. PICK d : d = l - c
  OBVIOUS
<1>4. [[array |-> a, len |-> l] EXCEPT !.len = l - c] = [array |-> a, len |-> d]
  BY <1>3
<1>5. [caps[i] EXCEPT !.len = @ - c] = [[array |-> a, len |-> l] EXCEPT !.len = l - c]
  BY <1>2
<1>6. QED
  BY <1>1, <1>3, <1>4, <1>5, Zenon

LEMMA PopsNothing ==
    ASSUME TypedInv, SlicesTyped, NEW p \in All, NEW m, \A i : CapCalls(p, i) = {},
           caps' = caps, arrays' = arrays
    PROVE  Pops(p, m)
<1>1. ASSUME NEW i \in Interps
      PROVE  caps[i] = [array |-> ArrayOf(i), len |-> LenOf(i) - Popped(p, m, i)]
  <2>1. Popped(p, m, i) = 0
    BY FS_EmptySet DEF Popped
  <2>2. PICK l \in Nat : l = LenOf(i)
    BY SliceIs
  <2>3. LenOf(i) - Popped(p, m, i) = LenOf(i)
    BY <2>1, <2>2
  <2>4. QED
    BY <2>3, SliceRecord, Zenon
<1>2. caps \in [Interps -> Slice]
  BY DEF SlicesTyped
<1>3. caps = [i \in Interps |-> [array |-> ArrayOf(i), len |-> LenOf(i) - Popped(p, m, i)]]
  BY <1>1, <1>2
<1>4. QED
  BY <1>3, Zenon DEF Pops

LEMMA ReturnPops ==
    ASSUME TypedInv, SlicesTyped, NEW p \in All, NEW n, n = Depth(p), Return(p)
    PROVE  Pops(p, n - 1)
<1>1. n \in Nat /\ n > 1 /\ frames \in [All -> Seq(Frame)]
  BY ReturnCuts DEF TypedInv, ScopesTyped
<1>2. PICK on : on = OnOf(p, n) /\ on \in Interps
  <2>1. n \in 1..Depth(p)
    BY <1>1
  <2>2. QED
    BY <1>1, <2>1, FrameIs
<1>3. Top(p).kind = KindOf(p, n) /\ Top(p).on = on
  BY <1>2 DEF Top, KindOf, OnOf, Depth
<1>4. ASSUME NEW i
      PROVE  Popped(p, n - 1, i) = IF KindOf(p, n) = "capability" /\ i = on THEN 1 ELSE 0
  <2>1. PICK G : G = {k \in CapCalls(p, i) : k > n - 1}
    OBVIOUS
  <2>2. n \in CapCalls(p, i) <=> KindOf(p, n) = "capability" /\ i = on
    <3>1. Calls(p, "capability") = {k \in 1..n : KindOf(p, k) = "capability"} /\ n \in 1..n
      BY <1>1, FramesAre
    <3>2. QED
      BY <1>2, <3>1 DEF CapCalls
  <2>3. \A k \in CapCalls(p, i) : k > n - 1 <=> k = n
    BY <1>1, CapCallsAre
  <2>4. \A k : k \in G <=> k = n /\ KindOf(p, n) = "capability" /\ i = on
    BY <2>1, <2>2, <2>3
  <2>5. CASE KindOf(p, n) = "capability" /\ i = on
    <3>1. G = {n}
      BY <2>4, <2>5
    <3>2. QED
      BY <2>1, <2>5, <3>1, FS_Singleton DEF Popped
  <2>6. CASE ~ (KindOf(p, n) = "capability" /\ i = on)
    <3>1. G = {}
      BY <2>4, <2>6
    <3>2. QED
      BY <2>1, <2>6, <3>1, FS_EmptySet DEF Popped
  <2>7. QED
    BY <2>5, <2>6
<1>5. ASSUME NEW i \in Interps
      PROVE  caps'[i] = [array |-> ArrayOf(i), len |-> LenOf(i) - Popped(p, n - 1, i)]
  <2>1. caps \in [Interps -> Slice]
    BY DEF SlicesTyped
  <2>2. CASE KindOf(p, n) = "capability" /\ i = on
    <3>1. caps' = [caps EXCEPT ![on].len = @ - 1]
      BY <1>3, <2>2 DEF Return
    <3>2. caps'[i] = [caps[i] EXCEPT !.len = @ - 1]
      BY <2>1, <2>2, <3>1
    <3>3. caps'[i] = [array |-> ArrayOf(i), len |-> LenOf(i) - 1]
      BY <3>2, Shorter, Zenon
    <3>4. Popped(p, n - 1, i) = 1
      BY <1>4, <2>2
    <3>5. QED
      BY <3>3, <3>4, Zenon
  <2>3. CASE ~ (KindOf(p, n) = "capability" /\ i = on)
    <3>1. caps'[i] = caps[i]
      BY <1>2, <1>3, <2>1, <2>3 DEF Return
    <3>2. Popped(p, n - 1, i) = 0
      BY <1>4, <2>3
    <3>3. PICK l \in Nat : l = LenOf(i)
      BY SliceIs
    <3>4. LenOf(i) - Popped(p, n - 1, i) = LenOf(i)
      BY <3>2, <3>3
    <3>5. QED
      BY <3>1, <3>4, SliceRecord, Zenon
  <2>4. QED
    BY <2>2, <2>3
<1>6. DOMAIN caps' = Interps /\ caps' = [i \in DOMAIN caps' |-> caps'[i]]
  BY DEF Return, SlicesTyped
<1>7. caps' = [i \in Interps |->
                [array |-> ArrayOf(i), len |-> LenOf(i) - Popped(p, n - 1, i)]]
  BY <1>5, <1>6
<1>8. QED
  BY <1>7, Zenon DEF Pops, Return

LEMMA PanicPops ==
    ASSUME TypedInv, SlicesTyped, NEW p \in All, NEW m, m = Left(p), Panic(p)
    PROVE  Pops(p, m)
<1>1. \A i : {k \in Unwound(p, "capability") : frames[p][k].on = i}
                 = {k \in CapCalls(p, i) : k > m}
  BY DEF Unwound, CapCalls, OnOf
<1>2. ASSUME NEW i \in Interps
      PROVE  [caps[i] EXCEPT !.len =
                 @ - Cardinality({k \in Unwound(p, "capability") : frames[p][k].on = i})]
               = [array |-> ArrayOf(i), len |-> LenOf(i) - Popped(p, m, i)]
  BY <1>1, Shorter, Zenon DEF Popped
<1>3. caps' = [i \in Interps |->
         [caps[i] EXCEPT !.len =
             @ - Cardinality({k \in Unwound(p, "capability") : frames[p][k].on = i})]]
      /\ arrays' = arrays
  BY DEF Panic
<1>4. QED
  BY <1>2, <1>3, Zenon DEF Pops

LEMMA PopsKeep ==
    ASSUME TypedInv, Distinct, TypedInv', Distinct', SlicesTyped, Counted,
           NEW p \in All, NEW m, Cuts(p, m), Pops(p, m)
    PROVE  /\ SlicesTyped' /\ Counted'
           /\ \A i \in Interps : ArrayOf(i)' = ArrayOf(i) /\ LenOf(i)' = LenOf(i) - Popped(p, m, i)
<1>1. ASSUME NEW i \in Interps
      PROVE  /\ ArrayOf(i)' = ArrayOf(i) /\ LenOf(i)' = LenOf(i) - Popped(p, m, i)
             /\ LenOf(i)' \in 0..LenOf(i)
             /\ caps'[i] \in Slice
             /\ Cardinality(CapEnvs(i)') <= LenOf(i)'
  <2>1. PICK c \in Nat : c = Popped(p, m, i)
                         /\ Cardinality(CapEnvs(i)') = Cardinality(CapEnvs(i)) - c
    <3>1. PICK G : G = {k \in CapCalls(p, i) : k > m}
      OBVIOUS
    <3>2. Cardinality(G) \in Nat
          /\ Cardinality(CapEnvs(i)') = Cardinality(CapEnvs(i)) - Cardinality(G)
      BY <3>1, CountCut
    <3>3. Popped(p, m, i) = Cardinality(G)
      BY <3>1 DEF Popped
    <3>4. QED
      BY <3>2, <3>3
  <2>2. PICK a \in Nat, l \in Nat : a = ArrayOf(i) /\ l = LenOf(i)
    BY SliceIs
  <2>3. Cardinality(CapEnvs(i)) \in Nat /\ Cardinality(CapEnvs(i)') \in Nat
    <3>1. PICK T : T = CapEnvs(i)
      OBVIOUS
    <3>2. PICK U : U = CapEnvs(i)'
      OBVIOUS
    <3>3. IsFiniteSet(0..MaxMade)
      BY FS_Interval, ScopesAssumption
    <3>4. U \in SUBSET (0..MaxMade)
      BY <3>2 DEF CapEnvs
    <3>5. Cardinality(T) \in Nat
      BY <3>1, CapEnvsFinite
    <3>6. Cardinality(U) \in Nat
      BY <3>3, <3>4, FS_CardinalityType, FS_Subset
    <3>7. QED
      BY <3>1, <3>2, <3>5, <3>6
  <2>4. Cardinality(CapEnvs(i)) <= l
    BY <2>2 DEF Counted
  <2>5. l - c \in 0..l /\ Cardinality(CapEnvs(i)') <= l - c
    BY <2>1, <2>3, <2>4
  <2>6. PICK s : s = [array |-> a, len |-> l - c]
    OBVIOUS
  <2>7. s \in Slice /\ s.array = a /\ s.len = l - c
    BY <2>5, <2>6 DEF Slice
  <2>8. caps'[i] = s
    BY <2>1, <2>2, <2>6 DEF Pops
  <2>9. ArrayOf(i)' = a /\ LenOf(i)' = l - c
    BY <2>7, <2>8 DEF ArrayOf, LenOf
  <2>10. QED
    BY <2>1, <2>2, <2>5, <2>7, <2>8, <2>9
<1>2. caps' \in [Interps -> Slice]
  BY <1>1 DEF Pops
<1>3. arrays' = arrays
  BY DEF Pops
<1>4. ASSUME NEW i \in Interps
      PROVE  /\ ArrayOf(i)' \in 0..Len(arrays')
             /\ IF ArrayOf(i)' = 0 THEN LenOf(i)' = 0 ELSE LenOf(i)' <= Len(arrays'[ArrayOf(i)'])
  <2>1. PICK a \in Nat, l \in Nat : a = ArrayOf(i) /\ l = LenOf(i) /\ a \in 0..Len(arrays)
    BY SliceIs
  <2>2. ArrayOf(i)' = a /\ LenOf(i)' \in 0..l
    BY <1>1, <2>1
  <2>3. (a = 0 => l = 0) /\ (a # 0 => l <= Len(arrays[a]) /\ Len(arrays[a]) \in Nat)
    BY <2>1, SliceIs
  <2>4. QED
    BY <1>3, <2>1, <2>2, <2>3
<1>5. SlicesTyped'
  BY <1>2, <1>3, <1>4 DEF SlicesTyped
<1>6. QED
  BY <1>1, <1>5 DEF Counted

LEMMA EndPops ==
    ASSUME TypedInv, SlicesTyped, NEW p \in All, Depth(p) = 1, End(p)
    PROVE  Pops(p, 0)
<1>1. ASSUME NEW i PROVE CapCalls(p, i) = {}
  <2>1. CapCalls(p, i) \subseteq 2..1
    BY CapCallsAre
  <2>2. QED
    BY <2>1
<1>2. caps' = caps /\ arrays' = arrays
  BY DEF End
<1>3. QED
  BY <1>1, <1>2, PopsNothing

\* p begins, with the slice of the root.
Copies(p) ==
    /\ arrays' = arrays /\ caps' = [caps EXCEPT ![p] = caps[Root]]

LEMMA CopiesIs ==
    ASSUME SlicesTyped, NEW p \in Procs, Copies(p)
    PROVE  /\ SlicesTyped'
           /\ ArrayOf(p)' = ArrayOf(Root) /\ LenOf(p)' = LenOf(Root)
           /\ \A i \in Interps : i # p => ArrayOf(i)' = ArrayOf(i) /\ LenOf(i)' = LenOf(i)
<1>1. p \in Interps /\ Root \in Interps /\ caps \in [Interps -> Slice] /\ arrays' = arrays
  BY DEF Interps, SlicesTyped, Copies
<1>2. PICK s \in Slice : s = caps[Root]
  BY <1>1
<1>3. caps' = [caps EXCEPT ![p] = s]
  BY <1>2 DEF Copies
<1>4. caps' \in [Interps -> Slice] /\ caps'[p] = s
      /\ \A i \in Interps : i # p => caps'[i] = caps[i]
  BY <1>1, <1>3
<1>5. /\ ArrayOf(p)' = ArrayOf(Root) /\ LenOf(p)' = LenOf(Root)
      /\ \A i \in Interps : i # p => ArrayOf(i)' = ArrayOf(i) /\ LenOf(i)' = LenOf(i)
  BY <1>2, <1>4 DEF ArrayOf, LenOf
<1>6. SlicesTyped'
  BY <1>1, <1>4, <1>5 DEF SlicesTyped
<1>7. QED
  BY <1>5, <1>6

\* What a step of p is, for the slices.
LEMMA SliceCases ==
    ASSUME TypedInv, SlicesTyped, NEW p \in All, NEW n, n = Depth(p), Step(p)
    PROVE  \/ p \in setup.procs /\ \E name, on, lex :
                Entry(p, n, "capability", name, on, lex) /\ on \in Interps /\ Appends(on, name)
           \/ p \in setup.procs /\ caps' = caps /\ arrays' = arrays /\ \E kind, name, on, lex :
                Entry(p, n, kind, name, on, lex) /\ kind # "capability"
           \/ p \in setup.procs /\ Begins(p) /\ Copies(p)
           \/ \E m : Cuts(p, m) /\ Pops(p, m)
<1>1. ASSUME NEW kind, NEW name, NEW on, NEW lex, Entry(p, n, kind, name, on, lex)
      PROVE  IF kind = "capability" THEN on \in Interps /\ Appends(on, name)
             ELSE caps' = caps /\ arrays' = arrays
  <2>1. on \in {Own(p), Root} /\ name \in Names
        /\ IF kind = "capability" THEN AppendCap(on, name) ELSE caps' = caps /\ arrays' = arrays
    BY <1>1 DEF Entry
  <2>2. on \in Interps
    BY <2>1, OwnIs DEF Interps
  <2>3. QED
    BY <2>1, <2>2, AppendIs
<1>2. CASE p \in setup.procs /\ \E kind, name, on, lex : Entry(p, n, kind, name, on, lex)
  BY <1>1, <1>2
<1>3. CASE p \in setup.procs /\ Begin(p) /\ Begins(p)
  BY <1>3 DEF Begin, Copies
<1>4. CASE End(p) /\ Cuts(p, 0) /\ n = 1
  BY <1>4, EndPops
<1>5. CASE Return(p) /\ Cuts(p, n - 1)
  BY <1>5, ReturnPops
<1>6. CASE Panic(p) /\ Cuts(p, Left(p))
  BY <1>6, PanicPops
<1>7. QED
  BY <1>2, <1>3, <1>4, <1>5, <1>6, StepCases

LEMMA SlicesKeep ==
    ASSUME TypedInv, Distinct, TypedInv', Distinct', SlicesTyped, Counted,
           NEW p \in All, Step(p)
    PROVE  SlicesTyped' /\ Counted'
<1>1. PICK n : n = Depth(p)
  OBVIOUS
<1>2. ASSUME NEW name, NEW on \in Interps, NEW lex, Entry(p, n, "capability", name, on, lex),
             Appends(on, name)
      PROVE  SlicesTyped' /\ Counted'
  <2>1. Deeper(p, n, "capability", name, on, lex)
    BY <1>2 DEF Entry
  <2>2. ASSUME NEW i \in Interps PROVE Cardinality(CapEnvs(i)') <= LenOf(i)'
    <3>1. Cardinality(CapEnvs(i)') = IF on = i THEN Cardinality(CapEnvs(i)) + 1
                                     ELSE Cardinality(CapEnvs(i))
      BY <2>1, CountDeeper
    <3>2. LenOf(i)' = IF on = i THEN LenOf(i) + 1 ELSE LenOf(i)
      BY <1>2 DEF Appends
    <3>3. Cardinality(CapEnvs(i)) <= LenOf(i) /\ LenOf(i) \in Nat
      BY SliceIs DEF Counted
    <3>4. PICK c \in Nat : c = Cardinality(CapEnvs(i))
      BY CapEnvsFinite
    <3>5. QED
      BY <3>1, <3>2, <3>3, <3>4
  <2>3. QED
    BY <1>2, <2>2 DEF Appends, Counted
<1>3. ASSUME NEW kind, NEW name, NEW on, NEW lex, Entry(p, n, kind, name, on, lex),
             kind # "capability", caps' = caps, arrays' = arrays
      PROVE  SlicesTyped' /\ Counted'
  <2>1. Deeper(p, n, kind, name, on, lex)
    BY <1>3 DEF Entry
  <2>2. SlicesTyped' /\ \A i \in Interps : LenOf(i)' = LenOf(i)
    BY <1>3 DEF SlicesTyped, LenOf, ArrayOf
  <2>3. \A i \in Interps : Cardinality(CapEnvs(i)') = Cardinality(CapEnvs(i))
    BY <1>3, <2>1, CountDeeper
  <2>4. QED
    BY <2>2, <2>3 DEF Counted
<1>4. ASSUME Begins(p), Copies(p) PROVE SlicesTyped' /\ Counted'
  <2>1. p \in Procs
    BY <1>4 DEF Begins
  <2>2. SlicesTyped' /\ \A i \in Interps : i # p => LenOf(i)' = LenOf(i)
    BY <1>4, <2>1, CopiesIs
  <2>3. ASSUME NEW i \in Interps PROVE Cardinality(CapEnvs(i)') <= LenOf(i)'
    <3>1. CapEnvs(i)' = CapEnvs(i) /\ (i = p => CapEnvs(i) = {})
      BY <1>4, CountBegins
    <3>2. CASE i = p
      <4>1. Cardinality(CapEnvs(i)') = 0
        BY <3>1, <3>2, FS_EmptySet
      <4>2. LenOf(p)' = LenOf(Root) /\ LenOf(Root) \in Nat
        BY <1>4, <2>1, CopiesIs, SliceIs DEF Interps
      <4>3. QED
        BY <3>2, <4>1, <4>2
    <3>3. CASE i # p
      BY <2>2, <3>1, <3>3 DEF Counted
    <3>4. QED
      BY <3>2, <3>3
  <2>4. QED
    BY <2>2, <2>3 DEF Counted
<1>5. ASSUME NEW m, Cuts(p, m), Pops(p, m) PROVE SlicesTyped' /\ Counted'
  BY <1>5, PopsKeep
<1>6. QED
  BY <1>1, <1>2, <1>3, <1>4, <1>5, SliceCases

LEMMA SlicesBegin == Init => SlicesTyped /\ Counted
<1> SUFFICES ASSUME Init, TypedInv PROVE SlicesTyped /\ Counted
  BY TypedBegins
<1>1. caps = [i \in Interps |-> Nil] /\ arrays = <<>>
  BY DEF Init
<1>2. PICK s : s = Nil
  OBVIOUS
<1>3. s \in Slice /\ s.array = 0 /\ s.len = 0
  BY <1>2 DEF Nil, Slice
<1>4. caps \in [Interps -> Slice] /\ \A i \in Interps : ArrayOf(i) = 0 /\ LenOf(i) = 0
  BY <1>1, <1>2, <1>3 DEF ArrayOf, LenOf
<1>5. arrays \in Seq(Seq(Names)) /\ Len(arrays) = 0
  BY <1>1
<1>6. SlicesTyped
  BY <1>4, <1>5 DEF SlicesTyped
<1>7. ASSUME NEW i \in Interps PROVE Cardinality(CapEnvs(i)) <= LenOf(i)
  <2>1. ASSUME NEW q \in All PROVE CapCalls(q, i) = {}
    <3>1. frames = [p \in All |-> IF p = Main THEN <<Body(Root, 0)>> ELSE <<>>]
      BY DEF Init
    <3>2. Depth(q) \in {0, 1}
      BY <3>1 DEF Depth
    <3>3. CapCalls(q, i) \subseteq 2..Depth(q)
      BY CapCallsAre
    <3>4. 2..Depth(q) = {}
      BY <3>2
    <3>5. QED
      BY <3>3, <3>4
  <2>2. CapEnvs(i) = {}
    BY <2>1, Zenon DEF CapEnvs
  <2>3. QED
    BY <1>4, <2>2, FS_EmptySet
<1>8. QED
  BY <1>6, <1>7 DEF Counted

-----------------------------------------------------------------------------
(* The types of all, however goroutines interleave.                         *)

LEMMA ScopesTypes ==
    ASSUME ScopesTyped, SlicesTyped
    PROVE  TypeOK
  BY Zenon DEF ScopesTyped, SlicesTyped, TypeOK, ArrayOf

TypesInv == TypedInv /\ Homes /\ Distinct /\ SlicesTyped /\ Counted

LEMMA TypesKeep == TypesInv /\ [Next]_vars => TypesInv'
<1> SUFFICES ASSUME TypesInv, [Next]_vars PROVE TypesInv'
  OBVIOUS
<1>1. ASSUME NEW p \in All, Step(p) PROVE TypesInv'
  <2>1. TypedInv' /\ Homes' /\ Distinct'
    BY <1>1, TypedKeeps, HomesKeep, DistinctKeeps DEF TypesInv
  <2>2. SlicesTyped' /\ Counted'
    BY <1>1, <2>1, SlicesKeep DEF TypesInv
  <2>3. QED
    BY <2>1, <2>2 DEF TypesInv
<1>2. CASE UNCHANGED vars
  <2>1. /\ setup' = setup /\ frames' = frames /\ env' = env /\ caps' = caps /\ arrays' = arrays
        /\ effects' = effects /\ sessions' = sessions /\ made' = made
    BY <1>2 DEF vars
  <2>2. ScopesTyped' /\ made \in Nat
    BY <2>1, ScopesAssumption DEF TypesInv, TypedInv, ScopesTyped
  <2>3. ASSUME NEW q \in All PROVE Shaped(q)' /\ SavedFit(q)' /\ AtHome(q)' /\ OnOne(q)'
    BY <2>1, <2>2, ShapeSame, SavedSame, HomeSame DEF TypesInv, TypedInv, Homes
  <2>4. Distinct'
    <3>1. \A q \in All : Depth(q)' = Depth(q) /\ \A k : EnvOf(q, k)' = EnvOf(q, k)
      BY <2>1 DEF Depth, EnvOf
    <3>2. QED
      BY <2>1, <3>1 DEF TypesInv, Distinct
  <2>5. SlicesTyped' /\ \A i : LenOf(i)' = LenOf(i)
    BY <2>1 DEF TypesInv, SlicesTyped, ArrayOf, LenOf
  <2>6. \A i : CapEnvs(i)' = CapEnvs(i)
    <3>1. \A q, i : CapCalls(q, i)' = CapCalls(q, i) /\ \A k : EnvOf(q, k)' = EnvOf(q, k)
      BY <2>1 DEF CapCalls, Calls, OnOf, EnvOf
    <3>2. QED
      BY <3>1 DEF CapEnvs
  <2>7. Counted'
    BY <2>5, <2>6 DEF TypesInv, Counted
  <2>8. QED
    BY <2>2, <2>3, <2>4, <2>5, <2>7 DEF TypesInv, TypedInv, Homes
<1>3. QED
  BY <1>1, <1>2 DEF Next

(***************************************************************************)
(* However many goroutines share the root interpreter, its slices and its  *)
(* effect stack, and wherever they panic, no pop of with_capability finds  *)
(* its slice shorter than what it pushed, no slice is longer than its      *)
(* array, and no call restores an environment that was never made.         *)
(***************************************************************************)
THEOREM ScopesTypeCorrect == Spec => []TypeOK
<1>1. Init => TypesInv
  BY TypedBegins, HomesBegin, DistinctBegins, SlicesBegin DEF TypesInv
<1>2. TypesInv => TypeOK
  BY ScopesTypes DEF TypesInv, TypedInv
<1>3. QED
  BY <1>1, <1>2, TypesKeep, PTL DEF Spec

-----------------------------------------------------------------------------
(* Capabilities, of goroutines that are apart and stay on one interpreter.  *)

View(i)    == [k \in 1..LenOf(i) |-> arrays[ArrayOf(i)][k]]
NamesOf(p) == [k \in 1..Depth(p) |-> NameOf(p, k)]

SliceFits(p, i) == Fits(View(i), CapCalls(p, i), NamesOf(p))

LEMMA ViewIs ==
    ASSUME SlicesTyped, NEW i \in Interps
    PROVE  View(i) \in Seq(Names) /\ Len(View(i)) = LenOf(i) /\ LenOf(i) \in Nat
<1>1. PICK a \in Nat, l \in Nat : a = ArrayOf(i) /\ l = LenOf(i)
  BY SliceIs
<1>2. \A k \in 1..l : arrays[a][k] \in Names
  <2>1. CASE a = 0
    <3>1. l = 0
      BY <1>1, <2>1, SliceIs
    <3>2. QED
      BY <3>1
  <2>2. CASE a # 0
    <3>1. PICK t \in Seq(Names) : t = arrays[a] /\ l <= Len(t)
      BY <1>1, <2>2, SliceIs
    <3>2. QED
      BY <3>1
  <2>3. QED
    BY <2>1, <2>2
<1>3. View(i) = [k \in 1..l |-> arrays[a][k]]
  BY <1>1 DEF View
<1>4. View(i) \in [1..l -> Names]
  BY <1>2, <1>3
<1>5. QED
  BY <1>1, <1>4

LEMMA ViewAppended ==
    ASSUME SlicesTyped, NEW i \in Interps, NEW x \in Names, Appends(i, x)
    PROVE  View(i)' = Append(View(i), x)
<1>1. PICK l \in Nat : l = LenOf(i)
  BY SliceIs
<1>2. PICK v \in Seq(Names) : v = View(i) /\ Len(v) = l
  BY <1>1, ViewIs
<1>3. \A k \in 1..l : v[k] = arrays[ArrayOf(i)][k]
  BY <1>1, <1>2 DEF View
<1>4. /\ LenOf(i)' = l + 1
      /\ \A k \in 1..l : arrays'[ArrayOf(i)'][k] = arrays[ArrayOf(i)][k]
      /\ arrays'[ArrayOf(i)'][l + 1] = x
  BY <1>1 DEF Appends
<1>5. View(i)' = [k \in 1..l + 1 |-> arrays'[ArrayOf(i)'][k]]
  BY <1>4 DEF View
<1>6. Append(v, x) = [k \in 1..l + 1 |-> IF k = l + 1 THEN x ELSE v[k]]
  <2>1. PICK w : w = [k \in 1..l + 1 |-> IF k = l + 1 THEN x ELSE v[k]]
    OBVIOUS
  <2>2. w \in [1..l + 1 -> Names]
    BY <1>2, <2>1
  <2>3. w \in Seq(Names) /\ Len(w) = l + 1
    BY <2>2
  <2>4. Append(v, x) \in Seq(Names) /\ Len(Append(v, x)) = l + 1
    BY <1>2
  <2>5. \A k \in 1..l + 1 : Append(v, x)[k] = w[k]
    BY <1>2, <2>1
  <2>6. Append(v, x) = w
    BY <2>3, <2>4, <2>5, SeqEqual
  <2>7. QED
    BY <2>1, <2>6
<1>7. \A k \in 1..l + 1 : arrays'[ArrayOf(i)'][k] = IF k = l + 1 THEN x ELSE v[k]
  BY <1>1, <1>3, <1>4
<1>8. QED
  BY <1>2, <1>5, <1>6, <1>7

LEMMA ViewKept ==
    ASSUME NEW i, ArrayOf(i)' = ArrayOf(i), LenOf(i)' = LenOf(i),
           LenOf(i) = 0 \/ arrays'[ArrayOf(i)] = arrays[ArrayOf(i)]
    PROVE  View(i)' = View(i)
<1>1. View(i)' = [k \in 1..LenOf(i) |-> arrays'[ArrayOf(i)][k]]
  BY DEF View
<1>2. \A k \in 1..LenOf(i) : arrays'[ArrayOf(i)][k] = arrays[ArrayOf(i)][k]
  <2>1. CASE LenOf(i) = 0
    <3>1. 1..LenOf(i) = {}
      BY <2>1
    <3>2. QED
      BY <3>1
  <2>2. CASE arrays'[ArrayOf(i)] = arrays[ArrayOf(i)]
    BY <2>2
  <2>3. QED
    BY <2>1, <2>2
<1>3. QED
  BY <1>1, <1>2 DEF View

LEMMA ViewCut ==
    ASSUME SlicesTyped, NEW i \in Interps, NEW c \in 0..LenOf(i),
           ArrayOf(i)' = ArrayOf(i), LenOf(i)' = c, arrays' = arrays
    PROVE  View(i)' = SubSeq(View(i), 1, c)
<1>1. PICK l \in Nat : l = LenOf(i)
  BY SliceIs
<1>2. PICK v \in Seq(Names) : v = View(i) /\ Len(v) = l
  BY <1>1, ViewIs
<1>3. \A k \in 1..l : v[k] = arrays[ArrayOf(i)][k]
  BY <1>1, <1>2 DEF View
<1>4. View(i)' = [k \in 1..c |-> arrays[ArrayOf(i)][k]]
  BY DEF View
<1>5. SubSeq(v, 1, c) = [k \in 1..c |-> v[k]]
  BY <1>1, <1>2
<1>6. \A k \in 1..c : v[k] = arrays[ArrayOf(i)][k]
  BY <1>1, <1>3
<1>7. QED
  BY <1>2, <1>4, <1>5, <1>6

LEMMA NamesAgree ==
    ASSUME NEW p, NEW m \in Nat, \A k \in 1..m : Same(p, k),
           Depth(p) \in Nat, m <= Depth(p), Depth(p)' \in Nat, m <= Depth(p)'
    PROVE  \A k \in 1..m : NamesOf(p)'[k] = NamesOf(p)[k]
<1> SUFFICES ASSUME NEW k \in 1..m PROVE NamesOf(p)'[k] = NamesOf(p)[k]
  OBVIOUS
<1>1. k \in 1..Depth(p) /\ k \in 1..Depth(p)' /\ NameOf(p, k)' = NameOf(p, k)
  BY DEF Same
<1>2. NamesOf(p)[k] = NameOf(p, k) /\ NamesOf(p)'[k] = NameOf(p, k)'
  BY <1>1 DEF NamesOf
<1>3. QED
  BY <1>1, <1>2

LEMMA FitsGranted ==
    ASSUME TypesInv, NEW p \in All, NEW n, NEW name, NEW on \in Interps, NEW lex,
           Entry(p, n, "capability", name, on, lex), Appends(on, name), SliceFits(p, on)
    PROVE  SliceFits(p, on)'
<1>1. TypedInv /\ SlicesTyped /\ Deeper(p, n, "capability", name, on, lex) /\ name \in Names
  BY DEF TypesInv, Entry
<1>2. n \in Nat /\ n = Depth(p) /\ Depth(p)' = n + 1 /\ NameOf(p, n + 1)' = name
      /\ \A k \in 1..n : Same(p, k)
  BY <1>1 DEF Deeper, Becomes
<1>3. PICK S, f, g : S = CapCalls(p, on) /\ f = NamesOf(p) /\ g = NamesOf(p)'
  OBVIOUS
<1>4. CapCalls(p, on)' = S \cup {n + 1} /\ S \subseteq 1..n
  BY <1>1, <1>2, <1>3, CapCallsDeeper, CapCallsAre
<1>5. \A k \in 1..n : g[k] = f[k]
  <2>1. n <= Depth(p) /\ n <= Depth(p)' /\ Depth(p)' \in Nat
    BY <1>2
  <2>2. QED
    BY <1>2, <1>3, <2>1, NamesAgree
<1>6. g[n + 1] = name
  <2>1. n + 1 \in 1..Depth(p)'
    BY <1>2
  <2>2. QED
    BY <1>2, <1>3, <2>1 DEF NamesOf
<1>7. PICK v \in Seq(Names) : v = View(on) /\ View(on)' = Append(v, name)
  BY <1>1, ViewIs, ViewAppended
<1>8. Fits(v, S, f)
  BY <1>3, <1>7 DEF SliceFits
<1>9. Fits(Append(v, name), S \cup {n + 1}, g)
  <2>1. \A k \in S : g[k] = f[k]
    BY <1>4, <1>5
  <2>2. QED
    BY <1>1, <1>2, <1>4, <1>6, <1>8, <2>1, FitsPushed
<1>10. QED
  BY <1>3, <1>4, <1>7, <1>9 DEF SliceFits

LEMMA FitsEntered ==
    ASSUME TypedInv, NEW p \in All, NEW n, NEW kind, NEW name, NEW on, NEW lex,
           Deeper(p, n, kind, name, on, lex), NEW i, View(i)' = View(i),
           kind # "capability" \/ on # i, SliceFits(p, i)
    PROVE  SliceFits(p, i)'
<1>1. n \in Nat /\ n = Depth(p) /\ Depth(p)' = n + 1 /\ \A k \in 1..n : Same(p, k)
  BY DEF Deeper
<1>2. PICK S, f, g : S = CapCalls(p, i) /\ f = NamesOf(p) /\ g = NamesOf(p)'
  OBVIOUS
<1>3. CapCalls(p, i)' = S /\ S \subseteq 1..n
  BY <1>1, <1>2, CapCallsDeeper, CapCallsAre
<1>4. \A k \in S : g[k] = f[k]
  <2>1. n <= Depth(p) /\ n <= Depth(p)' /\ Depth(p)' \in Nat
    BY <1>1
  <2>2. \A k \in 1..n : g[k] = f[k]
    BY <1>1, <1>2, <2>1, NamesAgree
  <2>3. QED
    BY <1>3, <2>2
<1>5. Fits(View(i), S, g)
  BY <1>2, <1>4, FitsAlike DEF SliceFits
<1>6. QED
  BY <1>2, <1>3, <1>5 DEF SliceFits

LEMMA FitsPopped ==
    ASSUME TypesInv, TypesInv', NEW p \in All, NEW m, Cuts(p, m), Pops(p, m),
           NEW i \in Interps, SliceFits(p, i)
    PROVE  SliceFits(p, i)'
<1>1. TypedInv /\ SlicesTyped /\ Depth(p) \in Nat
  BY FramesAre DEF TypesInv, TypedInv, ScopesTyped
<1>2. m \in Nat /\ m <= Depth(p) /\ Depth(p)' = m /\ \A k \in 1..m : Same(p, k)
  BY <1>1 DEF Cuts
<1>3. PICK S, f, g : S = CapCalls(p, i) /\ f = NamesOf(p) /\ g = NamesOf(p)'
  OBVIOUS
<1>4. CapCalls(p, i)' = {k \in S : k <= m} /\ S \subseteq 1..Depth(p)
  BY <1>1, <1>3, CapCallsCut, CapCallsAre
<1>5. \A k \in S : k <= m => g[k] = f[k]
  <2>1. Depth(p)' \in Nat /\ m <= Depth(p)'
    BY <1>2
  <2>2. \A k \in 1..m : g[k] = f[k]
    BY <1>1, <1>2, <1>3, <2>1, NamesAgree
  <2>3. QED
    BY <1>2, <1>4, <2>2
<1>6. PICK v \in Seq(Names) : v = View(i) /\ Len(v) = LenOf(i)
  BY <1>1, ViewIs
<1>7. Fits(v, S, f)
  BY <1>3, <1>6 DEF SliceFits
<1>8. PICK c : c = Len(v) - Cardinality({k \in S : k > m})
  OBVIOUS
<1>9. c \in 0..Len(v) /\ Fits(SubSeq(v, 1, c), {k \in S : k <= m}, g)
  BY <1>1, <1>2, <1>4, <1>5, <1>7, <1>8, FitsCut
<1>10. ArrayOf(i)' = ArrayOf(i) /\ LenOf(i)' = LenOf(i) - Popped(p, m, i)
  BY PopsKeep DEF TypesInv
<1>11. LenOf(i)' = c /\ arrays' = arrays
  BY <1>3, <1>6, <1>8, <1>10 DEF Popped, Pops
<1>12. View(i)' = SubSeq(v, 1, c)
  BY <1>1, <1>6, <1>9, <1>10, <1>11, ViewCut
<1>13. QED
  BY <1>3, <1>4, <1>9, <1>12 DEF SliceFits

LEMMA FitsEmpty ==
    ASSUME NEW p, NEW i, CapCalls(p, i) = {}, View(i) = <<>>
    PROVE  SliceFits(p, i)
  BY FitsNone DEF SliceFits

LEMMA FitsKept ==
    ASSUME NEW p, NEW i, SliceFits(p, i), frames'[p] = frames[p], View(i)' = View(i)
    PROVE  SliceFits(p, i)'
  BY DEF SliceFits, CapCalls, Calls, NamesOf, NameOf, OnOf, Depth

\* The calls of a goroutine that does not leave its interpreter are on one,
\* but for the first.
OnTop ==
    \A p \in All :
        p = Main \/ setup.kinds \cap {"global", "session", "transaction"} = {} =>
            \A j, k \in 2..Depth(p) : OnOf(p, j) = OnOf(p, k)

LEMMA StaysOnTop == TypesInv => OnTop
<1> SUFFICES ASSUME TypesInv, NEW p \in All,
                    p = Main \/ setup.kinds \cap {"global", "session", "transaction"} = {},
                    NEW j \in 2..Depth(p), NEW k \in 2..Depth(p)
             PROVE  OnOf(p, j) = OnOf(p, k)
  BY DEF OnTop
<1>1. Shaped(p) /\ OnOne(p) /\ Depth(p) \in Nat
  BY FramesAre DEF TypesInv, TypedInv, ScopesTyped, Homes
<1>2. CASE p = Main
  <2>1. j \in 1..Depth(p) /\ k \in 1..Depth(p)
    BY <1>1
  <2>2. OnOf(p, j) \in {Own(p), Root} /\ OnOf(p, k) \in {Own(p), Root}
    BY <1>1, <2>1 DEF Shaped
  <2>3. QED
    BY <1>2, <2>2 DEF Own
<1>3. CASE p # Main
  <2>1. setup.kinds \cap {"global", "session", "transaction"} = {}
    BY <1>3
  <2>2. QED
    BY <1>1, <2>1 DEF OnOne
<1>4. QED
  BY <1>2, <1>3

LEMMA StaysOnTopNext == (TypesInv => OnTop)'
  BY StaysOnTop, PTL

\* One goroutine: every slice has what its calls granted.
LoneFits(p) == \A i \in Interps : SliceFits(p, i)

LEMMA LoneKeeps ==
    ASSUME TypesInv, TypesInv', NEW p \in All, setup.procs = {p}, OnOneInterpreter, LoneFits(p),
           NEW q \in All, Step(q)
    PROVE  LoneFits(p)'
<1> SUFFICES ASSUME NEW i \in Interps PROVE SliceFits(p, i)'
  BY DEF LoneFits
<1>1. PICK n : n = Depth(q)
  OBVIOUS
<1>2. TypedInv /\ SlicesTyped /\ SliceFits(p, i) /\ setup' = setup
      /\ \A r \in All : r # q => frames'[r] = frames[r]
  BY <1>1, StepCases DEF TypesInv, LoneFits
<1>3. ASSUME NEW name, NEW on \in Interps, NEW lex,
             Entry(p, n, "capability", name, on, lex), Appends(on, name), q = p
      PROVE  SliceFits(p, i)'
  <2>1. CASE on = i
    BY <1>2, <1>3, <2>1, FitsGranted
  <2>2. CASE on # i
    <3>1. Deeper(p, n, "capability", name, on, lex)
      BY <1>3 DEF Entry
    <3>2. Depth(p)' = n + 1 /\ OnOf(p, n + 1)' = on /\ n \in Nat /\ n >= 1
      BY <3>1 DEF Deeper, Becomes
    <3>3. \A j, k \in 2..Depth(p)' : OnOf(p, j)' = OnOf(p, k)'
      <4>1. p = Main \/ setup'.kinds \cap {"global", "session", "transaction"} = {}
        BY <1>2 DEF OnOneInterpreter
      <4>2. QED
        BY <4>1, StaysOnTopNext DEF OnTop
    <3>4. CapCalls(p, i) = {}
      <4>1. CapCalls(p, i)' = CapCalls(p, i)
        BY <1>2, <2>2, <3>1, CapCallsDeeper
      <4>2. ASSUME NEW k \in CapCalls(p, i) PROVE FALSE
        <5>1. k \in 2..n /\ OnOf(p, k) = i
          BY <1>2, <3>1, CapCallsAre DEF Deeper
        <5>2. OnOf(p, k)' = i
          BY <3>1, <3>2, <5>1 DEF Deeper, Same
        <5>3. k \in 2..n + 1 /\ n + 1 \in 2..n + 1
          BY <3>2, <5>1
        <5>4. QED
          BY <2>2, <3>2, <3>3, <5>2, <5>3
      <4>3. QED
        BY <4>2
    <3>5. LenOf(i) = 0
      <4>1. Len(View(i)) = 0
        BY <1>2, <3>4, FS_EmptySet DEF SliceFits, Fits
      <4>2. QED
        BY <1>2, <4>1, ViewIs
    <3>6. View(i)' = View(i)
      BY <1>3, <2>2, <3>5, ViewKept DEF Appends
    <3>7. QED
      BY <1>2, <2>2, <3>1, <3>6, FitsEntered
  <2>3. QED
    BY <2>1, <2>2
<1>4. ASSUME NEW kind, NEW name, NEW on, NEW lex, Entry(p, n, kind, name, on, lex),
             kind # "capability", caps' = caps, arrays' = arrays
      PROVE  SliceFits(p, i)'
  <2>1. View(i)' = View(i) /\ Deeper(p, n, kind, name, on, lex)
    BY <1>4 DEF View, LenOf, ArrayOf, Entry
  <2>2. QED
    BY <1>2, <1>4, <2>1, FitsEntered
<1>5. ASSUME Begins(p), Copies(p) PROVE SliceFits(p, i)'
  <2>1. p \in Procs /\ Depth(p) = 0 /\ Depth(p)' = 1
    BY <1>5 DEF Begins
  <2>2. \A j : CapCalls(p, j) = {} /\ CapCalls(p, j)' = {}
    BY <1>5, CallsBegun DEF CapCalls, Kinds
  <2>3. \A j \in Interps : LenOf(j) = 0
    <3>1. ASSUME NEW j \in Interps PROVE LenOf(j) = 0
      <4>1. Fits(View(j), {}, NamesOf(p))
        BY <2>2 DEF LoneFits, SliceFits
      <4>2. Len(View(j)) = 0
        BY <4>1, FS_EmptySet DEF Fits
      <4>3. QED
        BY <1>2, <4>2, ViewIs
    <3>2. QED
      BY <3>1
  <2>4. LenOf(i)' = 0
    BY <1>2, <1>5, <2>1, <2>3, CopiesIs DEF Interps
  <2>5. View(i)' = <<>>
    BY <2>4 DEF View
  <2>6. QED
    BY <2>2, <2>5, FitsNone DEF SliceFits
<1>6. ASSUME NEW m, Cuts(q, m), Pops(q, m) PROVE SliceFits(p, i)'
  <2>1. CASE q = p
    BY <1>2, <1>6, <2>1, FitsPopped
  <2>2. CASE q # p
    <3>1. CapCalls(q, i) = {}
      <4>1. q \notin setup.procs
        BY <2>2
      <4>2. Depth(q) \in {0, 1}
        BY <1>2, <4>1 DEF TypedInv, Shaped
      <4>3. CapCalls(q, i) \subseteq 2..Depth(q) /\ 2..Depth(q) = {}
        BY <1>2, <4>2, CapCallsAre
      <4>4. QED
        BY <4>3
    <3>2. Popped(q, m, i) = 0
      BY <3>1, FS_EmptySet DEF Popped
    <3>3. ArrayOf(i)' = ArrayOf(i) /\ LenOf(i)' = LenOf(i) /\ arrays' = arrays
      BY <1>2, <1>6, <3>2, PopsKeep, SliceIs DEF TypesInv, Pops
    <3>4. View(i)' = View(i)
      BY <3>3, ViewKept
    <3>5. QED
      BY <1>2, <2>2, <3>4, FitsKept
  <2>3. QED
    BY <2>1, <2>2
<1>7. q \in setup.procs => q = p
  OBVIOUS
<1>8. QED
  BY <1>1, <1>2, <1>3, <1>4, <1>5, <1>6, <1>7, SliceCases

\* Goroutines that only call and grant: the root has nothing, and each one has
\* an array of its own.
ManyFits ==
    /\ ArrayOf(Root) = 0 /\ LenOf(Root) = 0
    /\ \A p \in setup.procs : SliceFits(p, p)
    /\ \A p, q \in setup.procs : p # q /\ ArrayOf(p) = ArrayOf(q) => ArrayOf(p) = 0

LEMMA ManyKeeps ==
    ASSUME TypesInv, TypesInv', setup.kinds \subseteq {"call", "capability"},
           Main \notin setup.procs, ManyFits, NEW q \in All, Step(q)
    PROVE  ManyFits'
<1>1. PICK n : n = Depth(q)
  OBVIOUS
<1>2. TypedInv /\ SlicesTyped /\ setup' = setup /\ Shaped(q) /\ AtHome(q) /\ n \in Nat
      /\ \A r \in All : r # q => frames'[r] = frames[r]
  BY <1>1, StepCases DEF TypesInv, Homes
<1>3. setup.procs \subseteq Procs /\ setup.procs \subseteq All /\ Root \notin setup.procs
      /\ Root \in Interps /\ setup.procs \subseteq Interps
  BY <1>2, SetupIs, ScopesAssumption DEF TypedInv, ScopesTyped, All, Interps
<1>4. \A r \in setup.procs : Own(r) = r
  BY <1>3, ScopesAssumption DEF Own
<1>5. \A i \in Interps : i # Own(q) => CapCalls(q, i) = {}
  <2>1. \A k \in 1..n : OnOf(q, k) = Own(q)
    BY <1>1, <1>2 DEF AtHome
  <2>2. QED
    BY <1>1, <1>2, <2>1, CapCallsAre
<1>6. ASSUME q \in setup.procs, NEW name, NEW on \in Interps, NEW lex,
             Entry(q, n, "capability", name, on, lex), Appends(on, name)
      PROVE  ManyFits'
  <2>1. Deeper(q, n, "capability", name, on, lex)
    BY <1>6 DEF Entry
  <2>2. on = q
    <3>1. AtHome(q)' /\ setup'.kinds \subseteq {"call", "capability"}
      BY <1>2 DEF TypesInv, Homes
    <3>2. Depth(q)' = n + 1 /\ OnOf(q, n + 1)' = on /\ n + 1 \in 1..n + 1
      BY <1>2, <2>1 DEF Deeper, Becomes
    <3>3. OnOf(q, n + 1)' = Own(q)
      BY <3>1, <3>2 DEF AtHome
    <3>4. QED
      BY <1>4, <1>6, <3>2, <3>3
  <2>3. /\ \A j \in Interps : j # q => ArrayOf(j)' = ArrayOf(j) /\ LenOf(j)' = LenOf(j)
        /\ ArrayOf(q)' = ArrayOf(q) \/ ArrayOf(q)' = Len(arrays) + 1
        /\ ArrayOf(q)' # 0
        /\ \A a \in 1..Len(arrays) : a # ArrayOf(q) => arrays'[a] = arrays[a]
    BY <1>6, <2>2 DEF Appends
  <2>4. ArrayOf(Root)' = 0 /\ LenOf(Root)' = 0
    BY <1>3, <1>6, <2>3 DEF ManyFits
  <2>5. ASSUME NEW r \in setup.procs, r # q
        PROVE  SliceFits(r, r)' /\ ArrayOf(r)' # ArrayOf(q)'
    <3>1. PICK a \in 0..Len(arrays) : a = ArrayOf(r) /\ ArrayOf(r)' = a /\ Len(arrays) \in Nat
      BY <1>2, <1>3, <2>3, <2>5, SliceIs
    <3>2. a # ArrayOf(q) \/ a = 0
      BY <1>6, <2>5, <3>1 DEF ManyFits
    <3>3. ArrayOf(r)' # ArrayOf(q)'
      BY <2>3, <3>1, <3>2
    <3>4. LenOf(r) = 0 \/ arrays'[a] = arrays[a]
      <4>1. a = 0 => LenOf(r) = 0
        BY <1>2, <1>3, <3>1, SliceIs
      <4>2. a # 0 => a \in 1..Len(arrays)
        BY <3>1
      <4>3. QED
        BY <2>3, <3>2, <4>1, <4>2
    <3>5. View(r)' = View(r)
      BY <1>3, <2>3, <2>5, <3>1, <3>4, ViewKept
    <3>6. SliceFits(r, r)'
      BY <1>2, <1>3, <2>5, <3>5, FitsKept DEF ManyFits
    <3>7. QED
      BY <3>3, <3>6
  <2>6. SliceFits(q, q)'
    BY <1>6, <2>2, FitsGranted DEF ManyFits
  <2>7. \A r \in setup.procs : SliceFits(r, r)'
    BY <2>5, <2>6
  <2>8. \A r, s \in setup.procs : r # s /\ ArrayOf(r)' = ArrayOf(s)' => ArrayOf(r)' = 0
    BY <1>3, <2>3, <2>5 DEF ManyFits
  <2>9. QED
    BY <1>2, <2>4, <2>7, <2>8 DEF ManyFits
<1>7. ASSUME \A i \in Interps : ArrayOf(i)' = ArrayOf(i) /\ View(i)' = View(i),
             LenOf(Root)' = LenOf(Root),
             q \in setup.procs => SliceFits(q, q)'
      PROVE  ManyFits'
  <2>1. \A r \in setup.procs : SliceFits(r, r)'
    <3>1. ASSUME NEW r \in setup.procs, r # q PROVE SliceFits(r, r)'
      BY <1>2, <1>3, <1>7, <3>1, FitsKept DEF ManyFits
    <3>2. QED
      BY <1>7, <3>1
  <2>2. QED
    BY <1>2, <1>3, <1>7, <2>1 DEF ManyFits
<1>8. ASSUME q \in setup.procs, NEW kind, NEW name, NEW on, NEW lex,
             Entry(q, n, kind, name, on, lex), kind # "capability",
             caps' = caps, arrays' = arrays
      PROVE  ManyFits'
  <2>1. Deeper(q, n, kind, name, on, lex)
    BY <1>8 DEF Entry
  <2>2. \A i : ArrayOf(i)' = ArrayOf(i) /\ LenOf(i)' = LenOf(i) /\ View(i)' = View(i)
    BY <1>8 DEF ArrayOf, LenOf, View
  <2>3. SliceFits(q, q)'
    BY <1>2, <1>8, <2>1, <2>2, FitsEntered DEF ManyFits
  <2>4. QED
    BY <1>7, <2>2, <2>3
<1>9. ASSUME q \in setup.procs, Begins(q), Copies(q) PROVE ManyFits'
  <2>1. ArrayOf(q)' = 0 /\ LenOf(q)' = 0 /\ arrays' = arrays
        /\ \A i \in Interps : i # q => ArrayOf(i)' = ArrayOf(i) /\ LenOf(i)' = LenOf(i)
    BY <1>2, <1>3, <1>9, CopiesIs DEF ManyFits, Copies
  <2>2. View(q)' = <<>>
    BY <2>1 DEF View
  <2>3. CapCalls(q, q)' = {}
    BY <1>9, CallsBegun DEF CapCalls, Kinds
  <2>4. SliceFits(q, q)'
    BY <2>2, <2>3, FitsNone DEF SliceFits
  <2>5. ASSUME NEW r \in setup.procs, r # q PROVE SliceFits(r, r)'
    <3>1. View(r)' = View(r)
      BY <1>3, <2>1, <2>5, ViewKept
    <3>2. QED
      BY <1>2, <1>3, <2>5, <3>1, FitsKept DEF ManyFits
  <2>6. ArrayOf(Root)' = 0 /\ LenOf(Root)' = 0
    BY <1>3, <1>9, <2>1 DEF ManyFits
  <2>7. \A r, s \in setup.procs : r # s /\ ArrayOf(r)' = ArrayOf(s)' => ArrayOf(r)' = 0
    BY <1>3, <2>1 DEF ManyFits
  <2>8. QED
    BY <1>2, <2>4, <2>5, <2>6, <2>7 DEF ManyFits
<1>10. ASSUME NEW m, Cuts(q, m), Pops(q, m) PROVE ManyFits'
  <2>1. \A i \in Interps : ArrayOf(i)' = ArrayOf(i) /\ LenOf(i)' = LenOf(i) - Popped(q, m, i)
    BY <1>2, <1>10, PopsKeep DEF TypesInv
  <2>2. arrays' = arrays
    BY <1>10 DEF Pops
  <2>3. \A i \in Interps : i # Own(q) => LenOf(i)' = LenOf(i)
    <3> SUFFICES ASSUME NEW i \in Interps, i # Own(q) PROVE LenOf(i)' = LenOf(i)
      OBVIOUS
    <3>1. Popped(q, m, i) = 0
      BY <1>5, FS_EmptySet DEF Popped
    <3>2. QED
      BY <1>2, <2>1, <3>1, SliceIs
  <2>4. CASE q \in setup.procs
    <3>1. Own(q) = q /\ q \in Interps
      BY <1>3, <1>4, <2>4
    <3>2. SliceFits(q, q)'
      BY <1>10, <2>4, <3>1, FitsPopped DEF ManyFits
    <3>3. ASSUME NEW r \in setup.procs, r # q PROVE SliceFits(r, r)'
      <4>1. View(r)' = View(r)
        BY <1>3, <2>1, <2>2, <2>3, <3>1, <3>3, ViewKept
      <4>2. QED
        BY <1>2, <1>3, <3>3, <4>1, FitsKept DEF ManyFits
    <3>4. ArrayOf(Root)' = 0 /\ LenOf(Root)' = 0
      BY <1>3, <2>1, <2>3, <2>4, <3>1 DEF ManyFits
    <3>5. \A r, s \in setup.procs : r # s /\ ArrayOf(r)' = ArrayOf(s)' => ArrayOf(r)' = 0
      BY <1>3, <2>1 DEF ManyFits
    <3>6. QED
      BY <1>2, <3>2, <3>3, <3>4, <3>5 DEF ManyFits
  <2>5. CASE q \notin setup.procs
    <3>1. \A i : CapCalls(q, i) = {}
      <4>1. Depth(q) \in {0, 1}
        BY <1>2, <2>5 DEF Shaped
      <4>2. 2..Depth(q) = {}
        BY <4>1
      <4>3. QED
        BY <1>2, <4>2, CapCallsAre
    <3>2. \A i \in Interps : LenOf(i)' = LenOf(i)
      <4> SUFFICES ASSUME NEW i \in Interps PROVE LenOf(i)' = LenOf(i)
        OBVIOUS
      <4>1. Popped(q, m, i) = 0
        BY <3>1, FS_EmptySet DEF Popped
      <4>2. QED
        BY <1>2, <2>1, <4>1, SliceIs
    <3>3. \A i \in Interps : View(i)' = View(i)
      BY <2>1, <2>2, <3>2, ViewKept
    <3>4. QED
      BY <1>3, <1>7, <2>1, <2>5, <3>2, <3>3
  <2>6. QED
    BY <2>4, <2>5
<1>11. QED
  BY <1>1, <1>2, <1>6, <1>8, <1>9, <1>10, SliceCases

-----------------------------------------------------------------------------
(* All of it together is inductive.                                         *)

Plain == setup.kinds \subseteq {"call", "capability"} /\ Main \notin setup.procs

ApartInv ==
    /\ \A p \in setup.procs :
          /\ SessionsFit(p)
          /\ Quiet => EffectsFit(p)
          /\ NoRecovery => EnvFits(p)
          /\ setup.procs = {p} /\ OnOneInterpreter => LoneFits(p)
    /\ Plain => ManyFits

ScopesInv == TypesInv /\ (Apart => ApartInv)

LEMMA StacksKept ==
    ASSUME NEW p, frames'[p] = frames[p], sessions' = sessions, effects' = effects
    PROVE  (SessionsFit(p) => SessionsFit(p)') /\ (EffectsFit(p) => EffectsFit(p)')
<1>1. /\ \A c : Calls(p, c)' = Calls(p, c)
      /\ EnvsOf(p)' = EnvsOf(p) /\ Providers(p)' = Providers(p)
  BY DEF Calls, EnvsOf, Providers, Provider, EnvOf, NameOf, Depth
<1>2. QED
  BY <1>1 DEF SessionsFit, EffectsFit

LEMMA ScopesBegin == Init => ScopesInv
<1> SUFFICES ASSUME Init PROVE ScopesInv
  OBVIOUS
<1>1. TypesInv
  BY TypedBegins, HomesBegin, DistinctBegins, SlicesBegin DEF TypesInv
<1>2. TypedInv /\ setup.procs \subseteq All /\ setup.procs \ {Main} \subseteq Procs
  BY <1>1, SetupIs DEF TypesInv, TypedInv, ScopesTyped, All
<1>3. ASSUME NEW p \in All
      PROVE  Depth(p) \in {0, 1} /\ (\A i : CapCalls(p, i) = {})
             /\ Calls(p, "session") = {} /\ Calls(p, "handle") = {}
  <2>1. frames = [q \in All |-> IF q = Main THEN <<Body(Root, 0)>> ELSE <<>>]
    BY DEF Init
  <2>2. Depth(p) \in {0, 1}
    BY <2>1 DEF Depth
  <2>3. 2..Depth(p) = {}
    BY <2>2
  <2>4. \A i : CapCalls(p, i) = {}
    BY <1>2, <2>3, CapCallsAre
  <2>5. \A k \in 1..Depth(p) : KindOf(p, k) = "body"
    BY <1>2, <2>2 DEF TypedInv, Shaped
  <2>6. \A c : Calls(p, c) = {k \in 1..Depth(p) : KindOf(p, k) = c}
    BY <1>2, FramesAre DEF TypedInv, ScopesTyped
  <2>7. Calls(p, "session") = {} /\ Calls(p, "handle") = {}
    BY <2>5, <2>6
  <2>8. QED
    BY <2>2, <2>4, <2>7
<1>4. sessions = <<>> /\ effects = <<>>
      /\ \A i \in Interps : ArrayOf(i) = 0 /\ LenOf(i) = 0
  <2>1. \A i \in Interps : caps[i] = Nil
    BY DEF Init
  <2>2. PICK s : s = Nil
    OBVIOUS
  <2>3. s.array = 0 /\ s.len = 0
    BY <2>2 DEF Nil
  <2>4. \A i \in Interps : ArrayOf(i) = 0 /\ LenOf(i) = 0
    BY <2>1, <2>2, <2>3 DEF ArrayOf, LenOf
  <2>5. QED
    BY <2>4 DEF Init
<1>5. ASSUME NEW p \in All, NEW i \in Interps PROVE SliceFits(p, i)
  <2>1. View(i) = <<>>
    BY <1>4 DEF View
  <2>2. QED
    BY <1>3, <2>1, FitsEmpty
<1>6. ASSUME NEW p \in setup.procs
      PROVE  SessionsFit(p) /\ EffectsFit(p) /\ EnvFits(p) /\ LoneFits(p)
  <2>1. p \in All
    BY <1>2
  <2>2. SessionsFit(p) /\ EffectsFit(p)
    BY <1>3, <1>4, <2>1, FitsNone DEF SessionsFit, EffectsFit
  <2>3. EnvFits(p)
    BY <2>1, EnvBegins
  <2>4. LoneFits(p)
    BY <1>5, <2>1 DEF LoneFits
  <2>5. QED
    BY <2>2, <2>3, <2>4
<1>7. ASSUME Plain PROVE ManyFits
  <2>1. setup.procs \subseteq Interps /\ Root \in Interps
    BY <1>2, <1>7 DEF Plain, Interps
  <2>2. QED
    BY <1>2, <1>4, <1>5, <2>1 DEF ManyFits
<1>8. QED
  BY <1>1, <1>6, <1>7 DEF ScopesInv, ApartInv

LEMMA ScopesKeep == ScopesInv /\ [Next]_vars => ScopesInv'
<1> SUFFICES ASSUME ScopesInv, [Next]_vars PROVE ScopesInv'
  OBVIOUS
<1>1. TypesInv /\ TypesInv' /\ TypedInv /\ Homes
  BY TypesKeep DEF ScopesInv, TypesInv
<1>2. ASSUME NEW q \in All, Step(q), Apart PROVE ApartInv'
  <2>1. PICK n : n = Depth(q)
    OBVIOUS
  <2>2. setup' = setup /\ setup.procs \subseteq All
    BY <1>1, <1>2, <2>1, StepCases, SetupIs
  <2>3. ApartInv
    BY <1>2 DEF ScopesInv
  <2>4. ASSUME NEW p \in setup.procs
        PROVE  /\ SessionsFit(p)'
               /\ Quiet => EffectsFit(p)'
               /\ NoRecovery => EnvFits(p)'
               /\ setup.procs = {p} /\ OnOneInterpreter => LoneFits(p)'
    <3>1. p \in All /\ SessionsFit(p) /\ (Quiet => EffectsFit(p)) /\ (NoRecovery => EnvFits(p))
          /\ (setup.procs = {p} /\ OnOneInterpreter => LoneFits(p))
      BY <2>2, <2>3 DEF ApartInv
    <3>2. setup.procs = {p} /\ OnOneInterpreter => LoneFits(p)'
      BY <1>1, <1>2, <3>1, LoneKeeps
    <3>3. CASE p = q
      BY <1>1, <1>2, <3>1, <3>2, <3>3, SessionsKeep, EffectsKeep, EnvKeep
    <3>4. CASE p # q
      <4>1. sessions' = sessions /\ effects' = effects /\ frames'[p] = frames[p]
        BY <1>1, <1>2, <3>4, OthersQuiet
      <4>2. NoRecovery => EnvFits(p)'
        BY <1>1, <1>2, <3>1, <3>4, EnvOthers
      <4>3. QED
        BY <3>1, <3>2, <4>1, <4>2, StacksKept
    <3>5. QED
      BY <3>3, <3>4
  <2>5. Plain => ManyFits'
    BY <1>1, <1>2, <2>3, ManyKeeps DEF Plain, ApartInv
  <2>6. (Plain' <=> Plain) /\ (Quiet' <=> Quiet) /\ (NoRecovery' <=> NoRecovery)
        /\ (OnOneInterpreter' <=> OnOneInterpreter)
    BY <2>2 DEF Plain, Quiet, NoRecovery, OnOneInterpreter
  <2>7. QED
    BY <2>2, <2>4, <2>5, <2>6 DEF ApartInv
<1>3. ASSUME NEW q \in All, Step(q) PROVE ScopesInv'
  <2>1. setup' = setup
    BY <1>1, <1>3, StepCases
  <2>2. Apart' => Apart
    BY <2>1 DEF Apart
  <2>3. QED
    BY <1>1, <1>2, <1>3, <2>2 DEF ScopesInv
<1>4. CASE UNCHANGED vars
  <2>1. /\ setup' = setup /\ frames' = frames /\ env' = env /\ caps' = caps /\ arrays' = arrays
        /\ effects' = effects /\ sessions' = sessions /\ made' = made
    BY <1>4 DEF vars
  <2>2. (Apart' <=> Apart) /\ (Plain' <=> Plain) /\ (Quiet' <=> Quiet)
        /\ (NoRecovery' <=> NoRecovery) /\ (OnOneInterpreter' <=> OnOneInterpreter)
    BY <2>1 DEF Apart, Plain, Quiet, NoRecovery, OnOneInterpreter
  <2>3. \A i : View(i)' = View(i) /\ ArrayOf(i)' = ArrayOf(i) /\ LenOf(i)' = LenOf(i)
    BY <2>1 DEF View, ArrayOf, LenOf
  <2>4. \A p, i : SliceFits(p, i) => SliceFits(p, i)'
    BY <2>1, <2>3, FitsKept
  <2>5. \A p : /\ SessionsFit(p) => SessionsFit(p)'
               /\ EffectsFit(p) => EffectsFit(p)'
               /\ LoneFits(p) => LoneFits(p)'
    BY <2>1, <2>4, StacksKept DEF LoneFits
  <2>6. \A p : EnvFits(p) => EnvFits(p)'
    <3>1. \A p : Depth(p)' = Depth(p) /\ \A k : OnOf(p, k)' = OnOf(p, k)
                   /\ EnvOf(p, k)' = EnvOf(p, k) /\ SavedOf(p, k)' = SavedOf(p, k)
      BY <2>1 DEF Depth, OnOf, EnvOf, SavedOf
    <3>2. \A p, k : LastOn(p, k)' <=> LastOn(p, k)
      BY <3>1 DEF LastOn
    <3>3. QED
      BY <2>1, <3>1, <3>2 DEF EnvFits
  <2>7. ManyFits => ManyFits'
    BY <2>1, <2>3, <2>4 DEF ManyFits
  <2>8. ApartInv => ApartInv'
    BY <2>1, <2>2, <2>5, <2>6, <2>7 DEF ApartInv
  <2>9. QED
    BY <1>1, <2>2, <2>8 DEF ScopesInv
<1>5. QED
  BY <1>3, <1>4 DEF Next

-----------------------------------------------------------------------------
(* What it says of the bodies.                                              *)

LEMMA EnvsAreOwn == ScopesInv => RunsInItsEnv
<1> SUFFICES ASSUME ScopesInv, Apart, NoRecovery, NEW p \in All, Running(p)
             PROVE  env[Top(p).on] = Top(p).env
  BY DEF RunsInItsEnv, EnvIsOwn
<1>1. PICK n \in Nat : n = Depth(p) /\ n # 0
  BY FramesAre DEF ScopesInv, TypesInv, TypedInv, ScopesTyped, Running
<1>2. EnvFits(p)
  BY DEF ScopesInv, ApartInv, Running
<1>3. n \in 1..Depth(p) /\ LastOn(p, n)
  BY <1>1 DEF LastOn
<1>4. env[OnOf(p, n)] = EnvOf(p, n)
  BY <1>2, <1>3 DEF EnvFits
<1>5. QED
  BY <1>1, <1>4 DEF Top, OnOf, EnvOf, Depth

LEMMA SessionsAreOwn == ScopesInv => SessionIsScoped
<1> SUFFICES ASSUME ScopesInv, Apart, NEW p \in All, Running(p), NEW S, S = Calls(p, "session")
             PROVE  IF S = {} THEN sessions = <<>>
                    ELSE sessions # <<>>
                         /\ sessions[Len(sessions)] = frames[p][Innermost(S)].env
  BY DEF SessionIsScoped
<1>1. PICK n \in Nat : n = Depth(p) /\ S \subseteq 1..n
  BY FramesAre DEF ScopesInv, TypesInv, TypedInv, ScopesTyped
<1>2. Fits(sessions, S, EnvsOf(p))
  BY DEF ScopesInv, ApartInv, Running, SessionsFit
<1>3. sessions \in Seq(1..made)
  BY DEF ScopesInv, TypesInv, TypedInv, ScopesTyped
<1>4. CASE S = {}
  <2>1. Len(sessions) = 0
    BY <1>2, <1>4, FS_EmptySet DEF Fits
  <2>2. QED
    BY <1>3, <1>4, <2>1, EmptySeq
<1>5. CASE S # {}
  <2>1. PICK k \in S : k = Innermost(S) /\ Rank(S, k) = Cardinality(S)
    BY <1>1, <1>5, InnermostIs
  <2>2. Rank(S, k) \in 1..Cardinality(S) /\ Cardinality(S) \in Nat
    BY <1>1, Picked
  <2>3. Len(sessions) = Cardinality(S) /\ sessions[Rank(S, k)] = EnvsOf(p)[k]
    BY <1>2 DEF Fits
  <2>4. EnvsOf(p)[k] = frames[p][k].env
    BY <1>1 DEF EnvsOf, EnvOf
  <2>5. sessions # <<>>
    BY <2>2, <2>3
  <2>6. QED
    BY <1>5, <2>1, <2>3, <2>4, <2>5
<1>6. QED
  BY <1>4, <1>5

LEMMA HeldIsGranted ==
    ASSUME TypesInv, NEW p \in All, Depth(p) # 0, SliceFits(p, OnOf(p, Depth(p))),
           CapCalls(p, OnOf(p, Depth(p))) = Calls(p, "capability")
    PROVE  Held(p) = Granted(p)
<1>1. PICK n \in Nat : n = Depth(p) /\ n # 0 /\ frames \in [All -> Seq(Frame)]
  BY FramesAre DEF TypesInv, TypedInv, ScopesTyped
<1>2. PICK i \in Interps : i = OnOf(p, n)
  <2>1. n \in 1..Depth(p)
    BY <1>1
  <2>2. QED
    BY <1>1, <2>1, FrameIs
<1>3. PICK S : S = Calls(p, "capability")
  OBVIOUS
<1>4. S \subseteq 1..n /\ Fits(View(i), S, NamesOf(p))
  BY <1>1, <1>2, <1>3, FramesAre DEF SliceFits
<1>5. PICK l \in Nat : l = LenOf(i) /\ Len(View(i)) = l
  BY ViewIs DEF TypesInv
<1>6. l = Cardinality(S) /\ \A k \in S : View(i)[Rank(S, k)] = NamesOf(p)[k]
  BY <1>4, <1>5 DEF Fits
<1>7. \A k \in S : NamesOf(p)[k] = NameOf(p, k)
  BY <1>1, <1>4 DEF NamesOf
<1>8. \A r \in 1..l : View(i)[r] = arrays[ArrayOf(i)][r]
  BY <1>5 DEF View
<1>9. Held(p) = {arrays[ArrayOf(i)][r] : r \in 1..l}
  BY <1>1, <1>2, <1>5 DEF Held, Elements, Top, OnOf, ArrayOf, LenOf, Depth
<1>10. Granted(p) = {NameOf(p, k) : k \in S}
  BY <1>3 DEF Granted, NameOf
<1>11. \A k \in S : Rank(S, k) \in 1..l
  BY <1>1, <1>4, <1>6, Picked
<1>12. \A r \in 1..l : \E k \in S : Rank(S, k) = r
  BY <1>1, <1>4, <1>6, RankOnto
<1>13. \A k \in S : arrays[ArrayOf(i)][Rank(S, k)] = NameOf(p, k)
  BY <1>6, <1>7, <1>8, <1>11
<1>14. QED
  BY <1>9, <1>10, <1>11, <1>12, <1>13

LEMMA CapsAreOwn == ScopesInv => CapabilityIsScopedApart
<1> SUFFICES ASSUME ScopesInv, Apart, OnOneInterpreter, NEW p \in All, Running(p)
             PROVE  Held(p) = Granted(p)
  BY DEF CapabilityIsScopedApart, CapabilityIsScoped
<1>1. TypesInv /\ TypedInv /\ ApartInv /\ AtHome(p) /\ Shaped(p) /\ p \in setup.procs
  BY DEF ScopesInv, TypesInv, TypedInv, Homes, Running
<1>2. PICK n \in Nat : n = Depth(p) /\ n # 0 /\ frames \in [All -> Seq(Frame)]
  BY FramesAre DEF ScopesInv, TypesInv, TypedInv, ScopesTyped, Running
<1>3. PICK i : i = OnOf(p, n)
  OBVIOUS
<1>4. Calls(p, "capability") \subseteq 2..n
  <2>1. Calls(p, "capability") = {k \in 1..n : KindOf(p, k) = "capability"}
    BY <1>2, FramesAre
  <2>2. \A k \in 1..n : KindOf(p, k) = "capability" => k # 1
    BY <1>1, <1>2 DEF Shaped
  <2>3. QED
    BY <1>2, <2>1, <2>2
<1>5. CASE Plain
  <2>1. \A k \in 1..n : OnOf(p, k) = Own(p)
    BY <1>1, <1>2, <1>5 DEF AtHome, Plain
  <2>2. Own(p) = p /\ i = p /\ n \in 1..n
    BY <1>1, <1>2, <1>3, <1>5, <2>1 DEF Own, Plain
  <2>3. SliceFits(p, i)
    BY <1>1, <1>5, <2>2 DEF ApartInv, ManyFits
  <2>4. \A k \in Calls(p, "capability") : OnOf(p, k) = i
    BY <1>2, <1>4, <2>1, <2>2
  <2>5. CapCalls(p, i) = Calls(p, "capability")
    BY <2>4 DEF CapCalls
  <2>6. QED
    BY <1>1, <1>2, <1>3, <2>3, <2>5, HeldIsGranted
<1>6. CASE ~ Plain
  <2>1. setup.procs = {p}
    BY <1>1, <1>6 DEF Apart, Plain
  <2>2. i \in Interps
    <3>1. n \in 1..Depth(p)
      BY <1>2
    <3>2. QED
      BY <1>2, <1>3, <3>1, FrameIs
  <2>3. SliceFits(p, i)
    BY <1>1, <2>1, <2>2 DEF ApartInv, LoneFits
  <2>4. p = Main \/ setup.kinds \cap {"global", "session", "transaction"} = {}
    BY <2>1 DEF OnOneInterpreter
  <2>5. \A k \in Calls(p, "capability") : OnOf(p, k) = i
    <3>1. OnTop
      BY <1>1, StaysOnTop
    <3>2. \A k \in 2..n : OnOf(p, k) = OnOf(p, n)
      BY <1>2, <2>4, <3>1 DEF OnTop
    <3>3. QED
      BY <1>3, <1>4, <3>2
  <2>6. CapCalls(p, i) = Calls(p, "capability")
    BY <2>5 DEF CapCalls
  <2>7. QED
    BY <1>1, <1>2, <1>3, <2>3, <2>6, HeldIsGranted
<1>7. QED
  BY <1>5, <1>6

LEMMA HandlersAreOwn == ScopesInv => EffectIsScoped
<1> SUFFICES ASSUME ScopesInv, Apart, Quiet, NEW p \in All, NEW e \in Effects, Running(p)
             PROVE  Resolved(e) = Substituted(p, e)
  BY DEF EffectIsScoped, HandlersAreScoped, Quiet
<1>1. PICK n, S : n \in Nat /\ n = Depth(p) /\ S = Calls(p, "handle") /\ S \subseteq 1..n
  <2>1. Depth(p) \in Nat /\ Calls(p, "handle") \subseteq 1..Depth(p)
    BY FramesAre DEF ScopesInv, TypesInv, TypedInv, ScopesTyped
  <2>2. QED
    BY <2>1
<1>2. Fits(effects, S, Providers(p))
  BY <1>1 DEF ScopesInv, ApartInv, Running, EffectsFit
<1>3. PICK c \in Nat : c = Cardinality(S) /\ c = Len(effects)
  BY <1>1, <1>2, Picked DEF Fits
<1>4. \A k \in S : effects[Rank(S, k)] = Providers(p)[k]
  BY <1>2 DEF Fits
<1>5. \A k \in S : Providers(p)[k] = Provider(p, k)
  BY <1>1 DEF Providers
<1>6. ASSUME NEW k \in S
      PROVE  /\ effects[Rank(S, k)].name = frames[p][k].name
             /\ effects[Rank(S, k)].by = frames[p][k].env
  <2>1. PICK x : x = Provider(p, k)
    OBVIOUS
  <2>2. x.name = NameOf(p, k) /\ x.by = EnvOf(p, k)
    BY <2>1, Zenon DEF Provider
  <2>3. effects[Rank(S, k)] = x
    BY <1>4, <1>5, <2>1
  <2>4. QED
    BY <2>2, <2>3, Zenon DEF NameOf, EnvOf
<1>7. PICK A, B : /\ A = {r \in 1..Len(effects) : effects[r].name = e}
                  /\ B = {k \in S : frames[p][k].name = e}
  OBVIOUS
<1>8. \A k \in S : Rank(S, k) \in 1..c
  BY <1>1, <1>3, Picked
<1>9. \A k \in B : Rank(S, k) \in A
  BY <1>3, <1>6, <1>7, <1>8
<1>10. \A r \in A : \E k \in B : Rank(S, k) = r
  <2> SUFFICES ASSUME NEW r \in A PROVE \E k \in B : Rank(S, k) = r
    OBVIOUS
  <2>1. r \in 1..Cardinality(S) /\ effects[r].name = e
    BY <1>3, <1>7
  <2>2. PICK k \in S : Rank(S, k) = r
    BY <1>1, <2>1, RankOnto
  <2>3. k \in B
    BY <1>6, <1>7, <2>1, <2>2
  <2>4. QED
    BY <2>2, <2>3
<1>11. Resolved(e) = IF A = {} THEN 0 ELSE effects[Innermost(A)].by
  BY <1>7 DEF Resolved
<1>12. Substituted(p, e) = IF B = {} THEN 0 ELSE frames[p][Innermost(B)].env
  BY <1>1, <1>7 DEF Substituted
<1>13. CASE B = {}
  <2>1. A = {}
    BY <1>10, <1>13
  <2>2. QED
    BY <1>11, <1>12, <1>13, <2>1
<1>14. CASE B # {}
  <2>1. B \subseteq 1..n /\ B \subseteq S
    BY <1>1, <1>7
  <2>2. PICK b \in B : b = Innermost(B) /\ \A k \in B : k <= b
    BY <1>1, <1>14, <2>1, InnermostIs
  <2>3. PICK a : a = Rank(S, b) /\ a \in A
    BY <1>9
  <2>4. \A r \in A : r <= a
    <3> SUFFICES ASSUME NEW r \in A PROVE r <= a
      OBVIOUS
    <3>1. PICK k \in B : Rank(S, k) = r
      BY <1>10
    <3>2. k = b \/ k < b
      BY <1>1, <2>1, <2>2
    <3>3. r \in Nat /\ a \in Nat
      BY <1>7, <2>3
    <3>4. k < b => r < a
      <4>1. k \in S /\ b \in S
        BY <2>1
      <4>2. QED
        BY <1>1, <2>3, <3>1, <4>1, RankOrder
    <3>5. QED
      BY <2>3, <3>1, <3>2, <3>3, <3>4
  <2>5. Innermost(A) = a
    <3>1. A # {} /\ A \subseteq 1..c
      BY <1>3, <1>7, <2>3
    <3>2. PICK x \in A : x = Innermost(A) /\ \A r \in A : r <= x
      BY <3>1, <1>3, InnermostIs
    <3>3. x <= a
      BY <2>4
    <3>4. a <= x
      BY <2>3, <3>2
    <3>5. x \in 1..c /\ a \in 1..c
      BY <2>3, <3>1
    <3>6. x = a
      BY <1>3, <3>3, <3>4, <3>5
    <3>7. QED
      BY <3>2, <3>6
  <2>6. effects[a].by = frames[p][b].env
    BY <1>6, <2>1, <2>3
  <2>7. QED
    BY <1>11, <1>12, <1>14, <2>2, <2>3, <2>5, <2>6
<1>15. QED
  BY <1>13, <1>14

(***************************************************************************)
(* A goroutine that is alone, or one of many that only call functions and  *)
(* grant capabilities, runs each body in the environment made for it, finds *)
(* the capabilities granted by the calls around it and no others, performs *)
(* effects with the handlers of the handle blocks around it, and reads in  *)
(* the innermost FS.with_session: for any number of goroutines, calls,     *)
(* names and depth, and although every push shares its stack or its array. *)
(***************************************************************************)
THEOREM ScopesStayOwn == Spec => []ScopesAreOwn
<1>1. ScopesInv => ScopesAreOwn
  BY EnvsAreOwn, CapsAreOwn, HandlersAreOwn, SessionsAreOwn DEF ScopesAreOwn
<1>2. QED
  BY <1>1, ScopesBegin, ScopesKeep, PTL DEF Spec
=============================================================================
