----------------------------- MODULE StoreProofs -----------------------------
(***************************************************************************)
(* Theorems about the stores behind a service, first Database, then        *)
(* FileStore.                                                              *)
(*                                                                         *)
(* Database, for any number of users, statements and transactions, of      *)
(* hosts and of closures: a host's transaction is alone with its rows, and *)
(* its commit keeps them; what the driver shows of a host's transaction is *)
(* what was committed.  The inductive invariant says that every open       *)
(* transaction runs and has a table of its own, which is not the driver's, *)
(* and that a table has rows of closures, of committed transactions and of *)
(* the one transaction it was made for.                                    *)
(*                                                                         *)
(* FileStore, for any number of goroutines, paths, writes and crashes: the *)
(* types, that a write happens as a whole or not at all, and that an       *)
(* undisturbed one replaces nothing unsaved or unseen.  The inductive      *)
(* invariant says who may write to which inode: a temporary file has one   *)
(* writer, a copy writes to no file that is only written to by the other   *)
(* calls, and no two names share an inode.  Another, on top of it, says    *)
(* what a call that is alone knows of the file it is about to replace.     *)
(***************************************************************************)
EXTENDS Database, FileStore, SequenceTheorems, FiniteSetTheorems, WellFoundedInduction, TLAPS

\* A sequence, of whatever.
IsSeq(s) == \E S : s \in Seq(S)

TablesFit ==
    /\ IsSeq(tables) /\ IsSeq(kinds) /\ IsSeq(fates)
    /\ Len(kinds) = Len(tables) /\ Len(fates) = Len(tables)
    /\ live \in 1..Len(tables)
    /\ writers \in Seq(Nat)

OpenFit == open \in [Users -> Seq(1..Len(tables))]

OpenAreApart ==
    \A u, v \in Users : \A i \in DOMAIN open[u], j \in DOMAIN open[v] :
        /\ open[u][i] # live
        /\ open[u][i] = open[v][j] => u = v /\ i = j

DBInv == TablesFit /\ OpenFit /\ OpenAreApart

-----------------------------------------------------------------------------
(* Sequences of whatever. *)

LEMMA SeqLen ==
    ASSUME NEW s, IsSeq(s)
    PROVE  Len(s) \in Nat /\ DOMAIN s = 1..Len(s)
  BY DEF IsSeq

LEMMA AppendSeq ==
    ASSUME NEW s, IsSeq(s), NEW e
    PROVE  /\ IsSeq(Append(s, e)) /\ Len(Append(s, e)) = Len(s) + 1
           /\ \A i \in 1..Len(s) : Append(s, e)[i] = s[i]
           /\ Append(s, e)[Len(s) + 1] = e
<1>1. PICK S : s \in Seq(S)
  BY DEF IsSeq
<1> DEFINE T == S \cup {e}
<1>2. s \in Seq(T) /\ e \in T
  BY <1>1
<1> HIDE DEF T
<1>3. Append(s, e) \in Seq(T)
  BY <1>2
<1>4. QED
  BY <1>2, <1>3 DEF IsSeq

Put(s, n, e) == [s EXCEPT ![n] = e]

LEMMA PutSeq ==
    ASSUME NEW s, IsSeq(s), NEW n \in 1..Len(s), NEW e
    PROVE  /\ IsSeq(Put(s, n, e)) /\ Len(Put(s, n, e)) = Len(s) /\ Put(s, n, e)[n] = e
           /\ \A i \in 1..Len(s) : i # n => Put(s, n, e)[i] = s[i]
<1>1. PICK S : s \in Seq(S)
  BY DEF IsSeq
<1> DEFINE T == S \cup {e}
<1>2. s \in Seq(T) /\ e \in T
  BY <1>1
<1> HIDE DEF T
<1>3. Put(s, n, e) \in Seq(T) /\ Len(Put(s, n, e)) = Len(s)
  BY <1>2 DEF Put
<1>4. DOMAIN s = 1..Len(s)
  BY <1>2
<1>5. Put(s, n, e)[n] = e /\ \A i \in 1..Len(s) : i # n => Put(s, n, e)[i] = s[i]
  BY <1>4 DEF Put
<1>6. IsSeq(Put(s, n, e))
  BY <1>3 DEF IsSeq
<1>7. QED
  BY <1>3, <1>5, <1>6

\* The transaction a goroutine is in.
LEMMA CurrentIn ==
    ASSUME DBInv, NEW u \in Users, open[u] # <<>>
    PROVE  /\ Len(open[u]) \in DOMAIN open[u] /\ Current(u) \in 1..Len(tables)
           /\ Current(u) # live
<1>1. open[u] \in Seq(1..Len(tables))
  BY DEF DBInv, OpenFit
<1>2. Len(open[u]) \in DOMAIN open[u] /\ Current(u) \in 1..Len(tables)
  BY <1>1 DEF Current
<1>3. QED
  BY <1>2 DEF DBInv, OpenAreApart, Current

LEMMA TargetIn ==
    ASSUME DBInv, NEW u \in Users
    PROVE  Target(u) \in 1..Len(tables) /\ Issuer(u) \in Nat
<1>1. live \in 1..Len(tables) /\ Len(tables) \in Nat
  BY SeqLen DEF DBInv, TablesFit
<1>2. open[u] # <<>> => Current(u) \in 1..Len(tables)
  BY CurrentIn
<1>3. QED
  BY <1>1, <1>2 DEF Target, Issuer

-----------------------------------------------------------------------------
(* Every action keeps the invariant. *)

LEMMA DBInitInv == DBInit => DBInv
<1>1. SUFFICES ASSUME DBInit PROVE DBInv
  OBVIOUS
<1>2. /\ tables \in Seq({<<>>}) /\ Len(tables) = 1 /\ kinds \in Seq({"driver"})
      /\ Len(kinds) = 1 /\ fates \in Seq({"driver"}) /\ Len(fates) = 1
  BY <1>1 DEF DBInit
<1>3. TablesFit
  <2>1. IsSeq(tables) /\ IsSeq(kinds) /\ IsSeq(fates)
    BY <1>2 DEF IsSeq
  <2>2. live \in 1..Len(tables) /\ writers \in Seq(Nat)
    BY <1>1, <1>2 DEF DBInit
  <2>3. QED
    BY <1>2, <2>1, <2>2 DEF TablesFit
<1>4. OpenFit /\ \A u \in Users : DOMAIN open[u] = {}
  BY <1>1, <1>2 DEF DBInit, OpenFit
<1>5. OpenAreApart
  BY <1>4 DEF OpenAreApart
<1>6. QED
  BY <1>3, <1>4, <1>5 DEF DBInv

\* What a statement changes: one table, that its goroutine works on.
LEMMA ExecTables ==
    ASSUME DBInv, NEW u \in Users, Exec(u)
    PROVE  /\ IsSeq(tables') /\ Len(tables') = Len(tables)
           /\ \A t \in 1..Len(tables) : t # Target(u) => tables'[t] = tables[t]
           /\ writers' = Append(writers, Issuer(u)) /\ writers' \in Seq(Nat)
           /\ Len(writers') > Len(writers) /\ writers'[Len(writers')] = Issuer(u)
           /\ UNCHANGED <<kinds, fates, live, open>>
<1>1. PICK rows : tables' = [tables EXCEPT ![Target(u)] = rows]
  BY DEF Exec
<1>2. IsSeq(tables) /\ writers \in Seq(Nat) /\ Target(u) \in 1..Len(tables) /\ Issuer(u) \in Nat
  BY TargetIn DEF DBInv, TablesFit
<1>3. /\ IsSeq(tables') /\ Len(tables') = Len(tables)
      /\ \A t \in 1..Len(tables) : t # Target(u) => tables'[t] = tables[t]
  <2> DEFINE n == Target(u)
  <2>1. tables' = Put(tables, n, rows) /\ n \in 1..Len(tables) /\ IsSeq(tables)
    BY <1>1, <1>2 DEF Put
  <2> HIDE DEF n
  <2>2. /\ IsSeq(tables') /\ Len(tables') = Len(tables)
        /\ \A t \in 1..Len(tables) : t # n => tables'[t] = tables[t]
    BY <2>1, PutSeq
  <2>3. QED
    BY <2>2 DEF n
<1>4. writers' = Append(writers, Issuer(u)) /\ UNCHANGED <<kinds, fates, live, open>>
  BY DEF Exec
<1>5. /\ writers' \in Seq(Nat) /\ Len(writers') > Len(writers)
      /\ writers'[Len(writers')] = Issuer(u)
  BY <1>2, <1>4
<1>6. QED
  BY <1>3, <1>4, <1>5

LEMMA ExecInv ==
    ASSUME DBInv, NEW u \in Users, Exec(u)
    PROVE  DBInv'
<1>1. /\ IsSeq(tables') /\ Len(tables') = Len(tables) /\ writers' \in Seq(Nat)
      /\ UNCHANGED <<kinds, fates, live, open>>
  BY ExecTables
<1>2. QED
  BY <1>1 DEF DBInv, TablesFit, OpenFit, OpenAreApart

\* A transaction begins with a table that is nobody's.
LEMMA BeginTables ==
    ASSUME DBInv, NEW u \in Users, NEW kind, Begin(u, kind)
    PROVE  /\ IsSeq(tables') /\ Len(tables') = Len(tables) + 1 /\ Len(tables) \in Nat
           /\ IsSeq(kinds') /\ Len(kinds') = Len(tables')
           /\ IsSeq(fates') /\ Len(fates') = Len(tables')
           /\ \A t \in 1..Len(tables) :
                tables'[t] = tables[t] /\ kinds'[t] = kinds[t] /\ fates'[t] = fates[t]
           /\ open' = [open EXCEPT ![u] = Append(@, Len(tables) + 1)]
           /\ UNCHANGED <<live, writers>>
<1>1. IsSeq(tables) /\ IsSeq(kinds) /\ IsSeq(fates)
      /\ Len(kinds) = Len(tables) /\ Len(fates) = Len(tables)
  BY DEF DBInv, TablesFit
<1>2. Len(tables) \in Nat
  BY <1>1, SeqLen
<1>3. tables' = Append(tables, tables[live]) /\ kinds' = Append(kinds, kind)
      /\ fates' = Append(fates, "running")
  BY DEF Begin
<1>4. /\ IsSeq(tables') /\ Len(tables') = Len(tables) + 1
      /\ \A t \in 1..Len(tables) : tables'[t] = tables[t]
  BY <1>1, <1>3, AppendSeq
<1>5. /\ IsSeq(kinds') /\ Len(kinds') = Len(tables) + 1
      /\ \A t \in 1..Len(tables) : kinds'[t] = kinds[t]
  BY <1>1, <1>3, AppendSeq
<1>6. /\ IsSeq(fates') /\ Len(fates') = Len(tables) + 1
      /\ \A t \in 1..Len(tables) : fates'[t] = fates[t]
  BY <1>1, <1>3, AppendSeq
<1>7. QED
  BY <1>2, <1>4, <1>5, <1>6 DEF Begin

LEMMA BeginInv ==
    ASSUME DBInv, NEW u \in Users, NEW kind, Begin(u, kind)
    PROVE  DBInv'
<1> DEFINE n == Len(tables) + 1
<1>1. /\ IsSeq(tables') /\ Len(tables') = n /\ Len(tables) \in Nat
      /\ IsSeq(kinds') /\ Len(kinds') = n /\ IsSeq(fates') /\ Len(fates') = n
      /\ open' = [open EXCEPT ![u] = Append(@, n)]
      /\ UNCHANGED <<live, writers>>
  BY BeginTables
<1>2. live \in 1..Len(tables) /\ writers \in Seq(Nat) /\ OpenFit /\ OpenAreApart
  BY DEF DBInv, TablesFit
<1>3. 1..Len(tables) \subseteq 1..n /\ n \in 1..n /\ n \notin 1..Len(tables)
  BY <1>1
<1>4. TablesFit'
  BY <1>1, <1>2, <1>3 DEF TablesFit
<1> HIDE DEF n
<1>5. \A v \in Users : open[v] \in Seq(1..Len(tables)) /\ open[v] \in Seq(1..n)
  BY <1>2, <1>3 DEF OpenFit
<1>6. OpenFit'
  <2>1. Append(open[u], n) \in Seq(1..n)
    BY <1>3, <1>5
  <2>2. QED
    BY <1>1, <1>2, <1>5, <2>1 DEF OpenFit
<1>7. \A v \in Users : v # u => open'[v] = open[v]
  BY <1>1, <1>2 DEF OpenFit
<1>8. open'[u] = Append(open[u], n)
  BY <1>1, <1>2 DEF OpenFit
<1>9. \A i \in DOMAIN open'[u] : \/ i \in DOMAIN open[u] /\ open'[u][i] = open[u][i]
                                 \/ i = Len(open[u]) + 1 /\ open'[u][i] = n
  BY <1>5, <1>8
<1>10. \A v \in Users : \A i \in DOMAIN open[v] : open[v][i] # n
  BY <1>3, <1>5
<1>11. OpenAreApart'
  <2>1. SUFFICES ASSUME NEW v \in Users, NEW w \in Users,
                        NEW i \in DOMAIN open'[v], NEW j \in DOMAIN open'[w]
                 PROVE  /\ open'[v][i] # live
                        /\ open'[v][i] = open'[w][j] => v = w /\ i = j
    BY <1>1 DEF OpenAreApart
  <2>2. \A x \in Users : \A k \in DOMAIN open'[x] :
          \/ k \in DOMAIN open[x] /\ open'[x][k] = open[x][k]
          \/ x = u /\ k = Len(open[u]) + 1 /\ open'[x][k] = n
    BY <1>7, <1>9
  <2>3. live # n
    BY <1>2, <1>3
  <2>4. QED
    BY <1>2, <1>10, <2>2, <2>3 DEF OpenAreApart
<1>12. QED
  BY <1>4, <1>6, <1>11 DEF DBInv

\* A transaction ends: its goroutine is in the one around it.
LEMMA EndTables ==
    ASSUME DBInv, NEW u \in Users, NEW fate, End(u, fate)
    PROVE  /\ open[u] # <<>> /\ Current(u) \in 1..Len(tables)
           /\ IsSeq(fates') /\ Len(fates') = Len(tables) /\ fates'[Current(u)] = fate
           /\ \A t \in 1..Len(tables) : t # Current(u) => fates'[t] = fates[t]
           /\ open' \in [Users -> Seq(1..Len(tables))]
           /\ \A v \in Users : \A i \in DOMAIN open'[v] :
                i \in DOMAIN open[v] /\ open'[v][i] = open[v][i] /\ open[v][i] # Current(u)
           /\ UNCHANGED <<tables, kinds, writers>>
<1>1. /\ open[u] # <<>> /\ open' = [open EXCEPT ![u] = SubSeq(@, 1, Len(@) - 1)]
      /\ fates' = [fates EXCEPT ![Current(u)] = fate] /\ UNCHANGED <<tables, kinds, writers>>
  BY DEF End
<1>2. Current(u) \in 1..Len(tables) /\ Len(open[u]) \in DOMAIN open[u]
  BY <1>1, CurrentIn
<1>3. /\ IsSeq(fates') /\ Len(fates') = Len(tables) /\ fates'[Current(u)] = fate
      /\ \A t \in 1..Len(tables) : t # Current(u) => fates'[t] = fates[t]
  <2>1. IsSeq(fates) /\ Current(u) \in 1..Len(fates) /\ Len(fates) = Len(tables)
    BY <1>2 DEF DBInv, TablesFit
  <2> DEFINE n == Current(u)
  <2>2. fates' = Put(fates, n, fate) /\ n \in 1..Len(fates)
    BY <1>1, <2>1 DEF Put
  <2> HIDE DEF n
  <2>3. /\ IsSeq(fates') /\ Len(fates') = Len(fates) /\ fates'[n] = fate
        /\ \A t \in 1..Len(fates) : t # n => fates'[t] = fates[t]
    BY <2>1, <2>2, PutSeq
  <2>4. QED
    BY <2>1, <2>3 DEF n
<1>4. OpenFit /\ OpenAreApart /\ open[u] \in Seq(1..Len(tables))
  BY DEF DBInv, OpenFit
<1>5. /\ SubSeq(open[u], 1, Len(open[u]) - 1) \in Seq(1..Len(tables))
      /\ \A i \in DOMAIN SubSeq(open[u], 1, Len(open[u]) - 1) :
           /\ i \in DOMAIN open[u] /\ i # Len(open[u])
           /\ SubSeq(open[u], 1, Len(open[u]) - 1)[i] = open[u][i]
  <2>1. Len(open[u]) \in Nat \ {0} /\ DOMAIN open[u] = 1..Len(open[u])
    BY <1>1, <1>2, <1>4
  <2> DEFINE n == Len(open[u]) - 1
             s == SubSeq(open[u], 1, n)
  <2>2. n \in Int /\ 1 \in Int /\ \A i \in 1..n : open[u][i] \in 1..Len(tables)
    BY <1>4, <2>1
  <2>3. /\ s \in Seq(1..Len(tables)) /\ Len(s) = IF 1 <= n THEN n - 1 + 1 ELSE 0
        /\ \A i \in 1..n - 1 + 1 : s[i] = open[u][1 + i - 1]
    <3> HIDE DEF n
    <3>1. QED
      BY <2>2, SubSeqProperties
  <2>4. n \in Nat
    BY <2>1
  <2> HIDE DEF s
  <2>5. Len(s) = n /\ DOMAIN s = 1..n /\ \A i \in 1..n : s[i] = open[u][i]
    <3> HIDE DEF n
    <3>1. QED
      BY <2>3, <2>4
  <2>6. \A i \in 1..n : i \in DOMAIN open[u] /\ i # Len(open[u])
    BY <2>1
  <2>7. QED
    BY <2>3, <2>5, <2>6 DEF s
<1>6. /\ open' \in [Users -> Seq(1..Len(tables))]
      /\ open'[u] = SubSeq(open[u], 1, Len(open[u]) - 1)
      /\ \A v \in Users : v # u => open'[v] = open[v]
  BY <1>1, <1>4, <1>5 DEF OpenFit
<1>7. ASSUME NEW v \in Users, NEW i \in DOMAIN open'[v]
      PROVE  i \in DOMAIN open[v] /\ open'[v][i] = open[v][i] /\ open[v][i] # Current(u)
  <2>1. i \in DOMAIN open[v] /\ open'[v][i] = open[v][i] /\ (v = u => i # Len(open[u]))
    BY <1>5, <1>6, <1>7
  <2>2. QED
    BY <1>2, <1>4, <2>1 DEF OpenAreApart, Current
<1>8. QED
  BY <1>1, <1>2, <1>3, <1>6, <1>7

LEMMA DBEndInv ==
    ASSUME DBInv, NEW u \in Users, Commit(u) \/ Rollback(u)
    PROVE  DBInv'
<1>1. PICK fate : End(u, fate)
  BY DEF Commit, Rollback
<1>2. live' \in {live, Current(u)}
  BY DEF Commit, Rollback
<1>3. /\ Current(u) \in 1..Len(tables)
      /\ IsSeq(fates') /\ Len(fates') = Len(tables)
      /\ open' \in [Users -> Seq(1..Len(tables))]
      /\ \A v \in Users : \A i \in DOMAIN open'[v] :
           i \in DOMAIN open[v] /\ open'[v][i] = open[v][i] /\ open[v][i] # Current(u)
      /\ UNCHANGED <<tables, kinds, writers>>
  BY <1>1, EndTables
<1>4. TablesFit'
  BY <1>2, <1>3 DEF DBInv, TablesFit
<1>5. OpenFit'
  BY <1>3 DEF OpenFit
<1>6. OpenAreApart'
  <2>1. SUFFICES ASSUME NEW v \in Users, NEW w \in Users,
                        NEW i \in DOMAIN open'[v], NEW j \in DOMAIN open'[w]
                 PROVE  /\ open'[v][i] # live'
                        /\ open'[v][i] = open'[w][j] => v = w /\ i = j
    BY DEF OpenAreApart
  <2>2. /\ i \in DOMAIN open[v] /\ open'[v][i] = open[v][i] /\ open[v][i] # Current(u)
        /\ j \in DOMAIN open[w] /\ open'[w][j] = open[w][j]
    BY <1>3
  <2>3. QED
    BY <1>2, <2>2 DEF DBInv, OpenAreApart
<1>7. QED
  BY <1>4, <1>5, <1>6 DEF DBInv

LEMMA DBNextInv == DBInv /\ [DBNext]_dbVars => DBInv'
<1>1. CASE UNCHANGED dbVars
  BY <1>1 DEF DBInv, dbVars, TablesFit, OpenFit, OpenAreApart
<1>2. CASE DBNext
  BY <1>2, ExecInv, BeginInv, DBEndInv DEF DBNext
<1>3. QED
  BY <1>1, <1>2

-----------------------------------------------------------------------------
(* What a host reads and what it commits. *)

LEMMA ReadsAgain ==
    ASSUME DBInv, DBNext, NEW u \in Users, InHost(u), open'[u] = open[u]
    PROVE  \/ \A k \in Keys : Rows(u, k)' = Rows(u, k)
           \/ Len(writers') > Len(writers) /\ writers'[Len(writers')] = Current(u)
<1> DEFINE t == Current(u)
<1>1. /\ open[u] # <<>> /\ kinds[t] = "host" /\ Target(u) = t /\ Issuer(u) = t
      /\ t \in 1..Len(tables) /\ t # live
      /\ Len(open[u]) \in DOMAIN open[u] /\ t = open[u][Len(open[u])]
  BY CurrentIn DEF InHost, Target, Issuer, Current
<1>2. Current(u)' = t
  BY DEF Current
<1> HIDE DEF t
<1>3. ASSUME tables'[t] = tables[t], kinds'[t] = kinds[t]
      PROVE  \A k \in Keys : Rows(u, k)' = Rows(u, k)
  <2>1. Target(u)' = t
    BY <1>1, <1>2, <1>3 DEF Target
  <2>2. QED
    BY <1>1, <1>3, <2>1 DEF Rows
<1>4. ASSUME NEW v \in Users, Exec(v)
      PROVE  \/ tables'[t] = tables[t] /\ kinds'[t] = kinds[t]
             \/ Len(writers') > Len(writers) /\ writers'[Len(writers')] = t
  <2>1. CASE v = u
    BY <1>1, <1>4, <2>1, ExecTables
  <2>2. CASE v # u
    <3>1. Target(v) = live \/ (open[v] # <<>> /\ Target(v) = Current(v))
      BY DEF Target
    <3>2. open[v] # <<>> => Len(open[v]) \in DOMAIN open[v] /\ Current(v) = open[v][Len(open[v])]
      BY CurrentIn DEF Current
    <3>3. Target(v) # t
      BY <1>1, <2>2, <3>1, <3>2 DEF DBInv, OpenAreApart
    <3>4. QED
      BY <1>1, <1>4, <3>3, ExecTables
  <2>3. QED
    BY <2>1, <2>2
<1>5. ASSUME NEW v \in Users, NEW kind, Begin(v, kind)
      PROVE  tables'[t] = tables[t] /\ kinds'[t] = kinds[t]
  BY <1>1, <1>5, BeginTables
<1>6. ASSUME NEW v \in Users, Commit(v) \/ Rollback(v)
      PROVE  tables'[t] = tables[t] /\ kinds'[t] = kinds[t]
  BY <1>6 DEF Commit, Rollback, End
<1>7. QED
  BY <1>3, <1>4, <1>5, <1>6 DEF DBNext, t

LEMMA CommitKeeps == DBInv /\ DBNext => CommitKeepsRows({"host"})
<1>1. SUFFICES ASSUME DBInv, DBNext, NEW u \in Users, open[u] # <<>>,
                      kinds[Current(u)] = "host", fates[Current(u)] = "running",
                      fates'[Current(u)] = "committed",
                      NEW i \in DOMAIN tables[Target(u)]
               PROVE  \E j \in DOMAIN tables'[live'] : tables'[live'][j] = tables[Target(u)][i]
  BY DEF CommitKeepsRows
<1> DEFINE t == Current(u)
<1>2. t \in 1..Len(tables) /\ Target(u) = t
  BY <1>1, CurrentIn DEF Target
<1>3. ASSUME NEW v \in Users, Exec(v) PROVE FALSE
  BY <1>1, <1>3 DEF Exec
<1>4. ASSUME NEW v \in Users, NEW kind, Begin(v, kind) PROVE FALSE
  BY <1>1, <1>2, <1>4, BeginTables
<1>5. ASSUME NEW v \in Users, Rollback(v) PROVE FALSE
  <2>1. fates'[t] = "rolled back" \/ fates'[t] = fates[t]
    BY <1>1, <1>2, <1>5, EndTables DEF Rollback
  <2>2. QED
    BY <1>1, <2>1
<1>6. ASSUME NEW v \in Users, Commit(v) PROVE live' = t /\ tables' = tables
  <2>1. Current(v) = t
    BY <1>1, <1>2, <1>6, EndTables DEF Commit
  <2>2. QED
    BY <1>6, <2>1 DEF Commit, End
<1>7. live' = t /\ tables' = tables
  BY <1>1, <1>3, <1>4, <1>5, <1>6 DEF DBNext
<1>8. QED
  BY <1>1, <1>2, <1>7

LEMMA DBInvariance == DBSpec => []DBInv
  BY DBInitInv, DBNextInv, PTL DEF DBSpec

-----------------------------------------------------------------------------
(* Who has written the rows.                                                *)

\* A row of a table was written by a transaction of a closure or by none, by a
\* committed one, or by the one whose table it is.
OwnOrDone(t, w) == w = 0 \/ kinds[w] # "host" \/ fates[w] = "committed" \/ w = t

RowsFit ==
    \A t \in 1..Len(tables) : \A i \in DOMAIN tables[t] :
        /\ tables[t][i].by \in 1..Len(writers)
        /\ OwnOrDone(t, writers[tables[t][i].by])

OpenRuns == \A u \in Users : \A i \in DOMAIN open[u] : fates[open[u][i]] = "running"

LiveIsPublished == kinds[live] = "driver" \/ fates[live] = "committed"

RowsInv == DBTypeOK /\ RowsFit /\ OpenRuns /\ LiveIsPublished

LEMMA LeastOf ==
    ASSUME NEW S, S \subseteq Nat, S # {}
    PROVE  \E n \in S : \A k \in S : n <= k
<1>1. PICK n \in S : \A k \in S : ~ (<<k, n>> \in OpToRel(<, Nat))
  BY NatLessThanWellFounded, WFMin
<1>2. \A k \in S : ~ (k < n)
  BY <1>1 DEF OpToRel
<1>3. \A k \in S : k \in Nat /\ n \in Nat
  OBVIOUS
<1>4. QED
  BY <1>2, <1>3

\* A set of places has its n-th.
LEMMA NthPlace ==
    ASSUME NEW len \in Nat, NEW at \in SUBSET (1..len), NEW n \in 1..Cardinality(at)
    PROVE  \E i \in at : Cardinality(at \cap (1..i)) = n
<1> DEFINE upTo(m) == at \cap (1..m)
           card(m) == Cardinality(upTo(m))
           S == {m \in Nat : card(m) >= n}
<1>1. \A m \in Nat : IsFiniteSet(upTo(m)) /\ card(m) \in Nat
  <2>1. SUFFICES ASSUME NEW m \in Nat PROVE IsFiniteSet(upTo(m)) /\ card(m) \in Nat
    OBVIOUS
  <2>2. IsFiniteSet(1..m) /\ upTo(m) \subseteq 1..m
    BY FS_Interval
  <2> HIDE DEF upTo
  <2>3. IsFiniteSet(upTo(m))
    BY <2>2, FS_Subset
  <2>4. QED
    BY <2>3, FS_CardinalityType
<1>2. IsFiniteSet(at) /\ n \in Nat /\ n >= 1 /\ n <= Cardinality(at)
  <2>1. IsFiniteSet(1..len) /\ at \subseteq 1..len
    BY FS_Interval
  <2>2. IsFiniteSet(at)
    BY <2>1, FS_Subset
  <2>3. Cardinality(at) \in Nat
    BY <2>2, FS_CardinalityType
  <2>4. QED
    BY <2>2, <2>3
<1>3. len \in S
  <2>1. upTo(len) = at
    OBVIOUS
  <2>2. card(len) >= n
    BY <1>2, <2>1
  <2>3. QED
    BY <2>2
<1>4. S \subseteq Nat /\ S # {}
  BY <1>3
<1>5. PICK m \in S : \A k \in S : m <= k
  BY <1>4, LeastOf
<1>6. m \in Nat /\ card(m) >= n
  BY <1>5
<1>7. m # 0
  <2>1. upTo(0) = {}
    OBVIOUS
  <2>2. card(0) = 0
    BY <2>1, FS_EmptySet
  <2>3. QED
    BY <1>2, <1>6, <2>2
<1>8. m - 1 \in Nat /\ card(m - 1) < n
  <2>1. m - 1 \in Nat /\ m - 1 \notin S
    BY <1>4, <1>5, <1>6, <1>7
  <2>2. card(m - 1) \in Nat
    BY <1>1, <2>1
  <2>3. QED
    BY <1>2, <2>1, <2>2
<1>9. m \in at /\ upTo(m) = upTo(m - 1) \cup {m} /\ m \notin upTo(m - 1)
  <2>1. 1..m = 1..(m - 1) \cup {m} /\ m \notin 1..(m - 1)
    BY <1>6, <1>7
  <2>2. CASE m \notin at
    <3>1. upTo(m) = upTo(m - 1)
      BY <2>1, <2>2
    <3>2. card(m) = card(m - 1)
      BY <3>1
    <3>3. QED
      BY <1>1, <1>2, <1>6, <1>8, <3>2
  <2>3. CASE m \in at
    BY <2>1, <2>3
  <2>4. QED
    BY <2>2, <2>3
<1>10. card(m) = card(m - 1) + 1
  <2>1. IsFiniteSet(upTo(m - 1))
    BY <1>1, <1>8
  <2> HIDE DEF upTo
  <2>2. QED
    BY <1>9, <2>1, FS_AddElement
<1>11. card(m) \in Nat /\ card(m - 1) \in Nat
  BY <1>1, <1>6, <1>8
<1>12. card(m) = n
  <2> HIDE DEF card, upTo
  <2>1. QED
    BY <1>2, <1>6, <1>8, <1>10, <1>11
<1>13. QED
  BY <1>9, <1>12

\* What a filter keeps were rows before.
LEMMA KeepRows ==
    ASSUME NEW R, NEW rows \in Seq(R), NEW at \in SUBSET DOMAIN rows
    PROVE  /\ Keep(rows, at) \in Seq(R)
           /\ \A n \in DOMAIN Keep(rows, at) : \E i \in DOMAIN rows : Keep(rows, at)[n] = rows[i]
<1> DEFINE nth(n) == CHOOSE i \in at : Cardinality(at \cap (1..i)) = n
<1>1. Len(rows) \in Nat /\ DOMAIN rows = 1..Len(rows) /\ at \in SUBSET (1..Len(rows))
  OBVIOUS
<1>2. IsFiniteSet(at) /\ Cardinality(at) \in Nat
  <2>1. IsFiniteSet(1..Len(rows)) /\ at \subseteq 1..Len(rows)
    BY <1>1, FS_Interval
  <2>2. IsFiniteSet(at)
    BY <2>1, FS_Subset
  <2>3. QED
    BY <2>2, FS_CardinalityType
<1>3. \A n \in 1..Cardinality(at) : nth(n) \in at
  BY <1>1, NthPlace
<1>4. \A n \in 1..Cardinality(at) : nth(n) \in DOMAIN rows /\ rows[nth(n)] \in R
  BY <1>1, <1>3
<1>5. Keep(rows, at) = [n \in 1..Cardinality(at) |-> rows[nth(n)]]
  BY DEF Keep
<1> HIDE DEF nth
<1>6. Keep(rows, at) \in [1..Cardinality(at) -> R]
  BY <1>4, <1>5
<1>7. Keep(rows, at) \in Seq(R)
  BY <1>2, <1>6, IsASeq
<1>8. QED
  BY <1>4, <1>5, <1>7

LEMMA FunctionIsSeq ==
    ASSUME NEW S, NEW n \in Nat, NEW s \in [1..n -> S]
    PROVE  s \in Seq(S) /\ Len(s) = n
  OBVIOUS

LEMMA SeqInto ==
    ASSUME NEW S, NEW T, S \subseteq T, NEW s \in Seq(S)
    PROVE  s \in Seq(T)
  OBVIOUS

\* The parts of a well typed state.
LEMMA TypeParts ==
    ASSUME DBTypeOK
    PROVE  /\ tables \in Seq(Seq(Row)) /\ Len(tables) \in Nat /\ Len(tables) <= MaxTables
           /\ DOMAIN tables = 1..Len(tables)
           /\ writers \in Seq(0..Len(tables)) /\ Len(writers) \in Nat
           /\ Len(writers) <= MaxStatements
           /\ live \in 1..Len(tables) /\ fates[live] \in {"driver", "committed"}
           /\ kinds \in [1..Len(tables) -> {"driver"} \cup TxKinds]
           /\ fates \in [1..Len(tables) -> {"driver", "running", "committed", "rolled back"}]
           /\ open \in [Users -> Seq(1..Len(tables))]
<1>1. tables \in Seq(Seq(Row)) /\ Len(tables) \in 1..MaxTables
  BY DEF DBTypeOK
<1>2. Len(tables) \in Nat /\ Len(tables) <= MaxTables /\ DOMAIN tables = 1..Len(tables)
  BY <1>1, DatabaseAssumption
<1>3. writers \in Seq(0..Len(tables)) /\ Len(writers) <= MaxStatements
  BY DEF DBTypeOK
<1>4. Len(writers) \in Nat
  BY <1>3
<1>5. live \in 1..Len(tables) /\ fates[live] \in {"driver", "committed"}
  BY <1>2 DEF DBTypeOK
<1>6. kinds \in [1..Len(tables) -> {"driver"} \cup TxKinds]
  BY <1>2 DEF DBTypeOK
<1>7. fates \in [1..Len(tables) -> {"driver", "running", "committed", "rolled back"}]
  BY <1>2 DEF DBTypeOK
<1>8. open \in [Users -> Seq(1..Len(tables))]
  BY <1>2 DEF DBTypeOK
<1>9. QED
  BY <1>1, <1>2, <1>3, <1>4, <1>5, <1>6, <1>7, <1>8

\* A statement leaves rows that it has written, and rows that were there.
LEMMA ResultRows ==
    ASSUME NEW rows \in Seq(Row), NEW k \in Keys, NEW id \in 1..MaxStatements,
           NEW left \in Results(rows, k, id)
    PROVE  /\ left \in Seq(Row)
           /\ \A n \in DOMAIN left :
                left[n].by = id \/ \E i \in DOMAIN rows : left[n].by = rows[i].by
<1>1. CASE left = Insert(rows, k, id)
  <2> DEFINE row == [key |-> k, by |-> id]
  <2>1. row \in Row /\ row.by = id
    BY DEF Row
  <2>2. left = Append(rows, row)
    BY <1>1 DEF Insert
  <2> HIDE DEF row
  <2>3. /\ left \in Seq(Row) /\ DOMAIN left = 1..Len(rows) + 1 /\ Len(rows) \in Nat
        /\ left[Len(rows) + 1] = row /\ \A n \in 1..Len(rows) : left[n] = rows[n]
    BY <2>1, <2>2
  <2>4. \A n \in DOMAIN left : n \in DOMAIN rows \/ n = Len(rows) + 1
    BY <2>3
  <2>5. QED
    BY <2>1, <2>3, <2>4
<1>2. CASE left = Update(rows, k, id)
  <2>1. \A row \in Row : [row EXCEPT !.by = id] \in Row /\ [row EXCEPT !.by = id].by = id
    BY DEF Row
  <2>2. \A i \in DOMAIN rows : /\ rows[i] \in Row
                               /\ [rows[i] EXCEPT !.by = id] \in Row
                               /\ [rows[i] EXCEPT !.by = id].by = id
    BY <2>1
  <2> DEFINE new(i) == IF rows[i].key = k THEN [rows[i] EXCEPT !.by = id] ELSE rows[i]
  <2>3. \A i \in DOMAIN rows : new(i) \in Row /\ (new(i).by = id \/ new(i).by = rows[i].by)
    BY <2>2
  <2>4. left = [i \in DOMAIN rows |-> new(i)]
    BY <1>2 DEF Update
  <2> HIDE DEF new
  <2>5. DOMAIN rows = 1..Len(rows) /\ Len(rows) \in Nat
    OBVIOUS
  <2>6. left \in [1..Len(rows) -> Row]
    BY <2>3, <2>4, <2>5
  <2>7. left \in Seq(Row)
    BY <2>5, <2>6, IsASeq
  <2>8. QED
    BY <2>3, <2>4, <2>7
<1>3. CASE left = Delete(rows, k)
  <2> DEFINE at == {i \in DOMAIN rows : rows[i].key # k}
  <2>1. left = Keep(rows, at) /\ at \in SUBSET DOMAIN rows
    BY <1>3 DEF Delete
  <2> HIDE DEF at
  <2>2. QED
    BY <2>1, KeepRows
<1>4. CASE left = <<>>
  BY <1>4
<1>5. QED
  BY <1>1, <1>2, <1>3, <1>4 DEF Results

\* A statement's rows are of the transaction it was issued in, which is a
\* host's only when it works on the host's table.
LEMMA ExecRows ==
    ASSUME DBInv, RowsInv, NEW u \in Users, Exec(u)
    PROVE  RowsInv'
<1> DEFINE t  == Target(u)
           id == Len(writers) + 1
           w  == Issuer(u)
<1>1. DBTypeOK /\ RowsFit /\ OpenRuns /\ LiveIsPublished
  BY DEF RowsInv
<1>2. /\ Len(tables) \in Nat /\ DOMAIN tables = 1..Len(tables) /\ Len(writers) \in Nat
      /\ tables \in Seq(Seq(Row)) /\ writers \in Seq(0..Len(tables))
  BY <1>1, TypeParts
<1>3. t \in 1..Len(tables) /\ Len(writers) < MaxStatements /\ id \in 1..MaxStatements
  <2>1. t \in 1..Len(tables)
    BY TargetIn
  <2>2. Len(writers) < MaxStatements
    BY DEF Exec
  <2>3. QED
    BY <1>2, <2>1, <2>2, DatabaseAssumption
<1>4. w \in 0..Len(tables) /\ OwnOrDone(t, w)
  <2>1. CASE open[u] = <<>>
    BY <1>2, <2>1 DEF Issuer, OwnOrDone
  <2>2. CASE open[u] # <<>>
    BY <1>2, <2>2, CurrentIn DEF Issuer, OwnOrDone, Target
  <2>3. QED
    BY <2>1, <2>2
<1>5. PICK k \in Keys : \E rows \in Results(tables[t], k, id) : tables' = [tables EXCEPT ![t] = rows]
  BY DEF Exec
<1>6. PICK rows \in Results(tables[t], k, id) : tables' = [tables EXCEPT ![t] = rows]
  BY <1>5
<1>7. writers' = Append(writers, w) /\ UNCHANGED <<kinds, fates, live, open>>
  BY DEF Exec
<1> HIDE DEF t, id, w
<1>8. tables[t] \in Seq(Row)
  BY <1>2, <1>3
<1>9. /\ rows \in Seq(Row)
      /\ \A n \in DOMAIN rows :
            rows[n].by = id \/ \E i \in DOMAIN tables[t] : rows[n].by = tables[t][i].by
  BY <1>3, <1>6, <1>8, ResultRows
<1>10. /\ tables' \in Seq(Seq(Row)) /\ Len(tables') = Len(tables) /\ DOMAIN tables' = DOMAIN tables
       /\ tables'[t] = rows /\ \A s \in 1..Len(tables) : s # t => tables'[s] = tables[s]
  BY <1>2, <1>3, <1>6, <1>9
<1>11. /\ writers' \in Seq(0..Len(tables)) /\ Len(writers') = id /\ writers'[id] = w
       /\ \A n \in 1..Len(writers) : writers'[n] = writers[n]
  BY <1>2, <1>4, <1>7 DEF id
<1>12. DBTypeOK'
  <2>1. Len(writers') <= MaxStatements
    BY <1>3, <1>11
  <2>2. QED
    BY <1>1, <1>7, <1>10, <1>11, <2>1 DEF DBTypeOK
<1>13. RowsFit'
  <2>1. SUFFICES ASSUME NEW s \in 1..Len(tables), NEW n \in DOMAIN tables'[s]
                 PROVE  /\ tables'[s][n].by \in 1..id
                        /\ OwnOrDone(s, writers'[tables'[s][n].by])
    BY <1>7, <1>10, <1>11 DEF RowsFit, OwnOrDone
  <2>2. CASE s = t /\ rows[n].by = id
    BY <1>2, <1>4, <1>10, <1>11, <2>2 DEF id
  <2>3. ASSUME NEW i \in DOMAIN tables[s], tables'[s][n].by = tables[s][i].by
        PROVE  /\ tables'[s][n].by \in 1..id
               /\ OwnOrDone(s, writers'[tables'[s][n].by])
    <3>1. tables[s][i].by \in 1..Len(writers) /\ OwnOrDone(s, writers[tables[s][i].by])
      BY <1>1 DEF RowsFit
    <3>2. 1..Len(writers) \subseteq 1..id
      BY <1>2 DEF id
    <3>3. QED
      BY <1>11, <2>3, <3>1, <3>2
  <2>4. CASE s = t /\ rows[n].by # id
    BY <1>9, <1>10, <2>1, <2>3, <2>4
  <2>5. CASE s # t
    BY <1>10, <2>1, <2>3, <2>5
  <2>6. QED
    BY <2>2, <2>4, <2>5
<1>14. OpenRuns' /\ LiveIsPublished'
  BY <1>1, <1>7 DEF OpenRuns, LiveIsPublished
<1>15. QED
  BY <1>12, <1>13, <1>14 DEF RowsInv

\* A snapshot holds what was published.
LEMMA BeginRows ==
    ASSUME DBInv, RowsInv, NEW u \in Users, NEW kind \in TxKinds, Begin(u, kind)
    PROVE  RowsInv'
<1> DEFINE n == Len(tables) + 1
<1>1. DBTypeOK /\ RowsFit /\ OpenRuns /\ LiveIsPublished /\ DBInv'
  BY BeginInv DEF RowsInv
<1>2. /\ Len(tables) \in Nat /\ DOMAIN tables = 1..Len(tables) /\ tables \in Seq(Seq(Row))
      /\ writers \in Seq(0..Len(tables)) /\ Len(writers) <= MaxStatements
      /\ live \in 1..Len(tables) /\ Len(writers) \in Nat
  BY <1>1, TypeParts
<1>3. /\ tables' = Append(tables, tables[live]) /\ Len(tables) < MaxTables
      /\ kinds' = Append(kinds, kind) /\ fates' = Append(fates, "running")
      /\ open' = [open EXCEPT ![u] = Append(@, n)] /\ UNCHANGED <<live, writers>>
  BY DEF Begin
<1>4. /\ kinds \in [1..Len(tables) -> {"driver"} \cup TxKinds]
      /\ fates \in [1..Len(tables) -> {"driver", "running", "committed", "rolled back"}]
  BY <1>1, TypeParts
<1>5. /\ tables' \in Seq(Seq(Row)) /\ Len(tables') = n /\ DOMAIN tables' = 1..n
      /\ tables'[n] = tables[live] /\ \A t \in 1..Len(tables) : tables'[t] = tables[t]
  BY <1>2, <1>3
<1>6. /\ kinds' \in [1..n -> {"driver"} \cup TxKinds]
      /\ \A t \in 1..Len(tables) : kinds'[t] = kinds[t]
  <2>1. kinds \in Seq({"driver"} \cup TxKinds)
    BY <1>2, <1>4, FunctionIsSeq
  <2>2. Len(kinds) = Len(tables)
    BY <1>2, <1>4, FunctionIsSeq
  <2>3. kinds' \in Seq({"driver"} \cup TxKinds) /\ Len(kinds') = n
    BY <1>3, <2>1, <2>2
  <2>4. \A t \in 1..Len(tables) : kinds'[t] = kinds[t]
    BY <1>3, <2>1, <2>2
  <2>5. kinds' \in [1..n -> {"driver"} \cup TxKinds]
    <3> HIDE DEF n
    <3>1. QED
      BY <2>3
  <2>6. QED
    BY <2>4, <2>5
<1>7. /\ fates' \in [1..n -> {"driver", "running", "committed", "rolled back"}]
      /\ fates'[n] = "running" /\ \A t \in 1..Len(tables) : fates'[t] = fates[t]
  <2> DEFINE F == {"driver", "running", "committed", "rolled back"}
  <2>1. "running" \in F
    OBVIOUS
  <2>2. fates \in [1..Len(tables) -> F]
    BY <1>4
  <2> HIDE DEF F
  <2>3. fates \in Seq(F) /\ Len(fates) = Len(tables)
    BY <1>2, <2>2, FunctionIsSeq
  <2> DEFINE e == "running"
  <2>4. fates' = Append(fates, e) /\ e \in F
    BY <1>3, <2>1
  <2> HIDE DEF e
  <2>5. IsSeq(fates)
    BY <2>3 DEF IsSeq
  <2>6. fates'[n] = e
    BY <2>4, <2>5, <2>3, AppendSeq
  <2>7. fates' \in Seq(F) /\ Len(fates') = n
    BY <2>4, <2>3
  <2>8. fates' \in Seq(F) /\ Len(fates') = n /\ fates'[n] = "running"
    BY <2>6, <2>7 DEF e
  <2>9. \A t \in 1..Len(tables) : fates'[t] = fates[t]
    BY <1>3, <2>1, <2>3
  <2>10. fates' \in [1..n -> F]
    <3> HIDE DEF n
    <3>1. QED
      BY <2>8
  <2>11. QED
    BY <2>8, <2>9, <2>10 DEF F
<1>8. 1..Len(tables) \subseteq 1..n /\ 0..Len(tables) \subseteq 0..n /\ n \in 1..MaxTables
  BY <1>2, <1>3, DatabaseAssumption
<1>9. \A t \in 1..n : t # n => t \in 1..Len(tables)
  <2>1. Len(tables) \in Nat
    BY <1>2
  <2>2. QED
    BY <2>1
<1> HIDE DEF n
<1>10. DBTypeOK'
  <2>1. open' \in [Users -> Seq(1..n)] /\ writers' \in Seq(Nat)
    BY <1>1, <1>5 DEF DBInv, OpenFit, TablesFit
  <2>2. writers' \in Seq(0..n) /\ Len(writers') <= MaxStatements
    BY <1>2, <1>3, <1>8, SeqInto
  <2>3. live' \in 1..n /\ fates'[live'] \in {"driver", "committed"}
    BY <1>1, <1>2, <1>3, <1>7, <1>8 DEF DBTypeOK
  <2>4. QED
    BY <1>5, <1>6, <1>7, <1>8, <2>1, <2>2, <2>3 DEF DBTypeOK
<1>11. \A w \in 0..Len(tables), t \in 1..Len(tables) : OwnOrDone(t, w) => OwnOrDone(t, w)'
  <2>1. SUFFICES ASSUME NEW w \in 0..Len(tables), NEW t \in 1..Len(tables), OwnOrDone(t, w), w # 0
                 PROVE  OwnOrDone(t, w)'
    BY DEF OwnOrDone
  <2>2. w \in 1..Len(tables)
    BY <1>2, <2>1
  <2>3. QED
    BY <1>6, <1>7, <2>1, <2>2 DEF OwnOrDone
<1>12. RowsFit'
  <2> DEFINE by(t, i) == tables'[t][i].by
             done(t, w) == w = 0 \/ kinds'[w] # "host" \/ fates'[w] = "committed" \/ w = t
  <2>1. SUFFICES \A t \in 1..n : \A i \in DOMAIN tables'[t] :
                    by(t, i) \in 1..Len(writers) /\ done(t, writers[by(t, i)])
    BY <1>3, <1>5 DEF RowsFit, OwnOrDone
  <2>2. SUFFICES ASSUME NEW t \in 1..n, NEW i \in DOMAIN tables'[t]
                 PROVE  by(t, i) \in 1..Len(writers) /\ done(t, writers[by(t, i)])
    OBVIOUS
  <2> HIDE DEF by, done
  <2>3. PICK s \in 1..Len(tables) : tables'[t] = tables[s] /\ (t # n => s = t) /\ (t = n => s = live)
    <3>1. CASE t = n
      BY <1>2, <1>5, <3>1
    <3>2. CASE t # n
      <4>1. t \in 1..Len(tables)
        BY <1>9, <2>2, <3>2
      <4>2. QED
        BY <1>5, <3>2, <4>1
    <3>3. QED
      BY <3>1, <3>2
  <2>4. PICK w : w = writers[tables[s][i].by]
    OBVIOUS
  <2>5. tables[s][i].by \in 1..Len(writers) /\ OwnOrDone(s, w)
    <3>1. /\ tables[s][i].by \in 1..Len(writers)
          /\ OwnOrDone(s, writers[tables[s][i].by])
      BY <1>1, <2>2, <2>3 DEF RowsFit
    <3>2. QED
      BY <2>4, <3>1
  <2>6. w \in 0..Len(tables)
    <3>1. writers \in Seq(0..Len(tables)) /\ DOMAIN writers = 1..Len(writers)
      BY <1>2
    <3>2. writers[tables[s][i].by] \in 0..Len(tables)
      BY <2>5, <3>1
    <3>3. QED
      BY <2>4, <3>2
  <2>7. OwnOrDone(s, w)'
    BY <1>11, <2>5, <2>6
  <2>8. OwnOrDone(t, w)'
    <3>1. CASE t # n
      BY <2>3, <2>7, <3>1
    <3>2. CASE t = n
      <4>1. LiveIsPublished' /\ s = live'
        BY <1>1, <1>2, <1>3, <1>6, <1>7, <2>3, <3>2 DEF LiveIsPublished
      <4>2. w = s => kinds'[w] # "host" \/ fates'[w] = "committed"
        BY <4>1 DEF LiveIsPublished
      <4>3. QED
        BY <2>7, <4>2 DEF OwnOrDone
    <3>3. QED
      BY <3>1, <3>2
  <2>9. QED
    BY <2>3, <2>4, <2>5, <2>8 DEF OwnOrDone, by, done
<1>13. OpenRuns'
  <2>1. SUFFICES ASSUME NEW v \in Users, NEW i \in DOMAIN open'[v]
                 PROVE  fates'[open'[v][i]] = "running"
    BY DEF OpenRuns
  <2>2. open[v] \in Seq(1..Len(tables)) /\ open \in [Users -> Seq(1..Len(tables))]
    BY DEF DBInv, OpenFit
  <2>3. CASE i \in DOMAIN open[v] /\ open'[v][i] = open[v][i]
    <3>1. open[v][i] \in 1..Len(tables) /\ fates[open[v][i]] = "running"
      BY <1>1, <2>2, <2>3 DEF OpenRuns
    <3>2. QED
      BY <1>7, <2>3, <3>1
  <2>4. CASE open'[v][i] = n
    BY <1>7, <2>4
  <2>5. CASE v = u
    <3>1. open'[v] = Append(open[v], n)
      BY <1>3, <2>2, <2>5
    <3>2. \/ i \in DOMAIN open[v] /\ open'[v][i] = open[v][i]
          \/ open'[v][i] = n
      BY <2>1, <2>2, <3>1
    <3>3. QED
      BY <2>3, <2>4, <3>2
  <2>6. CASE v # u
    <3>1. open'[v] = open[v]
      BY <1>3, <2>2, <2>6
    <3>2. QED
      BY <2>1, <2>3, <3>1
  <2>7. QED
    BY <2>5, <2>6
<1>14. LiveIsPublished'
  BY <1>1, <1>2, <1>3, <1>6, <1>7 DEF LiveIsPublished
<1>15. QED
  BY <1>10, <1>12, <1>13, <1>14 DEF RowsInv

\* A transaction that runs becomes a committed one, and its table the driver's,
\* or one that was rolled back, whose rows are in no other table.
LEMMA EndRows ==
    ASSUME DBInv, RowsInv, NEW u \in Users, Commit(u) \/ Rollback(u)
    PROVE  RowsInv'
<1> DEFINE c == Current(u)
<1>1. DBTypeOK /\ RowsFit /\ OpenRuns /\ LiveIsPublished /\ DBInv'
  BY DBEndInv DEF RowsInv
<1>2. /\ Len(tables) \in Nat /\ DOMAIN tables = 1..Len(tables) /\ Len(writers) \in Nat
      /\ writers \in Seq(0..Len(tables)) /\ open \in [Users -> Seq(1..Len(tables))]
  BY <1>1, TypeParts
<1>3. /\ \A w \in 0..Len(tables) : w # 0 => w \in 1..Len(tables)
      /\ \A n \in 1..Len(writers) : writers[n] \in 0..Len(tables)
      /\ \A v \in Users : \A i \in DOMAIN open[v] : open[v][i] \in 1..Len(tables)
  BY <1>2
<1>4. PICK fate \in {"committed", "rolled back"} :
        End(u, fate) /\ live' = IF fate = "committed" THEN c ELSE live
  BY DEF Commit, Rollback
<1>5. /\ open[u] # <<>> /\ c \in 1..Len(tables) /\ fates'[c] = fate
      /\ \A t \in 1..Len(tables) : t # c => fates'[t] = fates[t]
      /\ open' \in [Users -> Seq(1..Len(tables))]
      /\ \A v \in Users : \A i \in DOMAIN open'[v] :
           i \in DOMAIN open[v] /\ open'[v][i] = open[v][i] /\ open[v][i] # c
      /\ UNCHANGED <<tables, kinds, writers>>
  BY <1>4, EndTables
<1>6. c # live /\ fates[c] = "running"
  <2>1. Len(open[u]) \in DOMAIN open[u] /\ c # live
    BY <1>5, CurrentIn
  <2>2. QED
    BY <1>1, <2>1 DEF OpenRuns, Current
<1>7. fates' = [fates EXCEPT ![c] = fate]
  BY <1>4 DEF End
<1> HIDE DEF c
<1>8. /\ fates \in [1..Len(tables) -> {"driver", "running", "committed", "rolled back"}]
      /\ live \in 1..Len(tables) /\ fates[live] \in {"driver", "committed"}
  BY <1>1, TypeParts
<1>9. /\ fates' \in [1..Len(tables) -> {"driver", "running", "committed", "rolled back"}]
      /\ live' \in 1..Len(tables) /\ fates'[live'] \in {"driver", "committed"}
  <2> DEFINE F == {"driver", "running", "committed", "rolled back"}
  <2>1. fates \in [1..Len(tables) -> F] /\ fate \in F
    BY <1>4, <1>8
  <2>2. live' \in 1..Len(tables)
    BY <1>4, <1>5, <1>8
  <2>3. fates'[live'] \in {"driver", "committed"}
    <3>1. CASE fate = "committed"
      BY <1>4, <1>5, <3>1
    <3>2. CASE fate # "committed"
      BY <1>4, <1>5, <1>6, <1>8, <3>2
    <3>3. QED
      BY <3>1, <3>2
  <2>4. fates' \in [1..Len(tables) -> F]
    <3> HIDE DEF F
    <3>1. QED
      BY <1>5, <1>7, <2>1
  <2>5. QED
    BY <2>2, <2>3, <2>4
<1>10. DBTypeOK'
  BY <1>1, <1>5, <1>2, <1>8, <1>9 DEF DBTypeOK
<1>11. \A w \in 1..Len(tables) : fates[w] = "committed" => fates'[w] = "committed"
  BY <1>5, <1>6
<1>12. \A t \in 1..Len(tables), w \in 0..Len(tables) :
         OwnOrDone(t, w) => w = 0 \/ kinds'[w] # "host" \/ fates'[w] = "committed" \/ w = t
  <2>1. SUFFICES ASSUME NEW t \in 1..Len(tables), NEW w \in 0..Len(tables), OwnOrDone(t, w), w # 0
                 PROVE  kinds'[w] # "host" \/ fates'[w] = "committed" \/ w = t
    OBVIOUS
  <2>2. w \in 1..Len(tables)
    BY <1>3, <2>1
  <2>3. QED
    BY <1>5, <1>11, <2>1, <2>2 DEF OwnOrDone
<1>13. RowsFit'
  <2>1. \A t \in 1..Len(tables) : \A i \in DOMAIN tables[t] :
          /\ tables[t][i].by \in 1..Len(writers)
          /\ writers[tables[t][i].by] \in 0..Len(tables)
          /\ OwnOrDone(t, writers[tables[t][i].by])
    <3>1. SUFFICES ASSUME NEW t \in 1..Len(tables), NEW i \in DOMAIN tables[t]
                   PROVE  /\ tables[t][i].by \in 1..Len(writers)
                          /\ writers[tables[t][i].by] \in 0..Len(tables)
                          /\ OwnOrDone(t, writers[tables[t][i].by])
      OBVIOUS
    <3>2. /\ tables[t][i].by \in 1..Len(writers)
          /\ OwnOrDone(t, writers[tables[t][i].by])
      BY <1>1 DEF RowsFit
    <3>3. QED
      BY <1>3, <3>2
  <2>2. SUFFICES ASSUME NEW t \in 1..Len(tables), NEW i \in DOMAIN tables[t]
                 PROVE  /\ tables[t][i].by \in 1..Len(writers)
                        /\ OwnOrDone(t, writers[tables[t][i].by])'
    BY <1>5 DEF RowsFit
  <2>3. OwnOrDone(t, writers[tables[t][i].by])'
    BY <1>5, <1>12, <2>1 DEF OwnOrDone
  <2>4. QED
    BY <2>1, <2>3
<1>14. OpenRuns'
  <2>1. SUFFICES ASSUME NEW v \in Users, NEW i \in DOMAIN open'[v]
                 PROVE  fates'[open'[v][i]] = "running"
    BY DEF OpenRuns
  <2>2. i \in DOMAIN open[v] /\ open'[v][i] = open[v][i] /\ open[v][i] # c
    BY <1>5, <2>1
  <2>3. open[v][i] \in 1..Len(tables) /\ fates[open[v][i]] = "running"
    <3>1. fates[open[v][i]] = "running"
      BY <1>1, <2>2 DEF OpenRuns
    <3>2. open[v][i] \in 1..Len(tables)
      BY <1>3, <2>2
    <3>3. QED
      BY <3>1, <3>2
  <2>4. QED
    BY <1>5, <2>2, <2>3
<1>15. LiveIsPublished'
  <2>1. CASE fate = "committed"
    BY <1>4, <1>5, <2>1 DEF LiveIsPublished
  <2>2. CASE fate # "committed"
    BY <1>1, <1>4, <1>5, <1>6, <1>8, <2>2 DEF LiveIsPublished
  <2>3. QED
    BY <2>1, <2>2
<1>16. QED
  BY <1>10, <1>13, <1>14, <1>15 DEF RowsInv

LEMMA InitRows == DBInit => RowsInv
<1>1. SUFFICES ASSUME DBInit PROVE RowsInv
  OBVIOUS
<1>2. /\ tables \in Seq({<<>>}) /\ Len(tables) = 1 /\ DOMAIN tables = {1} /\ tables[1] = <<>>
      /\ kinds = <<"driver">> /\ fates = <<"driver">> /\ live = 1
      /\ open = [u \in Users |-> <<>>] /\ writers = <<>>
  BY <1>1 DEF DBInit
<1>3. DBTypeOK
  <2>1. tables \in Seq(Seq(Row)) /\ Len(tables) \in 1..MaxTables
    <3>1. {<<>>} \subseteq Seq(Row)
      OBVIOUS
    <3>2. tables \in Seq(Seq(Row))
      BY <1>2, <3>1, SeqInto
    <3>3. QED
      BY <1>2, <3>2, DatabaseAssumption
  <2>2. kinds \in [DOMAIN tables -> {"driver"} \cup TxKinds]
    BY <1>2
  <2>3. /\ fates \in [DOMAIN tables -> {"driver", "running", "committed", "rolled back"}]
        /\ live \in DOMAIN tables /\ fates[live] \in {"driver", "committed"}
    <3>1. fates \in [{1} -> {"driver"}]
      BY <1>2
    <3>2. QED
      BY <1>2, <3>1
  <2>4. open \in [Users -> Seq(DOMAIN tables)]
    BY <1>2
  <2>5. writers \in Seq(0..Len(tables)) /\ Len(writers) <= MaxStatements
    BY <1>2, DatabaseAssumption
  <2>6. QED
    BY <2>1, <2>2, <2>3, <2>4, <2>5 DEF DBTypeOK
<1>4. RowsFit /\ OpenRuns /\ LiveIsPublished
  BY <1>2 DEF RowsFit, OpenRuns, LiveIsPublished
<1>5. QED
  BY <1>3, <1>4 DEF RowsInv

LEMMA NextRows == DBInv /\ RowsInv /\ [DBNext]_dbVars => RowsInv'
<1>1. CASE UNCHANGED dbVars
  <2>1. DBTypeOK => DBTypeOK'
    BY <1>1 DEF dbVars, DBTypeOK
  <2>2. RowsFit => RowsFit'
    BY <1>1 DEF dbVars, RowsFit, OwnOrDone
  <2>3. OpenRuns /\ LiveIsPublished => OpenRuns' /\ LiveIsPublished'
    BY <1>1 DEF dbVars, OpenRuns, LiveIsPublished
  <2>4. QED
    BY <2>1, <2>2, <2>3 DEF RowsInv
<1>2. CASE DBNext
  BY <1>2, ExecRows, BeginRows, EndRows DEF DBNext
<1>3. QED
  BY <1>1, <1>2

LEMMA RowsInvariance == DBSpec => []RowsInv
  BY InitRows, NextRows, DBInvariance, PTL DEF DBSpec

\* Every reachable state of the database is well typed.
THEOREM DatabaseTypeCorrect == DBSpec => []DBTypeOK
<1>1. RowsInv => DBTypeOK
  BY DEF RowsInv
<1>2. QED
  BY <1>1, RowsInvariance, PTL

\* The driver shows no row of a host's transaction that has not committed,
\* whatever was copied to the snapshots of the others and published with them.
THEOREM HostRowsArePublished == DBSpec => []HostRowsAreCommitted
<1>1. RowsInv => HostRowsAreCommitted
  <2>1. SUFFICES ASSUME RowsInv, NEW i \in DOMAIN tables[live], Writer(tables[live][i]) # 0,
                        kinds[Writer(tables[live][i])] = "host"
                 PROVE  fates[Writer(tables[live][i])] = "committed"
    BY DEF HostRowsAreCommitted
  <2>2. OwnOrDone(live, Writer(tables[live][i]))
    BY <2>1, TypeParts DEF RowsInv, RowsFit, Writer
  <2>3. QED
    BY <2>1, <2>2 DEF OwnOrDone, RowsInv, LiveIsPublished
<1>2. QED
  BY <1>1, RowsInvariance, PTL

-----------------------------------------------------------------------------
\* A host reads the same rows again until its own next statement, whatever the
\* other goroutines do to the driver and to their transactions, and its commit
\* publishes the rows it has written.
THEOREM HostsAreAlone == DBSpec => HostsAreIsolated
<1> DEFINE Again == \A u \in Users :
                InHost(u) /\ open'[u] = open[u]
                    => \/ \A k \in Keys : Rows(u, k)' = Rows(u, k)
                       \/ Len(writers') > Len(writers) /\ writers'[Len(writers')] = Current(u)
           Keeps == CommitKeepsRows({"host"})
<1>1. DBInv /\ [DBNext]_dbVars => [Again]_dbVars
  BY ReadsAgain
<1>2. DBInv /\ [DBNext]_dbVars => [Keeps]_dbVars
  BY CommitKeeps
<1>3. QED
  BY <1>1, <1>2, DBInvariance, PTL DEF DBSpec, HostsAreIsolated, RepeatableReads, HostCommits

-----------------------------------------------------------------------------
(* The files. *)

Filling(g) == op[g].step \in {"fill", "close", "rename"}
Copying(g) == op[g].step \in {"part", "rest"}

Written == Paths \ copied

OwnInodes == \A e, f \in Files : dir[e] = dir[f] /\ dir[e] # 0 => e = f

\* What a call that will rename is about to write.
Writing ==
    \A g \in Goroutines :
        op[g].step \in {"stat", "temp", "fill", "close", "rename"} \/ op[g].backup
            => op[g].value > 0 /\ op[g].path \in Paths

\* Where a call that copies writes to.
CopiesAside ==
    \A g \in Goroutines :
        /\ op[g].step \in {"stat", "open", "create"} => op[g].dst \notin Written
        /\ op[g].step = "create" => op[g].from \in DOMAIN data
        /\ Copying(g) =>
              /\ op[g].from \in DOMAIN data
              /\ op[g].file \in DOMAIN data \ temps
              /\ \A f \in Written : dir[f] # op[g].file

TempsOwned ==
    /\ \A g \in Goroutines : Filling(g) =>
          /\ op[g].file \in temps
          /\ \A h \in Goroutines : Filling(h) /\ op[h].file = op[g].file => h = g
          /\ op[g].step = "rename" => data[op[g].file] = op[g].value
    /\ crashes = 0 => \A t \in temps : \E g \in Goroutines : Filling(g) /\ op[g].file = t

FSInv ==
    FSTypeOK /\ OwnInodes /\ Writing /\ CopiesAside /\ TempsOwned /\ WritesAreAtomic

USE FileStoreAssumption

-----------------------------------------------------------------------------
(* What a goroutine's step does to the calls. *)

LEMMA IdleType == Idle \in Op /\ Idle.step = "idle" /\ Idle.backup = FALSE
<1> DEFINE f == CHOOSE f \in Paths : TRUE
<1>1. f \in Files
  BY DEF Files
<1>2. Idle = NewOp("idle", f, f, f, 0)
  BY DEF Idle
<1> HIDE DEF f
<1>3. QED
  BY <1>1, <1>2 DEF NewOp, Op, Steps

\* The calls of the others are as they were, but for being alone.
Others(g) ==
    \A h \in Goroutines : h # g =>
        /\ op'[h].step = op[h].step /\ op'[h].dst = op[h].dst /\ op'[h].path = op[h].path
        /\ op'[h].value = op[h].value /\ op'[h].backup = op[h].backup
        /\ op'[h].file = op[h].file /\ op'[h].from = op[h].from

LEMMA DisturbedOp ==
    ASSUME NEW o \in Op
    PROVE  /\ Disturbed(o) \in Op
           /\ Disturbed(o).step = o.step /\ Disturbed(o).dst = o.dst
           /\ Disturbed(o).path = o.path /\ Disturbed(o).value = o.value
           /\ Disturbed(o).backup = o.backup
           /\ Disturbed(o).file = o.file /\ Disturbed(o).from = o.from
           /\ Disturbed(o).alone => ~Disturbed(o).backup /\ ~Disturbed(o).tracked
<1> DEFINE b == ~o.backup /\ ~o.tracked
<1>1. b \in BOOLEAN /\ Disturbed(o) = [o EXCEPT !.alone = b]
  BY DEF Disturbed
<1>2. b => ~o.backup /\ ~o.tracked
  OBVIOUS
<1> HIDE DEF b
<1>3. /\ [o EXCEPT !.alone = b] \in Op /\ [o EXCEPT !.alone = b].alone = b
      /\ [o EXCEPT !.alone = b].tracked = o.tracked
  BY <1>1 DEF Op
<1>4. QED
  BY <1>1, <1>2, <1>3 DEF Op

LEMMA GoOps ==
    ASSUME FSTypeOK, NEW g \in Goroutines, NEW o \in Op, Go(g, o)
    PROVE  op' \in [Goroutines -> Op] /\ op'[g] = o /\ Others(g)
<1>1. \A h \in Goroutines : op[h] \in Op
  BY DEF FSTypeOK
<1>2. op' = [h \in Goroutines |-> IF h = g THEN o ELSE Disturbed(op[h])]
  BY DEF Go
<1>3. op' \in [Goroutines -> Op]
  BY <1>1, <1>2, DisturbedOp
<1>4. \A h \in Goroutines : h # g => op'[h] = Disturbed(op[h])
  BY <1>2
<1>5. Others(g)
  BY <1>1, <1>4, DisturbedOp DEF Others
<1>6. QED
  BY <1>2, <1>3, <1>5

LEMMA ToStep ==
    ASSUME FSTypeOK, NEW g \in Goroutines, NEW step \in Steps,
           NEW file \in 0..MaxInodes, NEW from \in 0..MaxInodes
    PROVE  /\ To(g, step) \in Op
           /\ [To(g, step) EXCEPT !.file = file] \in Op
           /\ [To(g, step) EXCEPT !.from = from] \in Op
<1>1. op[g] \in Op
  BY DEF FSTypeOK
<1>2. QED
  BY <1>1 DEF To, Op

\* What a call that writes asks for besides changes nothing that matters here.
Alike(p, o) ==
    /\ p \in Op /\ p.step = o.step /\ p.src = o.src /\ p.dst = o.dst
    /\ p.path = o.path /\ p.value = o.value

LEMMA AskingTracked ==
    ASSUME NEW o \in Op, NEW t \in BOOLEAN
    PROVE  Alike([o EXCEPT !.tracked = t], o)
  BY DEF Op, Alike

LEMMA Asking ==
    ASSUME NEW o \in Op, NEW b \in BOOLEAN, NEW n \in BOOLEAN
    PROVE  Alike([o EXCEPT !.backup = b, !.noOverwrite = n], o)
<1> DEFINE o1 == [o EXCEPT !.backup = b]
<1>1. Alike(o1, o)
  BY DEF Op, Alike
<1>2. [o EXCEPT !.backup = b, !.noOverwrite = n] = [o1 EXCEPT !.noOverwrite = n]
  OBVIOUS
<1> HIDE DEF o1
<1>3. Alike([o1 EXCEPT !.noOverwrite = n], o1)
  BY <1>1 DEF Op, Alike
<1>4. QED
  BY <1>1, <1>2, <1>3 DEF Alike

LEMMA AskingBoth ==
    ASSUME NEW o \in Op, NEW b \in BOOLEAN, NEW n \in BOOLEAN, NEW t \in BOOLEAN
    PROVE  Alike([o EXCEPT !.backup = b, !.noOverwrite = n, !.tracked = t], o)
<1> DEFINE o1 == [o EXCEPT !.backup = b, !.noOverwrite = n]
<1>1. [o EXCEPT !.backup = b, !.noOverwrite = n, !.tracked = t] = [o1 EXCEPT !.tracked = t]
  OBVIOUS
<1>2. Alike(o1, o)
  BY Asking
<1> HIDE DEF o1
<1>3. Alike([o1 EXCEPT !.tracked = t], o1)
  BY <1>2, AskingTracked DEF Alike
<1>4. QED
  BY <1>1, <1>2, <1>3 DEF Alike

-----------------------------------------------------------------------------
(* Every action keeps the invariant. *)

LEMMA FSInitInv == FSInit => FSInv
<1>1. SUFFICES ASSUME FSInit PROVE FSInv
  OBVIOUS
<1>2. \A g \in Goroutines : op[g] = Idle
  BY <1>1 DEF FSInit
<1>3. \A f \in Files : dir[f] = 0
  BY <1>1 DEF FSInit
<1>4. FSTypeOK
  BY <1>1, IdleType DEF FSInit, FSTypeOK, Values
<1>5. OwnInodes /\ WritesAreAtomic
  BY <1>3 DEF OwnInodes, WritesAreAtomic, Exists, Files
<1>6. Writing /\ CopiesAside
  BY <1>2, IdleType DEF Writing, CopiesAside, Copying
<1>7. TempsOwned
  BY <1>1, <1>2, IdleType DEF FSInit, TempsOwned, Filling
<1>8. QED
  BY <1>4, <1>5, <1>6, <1>7 DEF FSInv

\* A goroutine begins a call, ends it, or finds out about files: the files are
\* as they were.
LEMMA CallInv ==
    ASSUME FSInv, NEW g \in Goroutines, NEW o \in Op, Go(g, o),
           ~Filling(g), o.step \in {"idle", "stat", "temp", "open", "create"},
           o.step \in {"stat", "temp"} \/ o.backup => o.value > 0 /\ o.path \in Paths,
           o.step \in {"stat", "open", "create"} => o.dst \notin Written',
           o.step = "create" => o.from \in DOMAIN data,
           UNCHANGED <<dir, data, temps, session, shown, crashes>>,
           copied \subseteq copied', copied' \subseteq Paths, writes' \in 0..MaxWrites
    PROVE  FSInv'
<1>1. FSTypeOK /\ OwnInodes /\ Writing /\ CopiesAside /\ TempsOwned /\ WritesAreAtomic
  BY DEF FSInv
<1>2. op' \in [Goroutines -> Op] /\ op'[g] = o /\ Others(g)
  BY <1>1, GoOps
<1>3. Written' \subseteq Written
  BY DEF Written
<1>4. FSTypeOK'
  BY <1>1, <1>2 DEF FSTypeOK
<1>5. OwnInodes' /\ WritesAreAtomic'
  BY <1>1, <1>3 DEF OwnInodes, WritesAreAtomic, Written, Exists, Content
<1>6. Writing'
  BY <1>1, <1>2 DEF Writing, Others
<1>7. CopiesAside'
  BY <1>1, <1>2, <1>3 DEF CopiesAside, Copying, Others
<1>8. \A h \in Goroutines : Filling(h)' <=> Filling(h)
  BY <1>2 DEF Filling, Others
<1>9. TempsOwned'
  BY <1>1, <1>2, <1>8 DEF TempsOwned, Filling, Others
<1>10. QED
  BY <1>4, <1>5, <1>6, <1>7, <1>9 DEF FSInv

LEMMA PathsAreFiles ==
    ASSUME NEW f \in Paths
    PROVE  f \in Files /\ Bak(f) \in Files /\ Bak(f) \notin Written /\ f \in Paths
  BY DEF Files, Written

LEMMA Inodes ==
    ASSUME FSTypeOK
    PROVE  /\ Len(data) \in Nat /\ Len(data) <= MaxInodes /\ DOMAIN data = 1..Len(data)
           /\ 0 \notin DOMAIN data /\ \A f \in Files : dir[f] # 0 => dir[f] \in DOMAIN data
<1>1. Len(data) \in Nat /\ DOMAIN data = 1..Len(data) /\ Len(data) <= MaxInodes
  BY DEF FSTypeOK
<1>2. \A f \in Files : dir[f] \in 0..Len(data)
  BY DEF FSTypeOK
<1>3. QED
  BY <1>1, <1>2

\* FS.write, FS.write_with and their tracked forms begin.
LEMMA WriteInv ==
    ASSUME FSInv, NEW g \in Goroutines, NEW f \in Paths,
           Write(g, f) \/ WriteWith(g, f) \/ WriteTracked(g, f)
    PROVE  FSInv'
<1>1. /\ At(g, "idle") /\ writes < MaxWrites /\ writes' = writes + 1
      /\ UNCHANGED <<dir, data, temps, session, shown, copied, crashes>>
  BY DEF Write, WriteWith, WriteTracked, Bounds
<1>2. FSTypeOK
  BY DEF FSInv
<1>3. writes \in Nat
  BY <1>2 DEF FSTypeOK
<1>4. writes' \in 0..MaxWrites /\ writes' > 0
  BY <1>1, <1>3
<1> DEFINE plain   == NewOp("temp", f, f, f, writes + 1)
           careful == NewOp("stat", f, Bak(f), f, writes + 1)
<1>5. /\ plain \in Op /\ plain.step = "temp" /\ plain.path = f /\ plain.value = writes + 1
      /\ careful \in Op /\ careful.step = "stat" /\ careful.path = f
      /\ careful.value = writes + 1 /\ careful.dst = Bak(f)
  <2>1. /\ f \in Files /\ Bak(f) \in Files /\ writes + 1 \in 0..MaxWrites
        /\ "temp" \in Steps /\ "stat" \in Steps
    BY <1>1, <1>4, PathsAreFiles DEF Steps
  <2>2. QED
    BY <2>1 DEF NewOp, Op
<1>6. PICK p : Go(g, p) /\ (Alike(p, plain) \/ Alike(p, careful))
  <2>1. CASE Write(g, f)
    <3>1. Go(g, plain)
      BY <2>1 DEF Write
    <3> HIDE DEF plain
    <3>2. QED
      BY <1>5, <3>1 DEF Alike
  <2>2. CASE WriteWith(g, f)
    <3>1. PICK b, n \in BOOLEAN : Go(g, [careful EXCEPT !.backup = b, !.noOverwrite = n])
      BY <2>2 DEF WriteWith
    <3> HIDE DEF careful
    <3>2. QED
      BY <1>5, <3>1, Asking
  <2>3. CASE WriteTracked(g, f)
    <3>1. \/ Go(g, [plain EXCEPT !.tracked = TRUE])
          \/ \E b, n \in BOOLEAN :
               Go(g, [careful EXCEPT !.backup = b, !.noOverwrite = n, !.tracked = TRUE])
      BY <2>3 DEF WriteTracked
    <3> HIDE DEF plain, careful
    <3>2. CASE Go(g, [plain EXCEPT !.tracked = TRUE])
      BY <1>5, <3>2, AskingTracked
    <3>3. CASE \E b, n \in BOOLEAN :
               Go(g, [careful EXCEPT !.backup = b, !.noOverwrite = n, !.tracked = TRUE])
      BY <1>5, <3>3, AskingBoth
    <3>4. QED
      BY <3>1, <3>2, <3>3
  <2>4. QED
    BY <2>1, <2>2, <2>3
<1> HIDE DEF plain, careful
<1>7. /\ p \in Op /\ p.step \in {"temp", "stat"} /\ p.path = f /\ p.value = writes'
      /\ p.step = "stat" => p.dst = Bak(f)
  BY <1>1, <1>5, <1>6 DEF Alike
<1>8. p.step = "stat" => p.dst \notin Written'
  BY <1>1, <1>7, PathsAreFiles DEF Written
<1>9. ~Filling(g) /\ p.value > 0 /\ p.path \in Paths
  BY <1>1, <1>4, <1>7 DEF Filling, At
<1>10. copied \subseteq Paths /\ copied' = copied
  BY <1>1, <1>2 DEF FSTypeOK
<1>11. QED
  BY <1>1, <1>4, <1>6, <1>7, <1>8, <1>9, <1>10, CallInv

LEMMA CopyInv ==
    ASSUME FSInv, NEW g \in Goroutines, NEW f \in Paths, NEW to \in Paths, Copy(g, f, to)
    PROVE  FSInv'
<1> DEFINE o == NewOp("open", f, to, f, 0)
<1>1. FSTypeOK
  BY DEF FSInv
<1>2. o \in Op /\ o.step = "open" /\ o.dst = to /\ o.backup = FALSE
  <2>1. f \in Files /\ to \in Files /\ 0 \in 0..MaxWrites /\ "open" \in Steps
    BY PathsAreFiles DEF Steps
  <2>2. QED
    BY <2>1 DEF NewOp, Op
<1>3. Go(g, o)
  BY DEF Copy
<1> HIDE DEF o
<1>4. /\ ~Filling(g) /\ to \notin Written'
      /\ UNCHANGED <<dir, data, temps, session, shown, writes, crashes>>
      /\ copied \subseteq copied' /\ copied' \subseteq Paths /\ writes' \in 0..MaxWrites
  BY <1>1 DEF Copy, At, Filling, Written, FSTypeOK
<1>5. QED
  BY <1>2, <1>3, <1>4, CallInv

\* write_with looks whether the file exists, copyFile opens its source.
LEMMA LookInv ==
    ASSUME FSInv, NEW g \in Goroutines, Stat(g) \/ Open(g)
    PROVE  FSInv'
<1>1. /\ FSTypeOK /\ Writing /\ CopiesAside /\ op[g] \in Op
      /\ UNCHANGED <<dir, data, temps, session, shown, copied, writes, crashes>>
      /\ At(g, "stat") \/ At(g, "open")
  BY DEF FSInv, FSTypeOK, Stat, Open, CallsSame
<1>2. /\ ~Filling(g) /\ copied \subseteq Paths /\ writes \in 0..MaxWrites
      /\ Written' = Written /\ op[g].dst \notin Written
  BY <1>1 DEF Filling, At, FSTypeOK, Written, CopiesAside
<1>3. PICK o \in Op : /\ Go(g, o) /\ o.step \in {"idle", "temp", "open", "create"}
                      /\ o.step = "idle" => ~o.backup
                      /\ o.step # "idle" => o.dst = op[g].dst /\ o.path = op[g].path
                                            /\ o.value = op[g].value /\ o.backup = op[g].backup
                      /\ o.step = "temp" => At(g, "stat")
                      /\ o.step = "create" => o.from \in DOMAIN data
  <2>1. CASE Stat(g)
    <3>1. PICK o \in {Idle, To(g, "open"), To(g, "temp")} : Go(g, o)
      BY <2>1 DEF Stat
    <3>2. o \in Op
      BY <1>1, <3>1, IdleType DEF To, Op, Steps
    <3>3. /\ o = Idle => o.step = "idle" /\ ~o.backup
          /\ o # Idle => /\ o.step \in {"temp", "open"} /\ o.dst = op[g].dst
                         /\ o.path = op[g].path /\ o.value = op[g].value
                         /\ o.backup = op[g].backup
      BY <1>1, <3>1, IdleType DEF To, Op
    <3>4. QED
      BY <2>1, <3>1, <3>2, <3>3 DEF Stat
  <2>2. CASE Open(g)
    <3> DEFINE src == op[g].src
               o == [To(g, "create") EXCEPT !.from = dir[src]]
    <3>1. src \in Files /\ dir[src] \in 0..Len(data)
      BY <1>1 DEF FSTypeOK, Op
    <3>2. Len(data) \in Nat /\ Len(data) <= MaxInodes /\ DOMAIN data = 1..Len(data)
      BY <1>1 DEF FSTypeOK
    <3>3. dir[src] \in 0..MaxInodes
      BY <3>1, <3>2
    <3>4. CASE Exists(src)
      <4>1. Go(g, o)
        BY <2>2, <3>4 DEF Open
      <4>2. dir[src] \in DOMAIN data
        BY <3>1, <3>2, <3>4 DEF Exists
      <4>3. /\ o \in Op /\ o.step = "create" /\ o.from = dir[src] /\ o.dst = op[g].dst
            /\ o.path = op[g].path /\ o.value = op[g].value /\ o.backup = op[g].backup
        BY <1>1, <3>3 DEF To, Op, Steps
      <4> HIDE DEF o
      <4>4. QED
        BY <4>1, <4>2, <4>3
    <3>5. CASE ~Exists(src)
      BY <2>2, <3>5, IdleType DEF Open
    <3>6. QED
      BY <3>4, <3>5
  <2>3. QED
    BY <2>1, <2>2
<1>4. o.step = "temp" \/ o.backup => o.value > 0 /\ o.path \in Paths
  BY <1>1, <1>3 DEF Writing, At
<1>5. QED
  BY <1>1, <1>2, <1>3, <1>4, CallInv

\* What is read, and whether a session is open, is of no consequence here.
LEMMA SessionInv ==
    ASSUME FSInv, session' \in [Paths -> Values \cup {None}] \cup {<<>>},
           shown' \subseteq Paths \X Values, op' \in [Goroutines -> Op],
           \A g \in Goroutines :
              /\ op'[g].step = op[g].step /\ op'[g].dst = op[g].dst /\ op'[g].path = op[g].path
              /\ op'[g].value = op[g].value /\ op'[g].backup = op[g].backup
              /\ op'[g].file = op[g].file /\ op'[g].from = op[g].from,
           UNCHANGED <<dir, data, temps, copied, writes, crashes>>
    PROVE  FSInv'
<1>1. FSTypeOK /\ OwnInodes /\ Writing /\ CopiesAside /\ TempsOwned /\ WritesAreAtomic
  BY DEF FSInv
<1>2. FSTypeOK'
  BY <1>1 DEF FSTypeOK
<1>3. OwnInodes' /\ WritesAreAtomic'
  BY <1>1 DEF OwnInodes, WritesAreAtomic, Exists, Content
<1>4. Writing' /\ CopiesAside'
  BY <1>1 DEF Writing, CopiesAside, Copying, Written
<1>5. TempsOwned'
  BY <1>1 DEF TempsOwned, Filling
<1>6. QED
  BY <1>2, <1>3, <1>4, <1>5 DEF FSInv

LEMMA ReadInv ==
    ASSUME FSInv, NEW g \in Goroutines, NEW f \in Paths, Read(g, f)
    PROVE  FSInv'
<1>1. FSTypeOK
  BY DEF FSInv
<1>2. Content(f) \in Values
  BY <1>1, PathsAreFiles DEF Read, Exists, Content, FSTypeOK
<1>3. session' \in [Paths -> Values \cup {None}] \cup {<<>>}
  BY <1>1, <1>2 DEF Read, FSTypeOK
<1>4. shown' \subseteq Paths \X Values /\ op' \in [Goroutines -> Op]
  BY <1>1, <1>2 DEF Read, FSTypeOK
<1>5. UNCHANGED <<dir, data, temps, op, copied, writes, crashes>>
  BY DEF Read
<1>6. QED
  BY <1>3, <1>4, <1>5, SessionInv

LEMMA OpenCloseInv ==
    ASSUME FSInv, OpenSession \/ CloseSession
    PROVE  FSInv'
<1>1. FSTypeOK /\ \A g \in Goroutines : op[g] \in Op
  BY DEF FSInv, FSTypeOK
<1>2. op' = [g \in Goroutines |-> Disturbed(op[g])]
  BY DEF OpenSession, CloseSession
<1>3. session' \in [Paths -> Values \cup {None}] \cup {<<>>}
  BY DEF OpenSession, CloseSession
<1>4. shown' \subseteq Paths \X Values
  BY <1>1 DEF OpenSession, CloseSession, FSTypeOK
<1>5. op' \in [Goroutines -> Op]
  BY <1>1, <1>2, DisturbedOp
<1>6. \A g \in Goroutines :
        /\ op'[g].step = op[g].step /\ op'[g].dst = op[g].dst /\ op'[g].path = op[g].path
        /\ op'[g].value = op[g].value /\ op'[g].backup = op[g].backup
        /\ op'[g].file = op[g].file /\ op'[g].from = op[g].from
  BY <1>1, <1>2, DisturbedOp
<1>7. UNCHANGED <<dir, data, temps, copied, writes, crashes>>
  BY DEF OpenSession, CloseSession
<1>8. QED
  BY <1>3, <1>4, <1>5, <1>6, <1>7, SessionInv

LEMMA RemoveInv ==
    ASSUME FSInv, NEW g \in Goroutines, NEW f \in Paths, RemoveFile(g, f)
    PROVE  FSInv'
<1>1. FSTypeOK /\ OwnInodes /\ Writing /\ CopiesAside /\ TempsOwned /\ WritesAreAtomic
  BY DEF FSInv
<1>2. /\ dir' = [dir EXCEPT ![f] = 0] /\ Go(g, op[g]) /\ op[g] \in Op
      /\ UNCHANGED <<data, temps, session, shown, copied, writes, crashes>>
  BY <1>1 DEF RemoveFile, FSTypeOK
<1>3. op' \in [Goroutines -> Op] /\ op'[g] = op[g] /\ Others(g)
  BY <1>1, <1>2, GoOps
<1>4. dir' \in [Files -> 0..Len(data)] /\ \A e \in Files : dir'[e] = 0 \/ dir'[e] = dir[e]
  <2>1. f \in Files /\ dir \in [Files -> 0..Len(data)] /\ 0 \in 0..Len(data)
    BY <1>1, PathsAreFiles, Inodes DEF FSTypeOK
  <2>2. QED
    BY <1>2, <2>1
<1>5. 0 \notin DOMAIN data
  BY <1>1, Inodes
<1>6. FSTypeOK'
  BY <1>1, <1>2, <1>3, <1>4, <1>5 DEF FSTypeOK
<1>7. OwnInodes'
  BY <1>1, <1>4 DEF OwnInodes
<1>8. WritesAreAtomic'
  BY <1>1, <1>2, <1>4, PathsAreFiles DEF WritesAreAtomic, Exists, Content
<1>9. Writing'
  BY <1>1, <1>3 DEF Writing, Others
<1>10. CopiesAside'
  BY <1>1, <1>2, <1>3, <1>4, <1>5, PathsAreFiles DEF CopiesAside, Copying, Others, Written
<1>11. TempsOwned'
  BY <1>1, <1>2, <1>3 DEF TempsOwned, Filling, Others
<1>12. QED
  BY <1>6, <1>7, <1>8, <1>9, <1>10, <1>11 DEF FSInv

\* An inode is written to that is of no temporary file and of no file that is
\* only written by the other calls.
LEMMA AsideInv ==
    ASSUME FSInv, NEW g \in Goroutines, NEW o \in Op, Go(g, o),
           NEW i \in DOMAIN data \ temps, NEW v \in Values, data' = [data EXCEPT ![i] = v],
           \A f \in Written : dir[f] # i,
           ~Filling(g), o.step \in {"part", "rest", "temp", "idle"},
           o.step = "temp" \/ o.backup => o.value > 0 /\ o.path \in Paths,
           o.step \in {"part", "rest"} => o.file = i /\ o.from \in DOMAIN data,
           UNCHANGED <<dir, temps, session, shown, copied, writes, crashes>>
    PROVE  FSInv'
<1>1. FSTypeOK /\ OwnInodes /\ Writing /\ CopiesAside /\ TempsOwned /\ WritesAreAtomic
  BY DEF FSInv
<1>2. op' \in [Goroutines -> Op] /\ op'[g] = o /\ Others(g)
  BY <1>1, GoOps
<1>3. data' \in Seq(Values) /\ Len(data') = Len(data) /\ DOMAIN data' = DOMAIN data
  BY <1>1 DEF FSTypeOK
<1>4. \A j \in DOMAIN data : j # i => data'[j] = data[j]
  BY <1>1 DEF FSTypeOK
<1>5. FSTypeOK'
  BY <1>1, <1>2, <1>3 DEF FSTypeOK
<1>6. OwnInodes' /\ Written' = Written
  BY <1>1 DEF OwnInodes, Written
<1>7. WritesAreAtomic'
  <2>1. SUFFICES ASSUME NEW f \in Written, dir[f] # 0 PROVE data'[dir[f]] > 0
    BY <1>6 DEF WritesAreAtomic, Written, Exists, Content
  <2>2. dir[f] \in DOMAIN data /\ dir[f] # i /\ data[dir[f]] > 0
    <3>1. f \in Paths \ copied /\ f \in Files
      BY <2>1, PathsAreFiles DEF Written
    <3>2. QED
      BY <1>1, <2>1, <3>1, Inodes DEF WritesAreAtomic, Exists, Content
  <2>3. QED
    BY <1>4, <2>2
<1>8. Writing'
  BY <1>1, <1>2 DEF Writing, Others
<1>9. CopiesAside'
  BY <1>1, <1>2, <1>3, <1>6 DEF CopiesAside, Copying, Others
<1>10. \A h \in Goroutines : Filling(h)' <=> Filling(h)
  BY <1>2 DEF Filling, Others
<1>11. TempsOwned'
  <2>1. ASSUME NEW h \in Goroutines, Filling(h)'
        PROVE  /\ op'[h].file \in temps'
               /\ \A k \in Goroutines : Filling(k)' /\ op'[k].file = op'[h].file => k = h
               /\ op'[h].step = "rename" => data'[op'[h].file] = op'[h].value
    <3>1. Filling(h) /\ h # g /\ op[h].file \in temps /\ op[h].file \in DOMAIN data
      BY <1>1, <1>10, <2>1 DEF TempsOwned, FSTypeOK
    <3>2. op'[h].file = op[h].file /\ data'[op[h].file] = data[op[h].file]
      BY <1>2, <1>4, <3>1 DEF Others
    <3>3. QED
      BY <1>1, <1>2, <1>10, <3>1, <3>2 DEF TempsOwned, Others
  <2>2. ASSUME crashes' = 0, NEW t \in temps'
        PROVE  \E h \in Goroutines : Filling(h)' /\ op'[h].file = t
    <3>1. PICK h \in Goroutines : Filling(h) /\ op[h].file = t
      BY <1>1, <2>2 DEF TempsOwned
    <3>2. QED
      BY <1>2, <1>10, <3>1 DEF Others
  <2>3. QED
    BY <2>1, <2>2 DEF TempsOwned
<1>12. QED
  BY <1>5, <1>6, <1>7, <1>8, <1>9, <1>11 DEF FSInv

LEMMA ValueTypes ==
    ASSUME NEW v \in Values
    PROVE  Part(v) \in Values /\ 0 \in Values /\ 0..MaxWrites \subseteq Values
  BY DEF Part, Values

\* copyFile truncates what is there and copies to it, part by part.
LEMMA CopyDataInv ==
    ASSUME FSInv, NEW g \in Goroutines,
           (Create(g) /\ Exists(op[g].dst)) \/ CopyPart(g) \/ CopyRest(g)
    PROVE  FSInv'
<1>1. /\ FSTypeOK /\ OwnInodes /\ Writing /\ CopiesAside /\ op[g] \in Op
      /\ UNCHANGED <<dir, temps, session, shown, copied, writes, crashes>>
  BY DEF FSInv, FSTypeOK, Create, CopyPart, CopyRest, CallsSame
<1>2. op[g].backup => op[g].value > 0 /\ op[g].path \in Paths
  BY <1>1 DEF Writing
<1>3. CASE Create(g) /\ Exists(op[g].dst)
  <2> DEFINE i == dir[op[g].dst]
             o == [To(g, "part") EXCEPT !.file = i]
  <2>1. At(g, "create") /\ data' = [data EXCEPT ![i] = 0] /\ Go(g, o)
    BY <1>3 DEF Create
  <2>2. op[g].dst \in Files /\ op[g].dst \notin Written /\ i # 0
    BY <1>1, <1>3, <2>1 DEF Op, CopiesAside, At, Exists
  <2>3. i \in DOMAIN data \ temps /\ i \in 0..MaxInodes
    BY <1>1, <2>2, Inodes DEF FSTypeOK
  <2>4. \A f \in Written : dir[f] # i
    BY <1>1, <2>2, PathsAreFiles DEF OwnInodes, Written
  <2> HIDE DEF i
  <2>5. /\ o \in Op /\ o.step = "part" /\ o.file = i /\ o.from = op[g].from
        /\ o.backup = op[g].backup /\ o.value = op[g].value /\ o.path = op[g].path
    BY <1>1, <2>3 DEF To, Op, Steps
  <2>6. ~Filling(g) /\ op[g].from \in DOMAIN data
    BY <1>1, <2>1 DEF Filling, At, CopiesAside
  <2>7. 0 \in Values
    BY DEF Values
  <2> HIDE DEF o
  <2>8. QED
    BY <1>1, <1>2, <2>1, <2>3, <2>4, <2>5, <2>6, <2>7, AsideInv
<1>4. CASE CopyPart(g) \/ CopyRest(g)
  <2> DEFINE i == op[g].file
             from == data[op[g].from]
  <2>1. Copying(g) /\ ~Filling(g)
    BY <1>4 DEF CopyPart, CopyRest, Copying, Filling, At
  <2>2. /\ i \in DOMAIN data \ temps /\ op[g].from \in DOMAIN data
        /\ \A f \in Written : dir[f] # i
    BY <1>1, <2>1 DEF CopiesAside
  <2>3. from \in Values
    BY <1>1, <2>2 DEF FSTypeOK
  <2>4. PICK v \in Values, o \in {Idle, To(g, "rest"), To(g, "temp")} :
          /\ data' = [data EXCEPT ![i] = v] /\ Go(g, o)
          /\ o \in {Idle, To(g, "rest")} \/ op[g].backup
    <3>1. CASE CopyPart(g)
      BY <2>3, <3>1, ValueTypes DEF CopyPart
    <3>2. CASE CopyRest(g) /\ op[g].backup
      BY <2>3, <3>2 DEF CopyRest
    <3>3. CASE CopyRest(g) /\ ~op[g].backup
      BY <2>3, <3>3 DEF CopyRest
    <3>4. QED
      BY <1>4, <3>1, <3>2, <3>3
  <2>5. /\ o \in Op /\ o.step \in {"idle", "rest", "temp"}
        /\ o.step = "idle" => ~o.backup
        /\ o.step # "idle" => o.file = i /\ o.from = op[g].from /\ o.backup = op[g].backup
                              /\ o.value = op[g].value /\ o.path = op[g].path
        /\ o.step = "temp" => op[g].backup
    BY <1>1, <2>4, IdleType DEF To, Op, Steps
  <2> HIDE DEF i
  <2>6. QED
    BY <1>1, <1>2, <2>1, <2>2, <2>4, <2>5, AsideInv
<1>5. QED
  BY <1>3, <1>4

\* A new inode is of no name, or of a name that is copied to.
LEMMA NewInodeInv ==
    ASSUME FSInv, NEW g \in Goroutines,
           (Create(g) /\ ~Exists(op[g].dst)) \/ CreateTemp(g)
    PROVE  FSInv'
<1> DEFINE i == Len(data) + 1
<1>1. FSTypeOK /\ OwnInodes /\ Writing /\ CopiesAside /\ TempsOwned /\ WritesAreAtomic
  BY DEF FSInv
<1>2. PICK step \in {"part", "fill"} :
        /\ Len(data) < MaxInodes /\ data' = Append(data, 0) /\ CallsSame
        /\ Go(g, [To(g, step) EXCEPT !.file = i])
        /\ step = "part" => /\ At(g, "create") /\ temps' = temps
                            /\ dir' = [dir EXCEPT ![op[g].dst] = i]
        /\ step = "fill" => At(g, "temp") /\ temps' = temps \cup {i} /\ dir' = dir
  BY DEF Create, CreateTemp
<1> DEFINE o == [To(g, step) EXCEPT !.file = i]
<1>3. /\ Len(data) \in Nat /\ i \in 0..MaxInodes /\ i # 0 /\ i \notin DOMAIN data
      /\ DOMAIN data = 1..Len(data) /\ op[g] \in Op
  BY <1>1, <1>2, Inodes DEF FSTypeOK
<1>4. /\ data' \in Seq(Values) /\ Len(data') = i /\ DOMAIN data' = DOMAIN data \cup {i}
      /\ \A j \in DOMAIN data : data'[j] = data[j]
  <2>1. data \in Seq(Values) /\ 0 \in Values
    BY <1>1 DEF FSTypeOK, Values
  <2>2. data' \in Seq(Values) /\ Len(data') = Len(data) + 1
    BY <1>2, <2>1
  <2>3. DOMAIN data' = 1..Len(data) + 1
    BY <2>1, <2>2
  <2>4. \A j \in 1..Len(data) : data'[j] = data[j]
    BY <1>2, <2>1
  <2>5. 1..Len(data) + 1 = 1..Len(data) \cup {i}
    BY <1>3
  <2>6. QED
    BY <1>3, <2>2, <2>3, <2>4, <2>5
<1> HIDE DEF i
<1>5. /\ o \in Op /\ o.step = step /\ o.file = i /\ o.from = op[g].from /\ o.dst = op[g].dst
      /\ o.backup = op[g].backup /\ o.value = op[g].value /\ o.path = op[g].path
  BY <1>1, <1>2, <1>3 DEF To, Op, Steps
<1>6. Go(g, o)
  BY <1>2
<1> HIDE DEF o
<1>7. op' \in [Goroutines -> Op] /\ op'[g] = o /\ Others(g)
  BY <1>1, <1>5, <1>6, GoOps
<1>8. UNCHANGED <<session, shown, copied, writes, crashes>> /\ Written' = Written
  BY <1>2 DEF CallsSame, Written
<1>9. /\ \A f \in Files : dir[f] # i /\ (dir'[f] = dir[f] \/ (f = op[g].dst /\ dir'[f] = i
                                                              /\ step = "part"))
      /\ dir' \in [Files -> DOMAIN data \cup {0, i}]
  <2>1. op[g].dst \in Files /\ dir \in [Files -> DOMAIN data \cup {0}] /\ i \notin DOMAIN data \cup {0}
    BY <1>1, <1>3, Inodes DEF FSTypeOK, Op
  <2>2. QED
    BY <1>2, <2>1
<1>10. FSTypeOK'
  <2>1. dir' \in [Files -> 0..Len(data')] /\ Len(data') <= MaxInodes
    <3>1. DOMAIN data \cup {0, i} \subseteq 0..i
      BY <1>3 DEF i
    <3>2. QED
      BY <1>3, <1>4, <1>9, <3>1
  <2>2. temps' \subseteq DOMAIN data' /\ \A f \in Files : dir'[f] \notin temps'
    BY <1>1, <1>2, <1>3, <1>4, <1>9 DEF FSTypeOK
  <2>3. QED
    BY <1>1, <1>4, <1>7, <1>8, <2>1, <2>2 DEF FSTypeOK
<1>11. OwnInodes'
  BY <1>1, <1>3, <1>9 DEF OwnInodes
<1>12. \A f \in Written : f \in Files /\ dir'[f] = dir[f]
  BY <1>1, <1>2, <1>9, PathsAreFiles DEF CopiesAside, At, Written
<1>13. WritesAreAtomic'
  <2>1. SUFFICES ASSUME NEW f \in Written, dir[f] # 0 PROVE data'[dir[f]] > 0
    BY <1>8, <1>12 DEF WritesAreAtomic, Written, Exists, Content
  <2>2. dir[f] \in DOMAIN data /\ data[dir[f]] > 0
    BY <1>1, <1>12, <2>1, Inodes DEF WritesAreAtomic, Written, Exists, Content
  <2>3. QED
    BY <1>4, <2>2
<1>14. Writing'
  BY <1>1, <1>2, <1>5, <1>7 DEF Writing, Others, At
<1>15. CopiesAside'
  <2>1. ASSUME NEW h \in Goroutines, op'[h].step \in {"stat", "open", "create"}
        PROVE  op'[h].dst \notin Written'
    BY <1>1, <1>2, <1>5, <1>7, <1>8, <2>1 DEF CopiesAside, Others
  <2>2. ASSUME NEW h \in Goroutines, op'[h].step = "create"
        PROVE  op'[h].from \in DOMAIN data'
    BY <1>1, <1>2, <1>4, <1>5, <1>7, <2>2 DEF CopiesAside, Others
  <2>3. ASSUME NEW h \in Goroutines, Copying(h)'
        PROVE  /\ op'[h].from \in DOMAIN data'
               /\ op'[h].file \in DOMAIN data' \ temps'
               /\ \A f \in Written' : dir'[f] # op'[h].file
    <3>1. CASE h = g
      <4>1. step = "part" /\ op[g].from \in DOMAIN data
        BY <1>1, <1>2, <1>5, <1>7, <2>3, <3>1 DEF Copying, CopiesAside, At
      <4>2. i \notin temps' /\ i \in DOMAIN data' /\ op'[h].file = i
        BY <1>1, <1>2, <1>3, <1>4, <1>5, <1>7, <3>1, <4>1 DEF FSTypeOK
      <4>3. QED
        BY <1>4, <1>5, <1>7, <1>8, <1>9, <1>12, <3>1, <4>1, <4>2
    <3>2. CASE h # g
      <4>1. Copying(h) /\ op'[h].file = op[h].file /\ op'[h].from = op[h].from
        BY <1>7, <2>3, <3>2 DEF Copying, Others
      <4>2. QED
        BY <1>1, <1>2, <1>3, <1>4, <1>8, <1>12, <4>1 DEF CopiesAside
    <3>3. QED
      BY <3>1, <3>2
  <2>4. QED
    BY <2>1, <2>2, <2>3 DEF CopiesAside
<1>16. TempsOwned'
  <2>1. ~Filling(g) /\ (Filling(g)' <=> step = "fill")
    BY <1>2, <1>5, <1>7 DEF Filling, At
  <2>2. \A h \in Goroutines : h # g =>
          /\ Filling(h)' <=> Filling(h)
          /\ op'[h].file = op[h].file /\ op'[h].step = op[h].step /\ op'[h].value = op[h].value
    BY <1>7 DEF Filling, Others
  <2>3. \A h \in Goroutines : Filling(h) => op[h].file \in temps /\ op[h].file \in DOMAIN data
    BY <1>1 DEF TempsOwned, FSTypeOK
  <2>4. temps \subseteq temps' /\ (step = "fill" => i \in temps') /\ temps' \subseteq temps \cup {i}
        /\ (step = "part" => temps' = temps)
    BY <1>2
  <2>5. ASSUME NEW h \in Goroutines, Filling(h)'
        PROVE  /\ op'[h].file \in temps'
               /\ \A k \in Goroutines : Filling(k)' /\ op'[k].file = op'[h].file => k = h
               /\ op'[h].step = "rename" => data'[op'[h].file] = op'[h].value
    <3>1. CASE h = g
      BY <1>2, <1>3, <1>5, <1>7, <2>1, <2>2, <2>3, <2>4, <2>5, <3>1
    <3>2. CASE h # g
      <4>1. Filling(h) /\ op[h].file # i
        BY <1>3, <2>2, <2>3, <2>5, <3>2
      <4>2. QED
        BY <1>1, <1>4, <1>5, <1>7, <2>1, <2>2, <2>3, <2>4, <3>2, <4>1 DEF TempsOwned
    <3>3. QED
      BY <3>1, <3>2
  <2>6. ASSUME crashes' = 0, NEW t \in temps'
        PROVE  \E h \in Goroutines : Filling(h)' /\ op'[h].file = t
    <3>1. CASE t \in temps
      <4>1. PICK h \in Goroutines : Filling(h) /\ op[h].file = t
        BY <1>1, <1>8, <2>6, <3>1 DEF TempsOwned
      <4>2. QED
        BY <2>1, <2>2, <4>1
    <3>2. CASE t \notin temps
      BY <1>2, <1>5, <1>7, <2>1, <2>4, <2>6, <3>2
    <3>3. QED
      BY <3>1, <3>2
  <2>7. QED
    BY <2>5, <2>6 DEF TempsOwned
<1>17. QED
  BY <1>10, <1>11, <1>13, <1>14, <1>15, <1>16 DEF FSInv

\* A temporary file is written by its own call only.
LEMMA FillInv ==
    ASSUME FSInv, NEW g \in Goroutines, FillPart(g) \/ Fill(g)
    PROVE  FSInv'
<1> DEFINE i == op[g].file
<1>1. /\ FSTypeOK /\ OwnInodes /\ Writing /\ CopiesAside /\ TempsOwned /\ WritesAreAtomic
      /\ op[g] \in Op /\ Filling(g)
  BY DEF FSInv, FSTypeOK, FillPart, Fill, Filling, At
<1>2. PICK v \in Values, step \in {"close", "rename"} :
        /\ data' = [data EXCEPT ![i] = v] /\ Go(g, To(g, step))
        /\ step = "rename" => v = op[g].value
  <2>1. op[g].value \in Values /\ Part(op[g].value) \in Values
    <3>1. op[g].value \in 0..MaxWrites
      BY <1>1 DEF Op
    <3>2. op[g].value \in Values
      BY <3>1 DEF Values
    <3>3. QED
      BY <3>2, ValueTypes
  <2>2. QED
    BY <2>1 DEF FillPart, Fill
<1>3. UNCHANGED <<dir, temps, session, shown, copied, writes, crashes>> /\ Written' = Written
  BY DEF FillPart, Fill, CallsSame, Written
<1> DEFINE o == To(g, step)
<1>4. /\ o \in Op /\ o.step = step /\ o.file = i /\ o.backup = op[g].backup
      /\ o.value = op[g].value /\ o.path = op[g].path
  BY <1>1 DEF To, Op, Steps
<1>5. Go(g, o)
  BY <1>2
<1> HIDE DEF o
<1>6. op' \in [Goroutines -> Op] /\ op'[g] = o /\ Others(g)
  BY <1>1, <1>4, <1>5, GoOps
<1>7. i \in temps /\ i \in DOMAIN data
  BY <1>1 DEF TempsOwned, FSTypeOK
<1>8. /\ data' \in Seq(Values) /\ Len(data') = Len(data) /\ DOMAIN data' = DOMAIN data
      /\ data'[i] = v /\ \A j \in DOMAIN data : j # i => data'[j] = data[j]
  BY <1>1, <1>2, <1>7 DEF FSTypeOK
<1> HIDE DEF i
<1>9. FSTypeOK'
  BY <1>1, <1>3, <1>6, <1>8 DEF FSTypeOK
<1>10. OwnInodes' /\ Writing'
  BY <1>1, <1>3, <1>4, <1>6 DEF OwnInodes, Writing, Filling, Others
<1>11. WritesAreAtomic'
  <2>1. SUFFICES ASSUME NEW f \in Written, dir[f] # 0 PROVE data'[dir[f]] > 0
    BY <1>3 DEF WritesAreAtomic, Written, Exists, Content
  <2>2. f \in Paths \ copied /\ f \in Files
    BY <2>1, PathsAreFiles DEF Written
  <2>3. dir[f] \in DOMAIN data /\ dir[f] # i /\ data[dir[f]] > 0
    BY <1>1, <1>7, <2>1, <2>2, Inodes DEF FSTypeOK, WritesAreAtomic, Exists, Content
  <2>4. QED
    BY <1>8, <2>3
<1>12. CopiesAside'
  BY <1>1, <1>3, <1>4, <1>6, <1>8 DEF CopiesAside, Copying, Others
<1>13. \A h \in Goroutines : (Filling(h)' <=> Filling(h)) /\ op'[h].file = op[h].file
  BY <1>1, <1>4, <1>6 DEF Filling, Others, i
<1>14. TempsOwned'
  <2>1. ASSUME NEW h \in Goroutines, Filling(h)', op'[h].step = "rename"
        PROVE  data'[op'[h].file] = op'[h].value
    <3>1. CASE h = g
      BY <1>2, <1>4, <1>6, <1>8, <2>1, <3>1
    <3>2. CASE h # g
      <4>1. Filling(h) /\ op[h].file # i /\ op[h].file \in DOMAIN data
        BY <1>1, <1>13, <2>1, <3>2 DEF TempsOwned, FSTypeOK, i
      <4>2. data[op[h].file] = op[h].value /\ op'[h].value = op[h].value
        BY <1>1, <1>6, <2>1, <3>2, <4>1 DEF TempsOwned, Others
      <4>3. QED
        BY <1>8, <1>13, <4>1, <4>2
    <3>3. QED
      BY <3>1, <3>2
  <2>2. QED
    BY <1>1, <1>3, <1>13, <2>1 DEF TempsOwned
<1>15. QED
  BY <1>9, <1>10, <1>11, <1>12, <1>14 DEF FSInv

\* A call that fills a temporary file ends: the file takes the place of the
\* target, or is removed.
LEMMA EndFillInv ==
    ASSUME FSInv, NEW g \in Goroutines, Filling(g), Go(g, Idle),
           temps' = temps \ {op[g].file},
           \/ At(g, "rename") /\ dir' = [dir EXCEPT ![op[g].path] = op[g].file]
           \/ dir' = dir,
           UNCHANGED <<data, session, shown, copied, writes, crashes>>
    PROVE  FSInv'
<1> DEFINE i == op[g].file
           path == op[g].path
<1>1. /\ FSTypeOK /\ OwnInodes /\ Writing /\ CopiesAside /\ TempsOwned /\ WritesAreAtomic
      /\ Written' = Written
  BY DEF FSInv, Written
<1>2. op' \in [Goroutines -> Op] /\ op'[g] = Idle /\ Others(g)
  BY <1>1, IdleType, GoOps
<1>3. /\ i \in temps /\ i \in DOMAIN data /\ path \in Paths /\ path \in Files
      /\ At(g, "rename") => data[i] > 0
  BY <1>1, PathsAreFiles DEF TempsOwned, FSTypeOK, Writing, Filling, At
<1>4. i # 0 /\ \A f \in Files : dir[f] # i
  BY <1>1, <1>3, Inodes DEF FSTypeOK
<1>5. /\ dir' \in [Files -> 0..Len(data)]
      /\ \A f \in Files : dir'[f] = dir[f] \/ (f = path /\ dir'[f] = i /\ At(g, "rename"))
  <2>1. dir \in [Files -> 0..Len(data)] /\ i \in 0..Len(data)
    BY <1>1, <1>3, Inodes DEF FSTypeOK
  <2>2. QED
    BY <1>3, <2>1
<1>6. ~Filling(g)' /\ ~Copying(g)'
  BY <1>2, IdleType DEF Filling, Copying
<1>7. \A h \in Goroutines : h # g => (Filling(h)' <=> Filling(h)) /\ (Copying(h)' <=> Copying(h))
  BY <1>2 DEF Filling, Copying, Others
<1>8. \A h \in Goroutines : Filling(h) /\ op[h].file = i => h = g
  BY <1>1 DEF TempsOwned
<1> HIDE DEF i, path
<1>9. FSTypeOK'
  <2>1. temps' \subseteq DOMAIN data' /\ \A f \in Files : dir'[f] \notin temps'
    BY <1>1, <1>5 DEF FSTypeOK, i
  <2>2. QED
    BY <1>1, <1>2, <1>5, <2>1 DEF FSTypeOK
<1>10. OwnInodes'
  BY <1>1, <1>4, <1>5 DEF OwnInodes
<1>11. WritesAreAtomic'
  <2>1. SUFFICES ASSUME NEW f \in Written, dir'[f] # 0 PROVE data[dir'[f]] > 0
    BY <1>1 DEF WritesAreAtomic, Written, Exists, Content
  <2>2. f \in Paths \ copied /\ f \in Files
    BY <2>1, PathsAreFiles DEF Written
  <2>3. QED
    BY <1>1, <1>3, <1>5, <2>1, <2>2 DEF WritesAreAtomic, Exists, Content
<1>12. Writing'
  BY <1>1, <1>2, IdleType DEF Writing, Others
<1>13. CopiesAside'
  <2>1. ASSUME NEW h \in Goroutines, Copying(h)'
        PROVE  /\ op'[h].from \in DOMAIN data'
               /\ op'[h].file \in DOMAIN data' \ temps'
               /\ \A f \in Written' : dir'[f] # op'[h].file
    <3>1. /\ h # g /\ Copying(h) /\ op'[h].file = op[h].file /\ op'[h].from = op[h].from
      BY <1>2, <1>6, <1>7, <2>1 DEF Others
    <3>2. /\ op[h].from \in DOMAIN data /\ op[h].file \in DOMAIN data \ temps
          /\ \A f \in Written : dir[f] # op[h].file
      BY <1>1, <3>1 DEF CopiesAside
    <3>3. op[h].file # i
      BY <1>3, <3>2
    <3>4. \A f \in Written : f \in Files
      BY PathsAreFiles DEF Written
    <3>5. QED
      BY <1>1, <1>5, <3>1, <3>2, <3>3, <3>4
  <2>2. QED
    BY <1>1, <1>2, <2>1, IdleType DEF CopiesAside, Others
<1>14. TempsOwned'
  <2>1. ASSUME NEW h \in Goroutines, Filling(h)'
        PROVE  /\ op'[h].file \in temps'
               /\ \A k \in Goroutines : Filling(k)' /\ op'[k].file = op'[h].file => k = h
               /\ op'[h].step = "rename" => data'[op'[h].file] = op'[h].value
    <3>1. h # g /\ Filling(h) /\ op[h].file # i
      BY <1>6, <1>7, <1>8, <2>1
    <3>2. QED
      BY <1>1, <1>2, <1>6, <1>7, <3>1 DEF TempsOwned, Others, i
  <2>2. ASSUME crashes' = 0, NEW t \in temps'
        PROVE  \E h \in Goroutines : Filling(h)' /\ op'[h].file = t
    <3>1. PICK h \in Goroutines : Filling(h) /\ op[h].file = t
      BY <1>1, <2>2 DEF TempsOwned
    <3>2. h # g
      BY <2>2, <3>1
    <3>3. QED
      BY <1>2, <1>7, <3>1, <3>2 DEF Others
  <2>3. QED
    BY <2>1, <2>2 DEF TempsOwned
<1>15. QED
  BY <1>9, <1>10, <1>11, <1>12, <1>13, <1>14 DEF FSInv

LEMMA FSEndInv ==
    ASSUME FSInv, NEW g \in Goroutines, Rename(g) \/ Fail(g)
    PROVE  FSInv'
<1>1. FSTypeOK
  BY DEF FSInv
<1>2. CASE Filling(g)
  BY <1>2, EndFillInv DEF Rename, Fail, Filling, CallsSame
<1>3. CASE ~Filling(g)
  <2>1. /\ Go(g, Idle)
        /\ UNCHANGED <<dir, data, temps, session, shown, copied, writes, crashes>>
    BY <1>3 DEF Rename, Fail, Filling, At, CallsSame
  <2>2. copied \subseteq Paths /\ writes \in 0..MaxWrites
    BY <1>1 DEF FSTypeOK
  <2>3. QED
    BY <1>3, <2>1, <2>2, IdleType, CallInv
<1>4. QED
  BY <1>2, <1>3

\* A call ends, and its temporary file stays.
LEMMA LeavingInv ==
    ASSUME FSInv, NEW g \in Goroutines, FailLeaving(g)
    PROVE  FSInv'
<1>1. /\ FSTypeOK /\ OwnInodes /\ Writing /\ CopiesAside /\ TempsOwned /\ WritesAreAtomic
      /\ UNCHANGED <<dir, data, temps, session, shown, copied, writes>>
  BY DEF FSInv, FailLeaving
<1>2. crashes' \in 0..MaxCrashes /\ crashes' # 0
  BY <1>1 DEF FSTypeOK, FailLeaving
<1>3. op' \in [Goroutines -> Op] /\ op'[g] = Idle /\ Others(g)
  BY <1>1, IdleType, GoOps DEF FailLeaving
<1>4. \A h \in Goroutines : Filling(h)' => Filling(h) /\ h # g
  BY <1>3, IdleType DEF Filling, Others
<1>5. FSTypeOK'
  BY <1>1, <1>2, <1>3 DEF FSTypeOK
<1>6. OwnInodes' /\ WritesAreAtomic'
  BY <1>1 DEF OwnInodes, WritesAreAtomic, Exists, Content
<1>7. Writing'
  BY <1>1, <1>3, IdleType DEF Writing, Others
<1>8. CopiesAside'
  BY <1>1, <1>3, IdleType DEF CopiesAside, Copying, Others, Written
<1>9. TempsOwned'
  BY <1>1, <1>2, <1>3, <1>4 DEF TempsOwned, Others
<1>10. QED
  BY <1>5, <1>6, <1>7, <1>8, <1>9 DEF FSInv

\* All calls end; what they wrote stays.
LEMMA CrashInv ==
    ASSUME FSInv, Crash
    PROVE  FSInv'
<1>1. FSTypeOK /\ OwnInodes /\ WritesAreAtomic
  BY DEF FSInv
<1>2. /\ crashes' = crashes + 1 /\ crashes' \in 0..MaxCrashes /\ crashes' # 0
      /\ session' = <<>> /\ shown' = {} /\ UNCHANGED <<dir, data, temps, copied, writes>>
  BY <1>1 DEF Crash, FSTypeOK
<1>3. op' \in [Goroutines -> Op] /\ \A g \in Goroutines : op'[g] = Idle
  BY IdleType DEF Crash
<1>4. FSTypeOK'
  BY <1>1, <1>2, <1>3 DEF FSTypeOK
<1>5. OwnInodes' /\ WritesAreAtomic'
  BY <1>1, <1>2 DEF OwnInodes, WritesAreAtomic, Exists, Content
<1>6. Writing' /\ CopiesAside' /\ TempsOwned'
  BY <1>2, <1>3, IdleType DEF Writing, CopiesAside, Copying, TempsOwned, Filling
<1>7. QED
  BY <1>4, <1>5, <1>6 DEF FSInv

LEMMA StutterInv == FSInv /\ UNCHANGED fsVars => FSInv'
  BY DEF FSInv, fsVars, FSTypeOK, OwnInodes, Writing, CopiesAside, Copying, Written,
         TempsOwned, Filling, WritesAreAtomic, Exists, Content

LEMMA FSNextInv == FSInv /\ [FSNext]_fsVars => FSInv'
<1>1. SUFFICES ASSUME FSInv, FSNext PROVE FSInv'
  BY StutterInv
<1>2. CASE OpenSession \/ CloseSession
  BY <1>1, <1>2, OpenCloseInv
<1>3. CASE Crash
  BY <1>1, <1>3, CrashInv
<1>4. ASSUME NEW g \in Goroutines, FSStep(g) PROVE FSInv'
  <2>1. ASSUME NEW f \in Paths, Write(g, f) \/ WriteWith(g, f) \/ WriteTracked(g, f)
        PROVE  FSInv'
    BY <1>1, <2>1, WriteInv
  <2>2. ASSUME NEW f \in Paths, Read(g, f) PROVE FSInv'
    BY <1>1, <2>2, ReadInv
  <2>3. ASSUME NEW f \in Paths, RemoveFile(g, f) PROVE FSInv'
    BY <1>1, <2>3, RemoveInv
  <2>4. ASSUME NEW f \in Paths, NEW to \in Paths, Copy(g, f, to) PROVE FSInv'
    BY <1>1, <2>4, CopyInv
  <2>5. CASE Stat(g) \/ Open(g)
    BY <1>1, <2>5, LookInv
  <2>6. CASE Create(g)
    BY <1>1, <2>6, CopyDataInv, NewInodeInv
  <2>7. CASE CopyPart(g) \/ CopyRest(g)
    BY <1>1, <2>7, CopyDataInv
  <2>8. CASE CreateTemp(g)
    BY <1>1, <2>8, NewInodeInv
  <2>9. CASE FillPart(g) \/ Fill(g)
    BY <1>1, <2>9, FillInv
  <2>10. CASE Rename(g) \/ Fail(g)
    BY <1>1, <2>10, FSEndInv
  <2>11. CASE FailLeaving(g)
    BY <1>1, <2>11, LeavingInv
  <2>12. QED
    BY <1>4, <2>1, <2>2, <2>3, <2>4, <2>5, <2>6, <2>7, <2>8, <2>9, <2>10, <2>11 DEF FSStep
<1>5. QED
  BY <1>1, <1>2, <1>3, <1>4 DEF FSNext

LEMMA FSInvariance == FSSpec => []FSInv
  BY FSInitInv, FSNextInv, PTL DEF FSSpec

-----------------------------------------------------------------------------
(* What an undisturbed call knows of the file it is about to replace.       *)

\* A call that backs up copies the file to its backup, and then has it there.
BackupFits(g) ==
    op[g].backup =>
        /\ op[g].src = op[g].path /\ op[g].dst = Bak(op[g].path)
        /\ op[g].step \in {"create", "part", "rest"} =>
              op[g].from = dir[op[g].path] /\ Exists(op[g].path)
        /\ Copying(g) =>
              op[g].file = dir[Bak(op[g].path)] /\ Exists(Bak(op[g].path))
        /\ (op[g].step = "temp" \/ Filling(g)) /\ Exists(op[g].path) =>
              Exists(Bak(op[g].path)) /\ Content(Bak(op[g].path)) = Content(op[g].path)

\* A tracked call copies nothing but its backup, and what it is about to
\* replace was shown in the session.
TrackedFits(g) ==
    op[g].tracked =>
        /\ op[g].path \in Paths
        /\ op[g].step \in {"open", "create", "part", "rest"} => op[g].backup
        /\ session # <<>> =>
              Exists(op[g].path) /\ <<op[g].path, Content(op[g].path)>> \in shown

AloneFits ==
    \A g \in Goroutines :
        op[g].alone /\ op[g].step # "idle" => BackupFits(g) /\ TrackedFits(g)

\* The tracker knows nothing that was not shown.
TrackerFits ==
    session # <<>> => \A f \in Paths : session[f] # None => <<f, session[f]>> \in shown

AloneInv == AloneFits /\ TrackerFits

-----------------------------------------------------------------------------
(* Every action keeps it: only the calls of one goroutine can be alone.     *)

\* A step of one goroutine disturbs the calls of all the others.
LEMMA AloneBy ==
    ASSUME FSTypeOK, NEW g \in Goroutines, NEW o \in Op, Go(g, o), TrackerFits',
           o.step # "idle" /\ o.alone => BackupFits(g)' /\ TrackedFits(g)'
    PROVE  AloneInv'
<1>1. op'[g] = o /\ Others(g)
  BY GoOps
<1>2. ASSUME NEW h \in Goroutines, h # g, op'[h].alone
      PROVE  BackupFits(h)' /\ TrackedFits(h)'
  <2>1. op'[h] = Disturbed(op[h]) /\ op[h] \in Op
    BY <1>2 DEF Go, FSTypeOK
  <2>2. ~op'[h].backup /\ ~op'[h].tracked
    BY <1>2, <2>1, DisturbedOp
  <2>3. QED
    BY <2>2 DEF BackupFits, TrackedFits
<1>3. AloneFits'
  BY <1>1, <1>2 DEF AloneFits
<1>4. QED
  BY <1>3 DEF AloneInv

LEMMA TrackerSame == TrackerFits /\ UNCHANGED <<session, shown>> => TrackerFits'
  BY DEF TrackerFits

\* A call that begins, and asks for nothing besides.
Plain(o, step, f, to) ==
    /\ o \in Op /\ o.step = step /\ o.src = f /\ o.dst = to /\ o.path = f
    /\ o.backup = FALSE /\ o.tracked = FALSE

LEMMA NewIsPlain ==
    ASSUME NEW f \in Paths, NEW v \in 0..MaxWrites, NEW step \in Steps, NEW to \in Files
    PROVE  Plain(NewOp(step, f, to, f, v), step, f, to)
<1>1. f \in Files
  BY PathsAreFiles
<1>2. QED
  BY <1>1 DEF Plain, NewOp, Op

\* A call that begins asks for a backup of its own file only, and is tracked
\* only when its file reads as it was shown.
LEMMA WriteAlone ==
    ASSUME FSInv, AloneInv, NEW g \in Goroutines, NEW f \in Paths,
           Write(g, f) \/ WriteWith(g, f) \/ WriteTracked(g, f)
    PROVE  AloneInv'
<1>1. /\ FSTypeOK /\ writes \in Nat /\ writes < MaxWrites /\ TrackerFits
      /\ UNCHANGED <<dir, data, session, shown>>
  <2>1. FSTypeOK /\ TrackerFits
    BY DEF FSInv, AloneInv
  <2>2. writes < MaxWrites /\ UNCHANGED <<dir, data, session, shown>>
    BY DEF Write, WriteWith, WriteTracked, Bounds
  <2>3. writes \in Nat
    BY <2>1 DEF FSTypeOK
  <2>4. QED
    BY <2>1, <2>2, <2>3
<1> DEFINE plain   == NewOp("temp", f, f, f, writes + 1)
           careful == NewOp("stat", f, Bak(f), f, writes + 1)
<1>2. writes + 1 \in 0..MaxWrites /\ f \in Files /\ Bak(f) \in Files
  BY <1>1, PathsAreFiles
<1>3. "temp" \in Steps /\ "stat" \in Steps
  BY DEF Steps
<1>4. Plain(plain, "temp", f, f) /\ Plain(careful, "stat", f, Bak(f))
  BY <1>2, <1>3, NewIsPlain
<1> HIDE DEF plain, careful
<1>5. /\ plain \in Op /\ plain.step = "temp" /\ plain.path = f
      /\ plain.backup = FALSE /\ plain.tracked = FALSE
  BY <1>4 DEF Plain
<1>6. /\ careful \in Op /\ careful.step = "stat" /\ careful.src = f
      /\ careful.dst = Bak(f) /\ careful.path = f /\ careful.tracked = FALSE
  BY <1>4 DEF Plain
<1>7. PICK p \in Op : /\ Go(g, p) /\ p.path = f /\ p.step \in {"temp", "stat"}
                      /\ p.step = "temp" => p.backup = FALSE
                      /\ p.step = "stat" => p.src = f /\ p.dst = Bak(f)
                      /\ p.tracked => WriteTracked(g, f)
  <2>1. CASE Write(g, f)
    <3>1. Go(g, plain)
      BY <2>1 DEF Write, plain
    <3>2. QED
      BY <1>5, <3>1
  <2>2. CASE WriteWith(g, f)
    <3>1. PICK b, n \in BOOLEAN : Go(g, [careful EXCEPT !.backup = b, !.noOverwrite = n])
      BY <2>2 DEF WriteWith, careful
    <3> DEFINE p == [careful EXCEPT !.backup = b, !.noOverwrite = n]
    <3>2. Alike(p, careful)
      BY <1>6, Asking
    <3>3. p.tracked = FALSE
      BY <1>6 DEF Op
    <3>4. Go(g, p)
      BY <3>1
    <3> HIDE DEF p
    <3>5. p \in Op /\ p.path = f /\ p.step = "stat" /\ p.src = f /\ p.dst = Bak(f)
      BY <1>6, <3>2 DEF Alike
    <3>6. QED
      BY <3>3, <3>5, <3>4
  <2>3. CASE WriteTracked(g, f)
    <3>1. CASE Go(g, [plain EXCEPT !.tracked = TRUE])
      <4> DEFINE p == [plain EXCEPT !.tracked = TRUE]
      <4>1. Alike(p, plain)
        BY <1>5, AskingTracked
      <4>2. p.backup = FALSE
        BY <1>5 DEF Op
      <4>3. Go(g, p)
        BY <3>1
      <4> HIDE DEF p
      <4>4. p \in Op /\ p.path = f /\ p.step = "temp"
        BY <1>5, <4>1 DEF Alike
      <4>5. QED
        BY <2>3, <4>2, <4>3, <4>4
    <3>2. CASE \E b, n \in BOOLEAN :
                 Go(g, [careful EXCEPT !.backup = b, !.noOverwrite = n, !.tracked = TRUE])
      <4>1. PICK b, n \in BOOLEAN :
              Go(g, [careful EXCEPT !.backup = b, !.noOverwrite = n, !.tracked = TRUE])
        BY <3>2
      <4> DEFINE p == [careful EXCEPT !.backup = b, !.noOverwrite = n, !.tracked = TRUE]
      <4>2. Alike(p, careful)
        BY <1>6, AskingBoth
      <4>3. Go(g, p)
        BY <4>1
      <4> HIDE DEF p
      <4>4. p \in Op /\ p.path = f /\ p.step = "stat" /\ p.src = f /\ p.dst = Bak(f)
        BY <1>6, <4>2 DEF Alike
      <4>5. QED
        BY <2>3, <4>3, <4>4
    <3>3. QED
      BY <2>3, <3>1, <3>2 DEF WriteTracked, plain, careful
  <2>4. QED
    BY <2>1, <2>2, <2>3
<1>8. op'[g] = p
  BY <1>1, <1>7, GoOps
<1>9. BackupFits(g)'
  BY <1>7, <1>8 DEF BackupFits, Copying, Filling
<1>10. ASSUME p.tracked, session # <<>>
      PROVE  Exists(f) /\ <<f, Content(f)>> \in shown
  <2>1. session[f] # None /\ Exists(f) /\ session[f] = Content(f)
    BY <1>7, <1>10 DEF WriteTracked, Unchanged
  <2>2. QED
    BY <1>1, <1>10, <2>1 DEF TrackerFits
<1>11. TrackedFits(g)'
  BY <1>1, <1>7, <1>8, <1>10 DEF TrackedFits, Exists, Content
<1>12. TrackerFits'
  BY <1>1, TrackerSame
<1>13. QED
  BY <1>1, <1>7, <1>9, <1>11, <1>12, AloneBy

\* FS.copy and FS.delete make no promise.
LEMMA CopyRemoveAlone ==
    ASSUME FSInv, AloneInv, NEW g \in Goroutines, NEW f \in Paths,
           RemoveFile(g, f) \/ \E to \in Paths : Copy(g, f, to)
    PROVE  AloneInv'
<1>1. FSTypeOK /\ TrackerFits /\ UNCHANGED <<session, shown>>
  BY DEF FSInv, AloneInv, RemoveFile, Copy
<1>2. TrackerFits'
  BY <1>1, TrackerSame
<1>3. CASE RemoveFile(g, f)
  <2>1. op[g] \in Op /\ op[g].step = "idle" /\ Go(g, op[g])
    BY <1>1, <1>3 DEF RemoveFile, At, FSTypeOK
  <2>2. QED
    BY <1>1, <1>2, <2>1, AloneBy
<1>4. ASSUME NEW to \in Paths, Copy(g, f, to) PROVE AloneInv'
  <2> DEFINE o == NewOp("open", f, to, f, 0)
  <2>1. to \in Files /\ 0 \in 0..MaxWrites
    BY PathsAreFiles
  <2>2. "open" \in Steps
    BY DEF Steps
  <2>3. Plain(o, "open", f, to)
    BY <2>1, <2>2, NewIsPlain
  <2>4. Go(g, o)
    BY <1>4 DEF Copy
  <2> HIDE DEF o
  <2>5. o \in Op /\ o.backup = FALSE /\ o.tracked = FALSE
    BY <2>3 DEF Plain
  <2>6. op'[g] = o
    BY <1>1, <2>5, <2>4, GoOps
  <2>7. BackupFits(g)' /\ TrackedFits(g)'
    BY <2>5, <2>6 DEF BackupFits, TrackedFits
  <2>8. QED
    BY <1>1, <1>2, <2>5, <2>4, <2>7, AloneBy
<1>5. QED
  BY <1>3, <1>4

\* A call that goes on keeps what it was asked for.
Kept(o, g) ==
    /\ o \in Op /\ o.src = op[g].src /\ o.dst = op[g].dst /\ o.path = op[g].path
    /\ o.backup = op[g].backup /\ o.tracked = op[g].tracked /\ o.alone = op[g].alone

GoesTo(o, g, step, file, from) ==
    Kept(o, g) /\ o.step = step /\ o.file = file /\ o.from = from

LEMMA ToKeeps ==
    ASSUME FSTypeOK, NEW g \in Goroutines, NEW step \in Steps
    PROVE  GoesTo(To(g, step), g, step, op[g].file, op[g].from)
<1>1. op[g] \in Op
  BY DEF FSTypeOK
<1>2. QED
  BY <1>1 DEF GoesTo, Kept, To, Op

LEMMA ToOpens ==
    ASSUME FSTypeOK, NEW g \in Goroutines, NEW step \in Steps, NEW i \in 0..MaxInodes
    PROVE  /\ GoesTo([To(g, step) EXCEPT !.file = i], g, step, i, op[g].from)
           /\ GoesTo([To(g, step) EXCEPT !.from = i], g, step, op[g].file, i)
<1>1. op[g] \in Op
  BY DEF FSTypeOK
<1>2. GoesTo([To(g, step) EXCEPT !.file = i], g, step, i, op[g].from)
  BY <1>1 DEF GoesTo, Kept, To, Op
<1>3. GoesTo([To(g, step) EXCEPT !.from = i], g, step, op[g].file, i)
  BY <1>1 DEF GoesTo, Kept, To, Op
<1>4. QED
  BY <1>2, <1>3

\* The name f is of the same file, with the same content.
ReadsSame(f) ==
    dir'[f] = dir[f] /\ (dir[f] # 0 => data'[dir[f]] = data[dir[f]])

LEMMA StillSeen ==
    ASSUME NEW g \in Goroutines, NEW o, op'[g] = o, Kept(o, g), TrackedFits(g),
           UNCHANGED <<session, shown>>, ReadsSame(op[g].path),
           o.step \in {"open", "create", "part", "rest"} /\ o.tracked => o.backup
    PROVE  TrackedFits(g)'
<1>1. SUFFICES ASSUME o.tracked
               PROVE  /\ o.path \in Paths
                      /\ o.step \in {"open", "create", "part", "rest"} => o.backup
                      /\ session # <<>> =>
                            dir'[o.path] # 0 /\ <<o.path, data'[dir'[o.path]]>> \in shown
  BY DEF TrackedFits, Exists, Content
<1>2. op[g].tracked /\ o.path = op[g].path
  BY <1>1 DEF Kept
<1>3. /\ op[g].path \in Paths
      /\ session # <<>> => Exists(op[g].path) /\ <<op[g].path, Content(op[g].path)>> \in shown
  BY <1>2 DEF TrackedFits
<1>4. QED
  BY <1>1, <1>2, <1>3 DEF Exists, Content, ReadsSame

\* A call goes on as o, or ends.
LEMMA GoesOn ==
    ASSUME FSInv, AloneInv, NEW g \in Goroutines, NEW o \in Op, Go(g, o), ~At(g, "idle"),
           UNCHANGED <<session, shown>>,
           o.step # "idle" =>
              /\ Kept(o, g) /\ ReadsSame(op[g].path)
              /\ o.step \in {"open", "create", "part", "rest"} /\ o.tracked /\ TrackedFits(g)
                    => o.backup
              /\ BackupFits(g) => BackupFits(g)'
    PROVE  AloneInv'
<1>1. FSTypeOK /\ TrackerFits'
  BY TrackerSame DEF FSInv, AloneInv
<1>2. op'[g] = o
  BY <1>1, GoOps
<1>3. ASSUME o.step # "idle", o.alone PROVE BackupFits(g)' /\ TrackedFits(g)'
  <2>1. op[g].alone /\ op[g].step # "idle"
    BY <1>3 DEF Kept, At
  <2>2. BackupFits(g) /\ TrackedFits(g)
    BY <2>1 DEF AloneInv, AloneFits
  <2>3. BackupFits(g)'
    BY <1>3, <2>2
  <2>4. o.step \in {"open", "create", "part", "rest"} /\ o.tracked => o.backup
    BY <1>3, <2>2
  <2>5. TrackedFits(g)'
    BY <1>2, <1>3, <2>2, <2>4, StillSeen
  <2>6. QED
    BY <2>3, <2>5
<1>4. QED
  BY <1>1, <1>3, AloneBy

LEMMA EndsAlone ==
    ASSUME FSInv, AloneInv, NEW g \in Goroutines, Go(g, Idle), ~At(g, "idle"),
           UNCHANGED <<session, shown>>
    PROVE  AloneInv'
  BY IdleType, GoesOn

\* write_with looks whether its file exists; without one there is nothing to save.
LEMMA StatAlone ==
    ASSUME FSInv, AloneInv, NEW g \in Goroutines, Stat(g)
    PROVE  AloneInv'
<1>1. /\ FSTypeOK /\ At(g, "stat") /\ ~At(g, "idle") /\ op[g] \in Op
      /\ UNCHANGED <<dir, data, session, shown>>
  BY DEF FSInv, FSTypeOK, Stat, CallsSame, At
<1>2. "open" \in Steps /\ "temp" \in Steps /\ ReadsSame(op[g].path)
  BY <1>1 DEF Steps, ReadsSame
<1>3. CASE op[g].noOverwrite /\ Exists(op[g].path)
  BY <1>1, <1>3, EndsAlone DEF Stat
<1>4. ASSUME NEW step \in {"open", "temp"}, Go(g, To(g, step)),
             step = "open" => op[g].backup = TRUE,
             step = "temp" => ~(op[g].backup /\ Exists(op[g].path))
      PROVE  AloneInv'
  <2> DEFINE o == To(g, step)
  <2>1. GoesTo(o, g, step, op[g].file, op[g].from)
    BY <1>1, <1>2, <1>4, ToKeeps
  <2>2. Go(g, o)
    BY <1>4
  <2> HIDE DEF o
  <2>3. Kept(o, g) /\ o.step = step
    BY <2>1 DEF GoesTo
  <2>4. o \in Op /\ o.step # "idle" /\ op'[g] = o
    BY <1>1, <1>4, <2>3, <2>2, GoOps DEF Kept
  <2>5. ASSUME BackupFits(g) PROVE BackupFits(g)'
    <3>1. SUFFICES ASSUME op[g].backup
                   PROVE  /\ o.src = o.path /\ o.dst = Bak(o.path)
                          /\ step = "temp" => ~Exists(op[g].path)
      BY <1>1, <1>4, <2>3, <2>4 DEF BackupFits, Kept, Copying, Filling, Exists
    <3>2. QED
      BY <1>4, <2>3, <2>5, <3>1 DEF BackupFits, Kept
  <2>6. o.step \in {"open", "create", "part", "rest"} => o.backup
    BY <1>4, <2>3 DEF Kept
  <2>7. QED
    BY <1>1, <1>2, <2>3, <2>2, <2>4, <2>5, <2>6, GoesOn
<1>5. CASE /\ ~(op[g].noOverwrite /\ Exists(op[g].path))
           /\ op[g].backup /\ Exists(op[g].path)
  <2>1. Go(g, To(g, "open"))
    BY <1>5 DEF Stat
  <2>2. op[g].backup = TRUE
    BY <1>1, <1>5 DEF Op
  <2>3. QED
    BY <1>4, <2>1, <2>2
<1>6. CASE /\ ~(op[g].noOverwrite /\ Exists(op[g].path))
           /\ ~(op[g].backup /\ Exists(op[g].path))
  <2>1. Go(g, To(g, "temp"))
    BY <1>6 DEF Stat
  <2>2. QED
    BY <1>4, <1>6, <2>1
<1>7. QED
  BY <1>3, <1>5, <1>6

\* A backup opens the file to be replaced.
LEMMA OpenAlone ==
    ASSUME FSInv, AloneInv, NEW g \in Goroutines, Open(g)
    PROVE  AloneInv'
<1>1. /\ FSTypeOK /\ At(g, "open") /\ ~At(g, "idle") /\ op[g] \in Op
      /\ UNCHANGED <<dir, data, session, shown>>
  BY DEF FSInv, FSTypeOK, Open, CallsSame, At
<1>2. "create" \in Steps /\ ReadsSame(op[g].path)
  BY <1>1 DEF Steps, ReadsSame
<1> DEFINE src == op[g].src
           o == [To(g, "create") EXCEPT !.from = dir[src]]
<1>3. CASE ~Exists(src)
  BY <1>1, <1>3, EndsAlone DEF Open
<1>4. CASE Exists(src)
  <2>1. dir[src] \in 0..MaxInodes
    <3>1. src \in Files
      BY <1>1 DEF Op
    <3>2. dir[src] \in 0..Len(data) /\ Len(data) \in Nat /\ Len(data) <= MaxInodes
      BY <1>1, <3>1, Inodes DEF FSTypeOK
    <3>3. QED
      BY <3>2
  <2>2. GoesTo(o, g, "create", op[g].file, dir[src])
    BY <1>1, <1>2, <2>1, ToOpens
  <2>3. Go(g, o)
    BY <1>4 DEF Open
  <2> HIDE DEF o
  <2>4. Kept(o, g) /\ o.step = "create" /\ o.from = dir[src]
    BY <2>2 DEF GoesTo
  <2>5. o \in Op /\ op'[g] = o
    BY <1>1, <2>4, <2>3, GoOps DEF Kept
  <2>6. ASSUME BackupFits(g) PROVE BackupFits(g)'
    <3>1. SUFFICES ASSUME op[g].backup
                   PROVE  /\ o.src = o.path /\ o.dst = Bak(o.path)
                          /\ o.from = dir[o.path] /\ Exists(o.path)
      BY <1>1, <2>4, <2>5 DEF BackupFits, Kept, Copying, Filling, Exists
    <3>2. op[g].src = op[g].path /\ op[g].dst = Bak(op[g].path)
      BY <2>6, <3>1 DEF BackupFits
    <3>3. QED
      BY <1>4, <2>4, <3>2 DEF Kept
  <2>7. o.tracked /\ TrackedFits(g) => o.backup
    BY <1>1, <2>4 DEF Kept, TrackedFits, At
  <2>8. QED
    BY <1>1, <1>2, <2>4, <2>3, <2>5, <2>6, <2>7, GoesOn
<1>5. QED
  BY <1>3, <1>4

\* A file and its backup are two files.
LEMMA OwnBackup ==
    ASSUME FSInv, NEW g \in Goroutines, op[g].backup, BackupFits(g)
    PROVE  /\ op[g].path \in Files /\ op[g].dst = Bak(op[g].path)
           /\ op[g].dst \in Files /\ op[g].dst # op[g].path
           /\ dir[op[g].path] # 0 => dir[op[g].path] # dir[op[g].dst]
<1>1. FSTypeOK /\ OwnInodes /\ Writing
  BY DEF FSInv
<1>2. op[g].path \in Paths
  BY <1>1 DEF Writing
<1>3. /\ op[g].path \in Files /\ Bak(op[g].path) \in Files
      /\ Bak(op[g].path) \notin Paths /\ op[g].dst = Bak(op[g].path)
  BY <1>2, PathsAreFiles DEF BackupFits
<1>4. Bak(op[g].path) # op[g].path
  BY <1>2, <1>3
<1>5. QED
  BY <1>1, <1>3, <1>4 DEF OwnInodes

\* copyFile creates or truncates the backup, not the file it saves.
LEMMA CreateAlone ==
    ASSUME FSInv, AloneInv, NEW g \in Goroutines, Create(g)
    PROVE  AloneInv'
<1> DEFINE to == op[g].dst
<1>1. /\ FSTypeOK /\ At(g, "create") /\ ~At(g, "idle") /\ op[g] \in Op
      /\ UNCHANGED <<session, shown>> /\ "part" \in Steps
  BY DEF FSInv, FSTypeOK, Create, CallsSame, At, Steps
<1>2. to \in Files /\ op[g].path \in Files
  BY <1>1 DEF Op
<1>3. /\ Len(data) \in Nat /\ DOMAIN data = 1..Len(data) /\ Len(data) <= MaxInodes
      /\ \A f \in Files : dir[f] # 0 => dir[f] \in DOMAIN data
  BY <1>1, Inodes
<1>4. dir \in [Files -> 0..Len(data)] /\ data \in Seq(Values)
  BY <1>1 DEF FSTypeOK
<1>5. PICK i \in 0..MaxInodes :
        /\ Go(g, [To(g, "part") EXCEPT !.file = i])
        /\ dir'[to] = i /\ i # 0
        /\ \A f \in Files : f # to => dir'[f] = dir[f]
        /\ \A f \in Files : f # to /\ dir[f] # 0 /\ dir[f] # dir[to] => data'[dir[f]] = data[dir[f]]
  <2>1. CASE Exists(to)
    <3>1. /\ data' = [data EXCEPT ![dir[to]] = 0] /\ dir' = dir
          /\ Go(g, [To(g, "part") EXCEPT !.file = dir[to]]) /\ dir[to] # 0
      BY <2>1 DEF Create, Exists
    <3>2. dir[to] \in 0..MaxInodes
      BY <1>2, <1>3, <1>4
    <3>3. \A j \in DOMAIN data : j # dir[to] => data'[j] = data[j]
      BY <1>4, <3>1
    <3>4. QED
      BY <1>3, <3>1, <3>2, <3>3
  <2>2. CASE ~Exists(to)
    <3> DEFINE i == Len(data) + 1
    <3>1. /\ Len(data) < MaxInodes /\ data' = Append(data, 0) /\ dir' = [dir EXCEPT ![to] = i]
          /\ Go(g, [To(g, "part") EXCEPT !.file = i])
      BY <2>2 DEF Create
    <3>2. i \in 0..MaxInodes /\ i # 0
      BY <1>3, <3>1
    <3>3. \A j \in 1..Len(data) : data'[j] = data[j]
      BY <1>4, <3>1
    <3> HIDE DEF i
    <3>4. dir'[to] = i /\ \A f \in Files : f # to => dir'[f] = dir[f]
      BY <1>2, <1>4, <3>1
    <3>5. QED
      BY <1>3, <3>1, <3>2, <3>3, <3>4
  <2>3. QED
    BY <2>1, <2>2
<1> DEFINE o == [To(g, "part") EXCEPT !.file = i]
<1>6. GoesTo(o, g, "part", i, op[g].from)
  BY <1>1, <1>5, ToOpens
<1>7. Go(g, o)
  BY <1>5
<1> HIDE DEF o, to
<1>8. Kept(o, g) /\ o.step = "part" /\ o.file = i /\ o.from = op[g].from /\ o \in Op
  BY <1>6 DEF GoesTo, Kept
<1>9. op'[g] = o
  BY <1>1, <1>7, <1>8, GoOps
<1>10. CASE op[g].alone
  <2>1. BackupFits(g) /\ TrackedFits(g)
    BY <1>1, <1>10 DEF AloneInv, AloneFits, At
  <2>2. CASE op[g].backup
    <3>1. /\ to = Bak(op[g].path) /\ to # op[g].path
          /\ dir[op[g].path] # 0 => dir[op[g].path] # dir[to]
      BY <2>1, <2>2, OwnBackup DEF to
    <3>2. ReadsSame(op[g].path)
      BY <1>2, <1>5, <3>1 DEF ReadsSame
    <3>3. op[g].src = op[g].path /\ op[g].from = dir[op[g].path] /\ dir[op[g].path] # 0
      BY <1>1, <2>1, <2>2 DEF BackupFits, At, Exists
    <3>4. /\ o.src = o.path /\ o.dst = Bak(o.path) /\ o.from = dir'[o.path] /\ dir'[o.path] # 0
          /\ o.file = dir'[Bak(o.path)] /\ dir'[Bak(o.path)] # 0
      BY <1>5, <1>8, <3>1, <3>2, <3>3 DEF Kept, ReadsSame, to
    <3>5. BackupFits(g)'
      BY <1>8, <1>9, <3>4 DEF BackupFits, Copying, Filling, Exists
    <3>6. o.backup
      BY <1>8, <2>2 DEF Kept
    <3>7. QED
      BY <1>1, <1>7, <1>8, <3>2, <3>5, <3>6, GoesOn
  <2>3. CASE ~op[g].backup
    <3>1. ~op[g].tracked
      BY <1>1, <2>1, <2>3 DEF TrackedFits, At
    <3>2. BackupFits(g)' /\ TrackedFits(g)'
      BY <1>8, <1>9, <2>3, <3>1 DEF BackupFits, TrackedFits, Kept
    <3>3. TrackerFits'
      BY <1>1, TrackerSame DEF AloneInv
    <3>4. QED
      BY <1>1, <1>7, <1>8, <3>2, <3>3, AloneBy
  <2>4. QED
    BY <2>2, <2>3
<1>11. CASE ~op[g].alone
  <2>1. ~o.alone
    BY <1>8, <1>11 DEF Kept
  <2>2. TrackerFits'
    BY <1>1, TrackerSame DEF AloneInv
  <2>3. QED
    BY <1>1, <1>7, <1>8, <2>1, <2>2, AloneBy
<1>12. QED
  BY <1>10, <1>11

\* copyFile copies to the backup what the file holds.
LEMMA CopyDataAlone ==
    ASSUME FSInv, AloneInv, NEW g \in Goroutines, CopyPart(g) \/ CopyRest(g)
    PROVE  AloneInv'
<1> DEFINE i == op[g].file
<1>1. /\ FSTypeOK /\ CopiesAside /\ Copying(g) /\ ~At(g, "idle") /\ op[g] \in Op
      /\ UNCHANGED <<dir, session, shown>> /\ "rest" \in Steps /\ "temp" \in Steps
  BY DEF FSInv, FSTypeOK, CopyPart, CopyRest, CallsSame, At, Steps, Copying
<1>2. i \in DOMAIN data /\ data \in Seq(Values)
  BY <1>1 DEF CopiesAside, FSTypeOK
<1>3. \A f \in Files : dir[f] # 0 => dir[f] \in DOMAIN data
  BY <1>1, Inodes
<1>4. PICK v : /\ data' = [data EXCEPT ![i] = v]
               /\ CopyRest(g) => v = data[op[g].from]
  BY DEF CopyPart, CopyRest, At
<1>5. data'[i] = v /\ \A j \in DOMAIN data : j # i => data'[j] = data[j]
  BY <1>2, <1>4
<1>6. CASE CopyRest(g) /\ ~op[g].backup
  BY <1>1, <1>6, EndsAlone DEF CopyRest
<1>7. ASSUME NEW step \in {"rest", "temp"}, Go(g, To(g, step)),
             step = "temp" => CopyRest(g) /\ op[g].backup
      PROVE  AloneInv'
  <2> DEFINE o == To(g, step)
  <2>1. GoesTo(o, g, step, i, op[g].from)
    BY <1>1, <1>7, ToKeeps
  <2>2. Go(g, o)
    BY <1>7
  <2> HIDE DEF o, i
  <2>3. /\ Kept(o, g) /\ o.step = step /\ o.file = i /\ o.from = op[g].from /\ o \in Op
    BY <2>1 DEF GoesTo, Kept
  <2>4. op'[g] = o /\ TrackerFits'
    BY <1>1, <2>3, <2>2, GoOps, TrackerSame DEF AloneInv
  <2>5. CASE ~op[g].alone
    <3>1. ~o.alone
      BY <2>3, <2>5 DEF Kept
    <3>2. QED
      BY <1>1, <2>3, <2>4, <2>2, <3>1, AloneBy
  <2>6. CASE op[g].alone
    <3>1. BackupFits(g) /\ TrackedFits(g)
      BY <1>1, <2>6 DEF AloneInv, AloneFits, At
    <3>2. CASE op[g].backup
      <4>1. /\ op[g].path \in Files /\ op[g].dst = Bak(op[g].path)
            /\ dir[op[g].path] # 0 => dir[op[g].path] # dir[op[g].dst]
        BY <3>1, <3>2, OwnBackup
      <4>2. /\ op[g].src = op[g].path /\ i = dir[Bak(op[g].path)] /\ dir[Bak(op[g].path)] # 0
            /\ op[g].from = dir[op[g].path] /\ dir[op[g].path] # 0
        BY <1>1, <3>1, <3>2 DEF BackupFits, Copying, Exists, i
      <4>3. ReadsSame(op[g].path)
        BY <1>1, <1>3, <1>5, <4>1, <4>2 DEF ReadsSame
      <4>4. /\ o.src = o.path /\ o.dst = Bak(o.path) /\ dir'[o.path] # 0
            /\ o.from = dir'[o.path] /\ o.file = dir'[Bak(o.path)] /\ dir'[Bak(o.path)] # 0
        BY <1>1, <2>3, <4>1, <4>2 DEF Kept
      <4>5. step = "temp" => data'[dir'[Bak(o.path)]] = data'[dir'[o.path]]
        BY <1>1, <1>4, <1>5, <1>7, <2>3, <4>2, <4>3 DEF Kept, ReadsSame
      <4>6. BackupFits(g)'
        BY <2>3, <2>4, <4>4, <4>5, <1>7 DEF BackupFits, Copying, Filling, Exists, Content
      <4>7. o.backup
        BY <2>3, <3>2 DEF Kept
      <4>8. QED
        BY <1>1, <2>3, <2>2, <4>3, <4>6, <4>7, GoesOn
    <3>3. CASE ~op[g].backup
      <4>1. ~op[g].tracked
        BY <1>1, <3>1, <3>3 DEF TrackedFits, Copying
      <4>2. BackupFits(g)' /\ TrackedFits(g)'
        BY <2>3, <2>4, <3>3, <4>1 DEF BackupFits, TrackedFits, Kept
      <4>3. QED
        BY <1>1, <2>3, <2>4, <2>2, <4>2, AloneBy
    <3>4. QED
      BY <3>2, <3>3
  <2>7. QED
    BY <2>5, <2>6
<1>8. CASE CopyPart(g)
  <2>1. Go(g, To(g, "rest"))
    BY <1>8 DEF CopyPart
  <2>2. QED
    BY <1>7, <2>1
<1>9. CASE CopyRest(g) /\ op[g].backup
  <2>1. Go(g, To(g, "temp"))
    BY <1>9 DEF CopyRest
  <2>2. QED
    BY <1>7, <1>9, <2>1
<1>10. QED
  BY <1>6, <1>8, <1>9

\* What is written to a temporary file, no name shows.
LEMMA TempAlone ==
    ASSUME FSInv, AloneInv, NEW g \in Goroutines, CreateTemp(g) \/ FillPart(g) \/ Fill(g)
    PROVE  AloneInv'
<1>1. /\ FSTypeOK /\ TempsOwned /\ ~At(g, "idle")
      /\ op[g].step \in {"temp", "fill", "close", "rename"}
      /\ UNCHANGED <<dir, session, shown>>
  BY DEF FSInv, CreateTemp, FillPart, Fill, CallsSame, At, Filling
<1>2. /\ \A f \in Files : dir[f] # 0 => dir[f] \in DOMAIN data
      /\ Len(data) \in Nat /\ DOMAIN data = 1..Len(data)
  BY <1>1, Inodes
<1>3. \A f \in Files : dir[f] # 0 => data'[dir[f]] = data[dir[f]]
  <2>1. CASE CreateTemp(g)
    <3>1. data' = Append(data, 0) /\ data \in Seq(Values)
      BY <1>1, <2>1 DEF CreateTemp, FSTypeOK
    <3>2. \A j \in 1..Len(data) : data'[j] = data[j]
      BY <3>1
    <3>3. QED
      BY <1>2, <3>2
  <2>2. CASE FillPart(g) \/ Fill(g)
    <3>1. PICK v : data' = [data EXCEPT ![op[g].file] = v]
      BY <2>2 DEF FillPart, Fill
    <3>2. Filling(g)
      BY <2>2 DEF FillPart, Fill, At, Filling
    <3>3. op[g].file \in temps /\ \A f \in Files : dir[f] # op[g].file
      BY <1>1, <3>2 DEF TempsOwned, FSTypeOK
    <3>4. data \in Seq(Values) /\ op[g].file \in DOMAIN data
      BY <1>1, <3>3 DEF FSTypeOK
    <3>5. \A j \in DOMAIN data : j # op[g].file => data'[j] = data[j]
      BY <3>1, <3>4
    <3>6. QED
      BY <1>2, <3>3, <3>5
  <2>3. QED
    BY <2>1, <2>2
<1>4. PICK o \in Op : /\ Go(g, o) /\ Kept(o, g) /\ o.step \in {"fill", "close", "rename"}
  <2>1. "fill" \in Steps /\ "close" \in Steps /\ "rename" \in Steps
    BY DEF Steps
  <2>2. CASE CreateTemp(g)
    <3> DEFINE i == Len(data) + 1
               o == [To(g, "fill") EXCEPT !.file = i]
    <3>1. Go(g, o) /\ i \in 0..MaxInodes
      BY <1>2, <2>2 DEF CreateTemp
    <3>2. GoesTo(o, g, "fill", i, op[g].from)
      BY <1>1, <2>1, <3>1, ToOpens
    <3> HIDE DEF o
    <3>3. QED
      BY <3>1, <3>2 DEF GoesTo, Kept
  <2>3. ASSUME NEW step \in {"close", "rename"}, Go(g, To(g, step))
        PROVE  \E o \in Op : Go(g, o) /\ Kept(o, g) /\ o.step \in {"fill", "close", "rename"}
    <3> DEFINE o == To(g, step)
    <3>1. GoesTo(o, g, step, op[g].file, op[g].from) /\ Go(g, o)
      BY <1>1, <2>1, <2>3, ToKeeps
    <3> HIDE DEF o
    <3>2. QED
      BY <3>1 DEF GoesTo, Kept
  <2>4. CASE FillPart(g)
    BY <2>3, <2>4 DEF FillPart
  <2>5. CASE Fill(g)
    BY <2>3, <2>5 DEF Fill
  <2>6. QED
    BY <2>2, <2>4, <2>5
<1>5. op'[g] = o /\ o.step # "idle"
  BY <1>1, <1>4, GoOps
<1>6. op[g].path \in Files
  BY <1>1 DEF FSTypeOK, Op
<1>7. ReadsSame(op[g].path)
  BY <1>1, <1>3, <1>6 DEF ReadsSame
<1>8. ASSUME BackupFits(g) PROVE BackupFits(g)'
  <2>1. SUFFICES ASSUME op[g].backup PROVE BackupFits(g)'
    BY <1>4, <1>5 DEF BackupFits, Kept
  <2>2. /\ op[g].src = op[g].path /\ op[g].dst = Bak(op[g].path) /\ op[g].dst \in Files
    BY <1>8, <2>1, OwnBackup DEF BackupFits
  <2>3. dir[op[g].path] # 0 => /\ dir[op[g].dst] # 0
                               /\ data[dir[op[g].dst]] = data[dir[op[g].path]]
    BY <1>1, <1>8, <2>1, <2>2 DEF BackupFits, Filling, Exists, Content
  <2>4. dir'[o.path] # 0 => /\ dir'[Bak(o.path)] # 0
                            /\ data'[dir'[Bak(o.path)]] = data'[dir'[o.path]]
    BY <1>1, <1>3, <1>4, <1>6, <2>2, <2>3 DEF Kept
  <2>5. o.src = o.path /\ o.dst = Bak(o.path)
    BY <1>4, <2>2 DEF Kept
  <2>6. QED
    BY <1>4, <1>5, <2>4, <2>5 DEF BackupFits, Copying, Filling, Exists, Content
<1>9. QED
  BY <1>1, <1>4, <1>5, <1>7, <1>8, GoesOn

\* What a read shows, the tracker knows.
LEMMA ReadAlone ==
    ASSUME FSInv, AloneInv, NEW g \in Goroutines, NEW f \in Paths, Read(g, f)
    PROVE  AloneInv'
<1>1. FSTypeOK /\ AloneFits /\ TrackerFits
  BY DEF FSInv, AloneInv
<1>2. shown \subseteq shown' /\ UNCHANGED <<dir, data, op>> /\ (session = <<>> => session' = <<>>)
  BY DEF Read
<1>3. AloneFits'
  <2>1. \A h \in Goroutines : BackupFits(h) => BackupFits(h)'
    BY <1>2 DEF BackupFits, Copying, Filling, Exists, Content
  <2>2. \A h \in Goroutines : TrackedFits(h) => TrackedFits(h)'
    BY <1>2 DEF TrackedFits, Exists, Content
  <2>3. QED
    BY <1>1, <1>2, <2>1, <2>2 DEF AloneFits
<1>4. TrackerFits'
  <2>1. SUFFICES ASSUME session # <<>>, NEW e \in Paths, session'[e] # None
                 PROVE  <<e, session'[e]>> \in shown'
    BY <1>2 DEF TrackerFits
  <2>2. /\ session' = [session EXCEPT ![f] = Content(f)]
        /\ shown' = shown \cup {<<f, Content(f)>>}
        /\ session \in [Paths -> Values \cup {None}]
    BY <1>1, <2>1 DEF Read, FSTypeOK
  <2>3. CASE e = f
    BY <2>2, <2>3
  <2>4. CASE e # f
    <3>1. session'[e] = session[e]
      BY <2>2, <2>4
    <3>2. QED
      BY <1>1, <1>2, <2>1, <3>1 DEF TrackerFits
  <2>5. QED
    BY <2>3, <2>4
<1>5. QED
  BY <1>3, <1>4 DEF AloneInv

\* A session begins with nothing known, and disturbs every call; so it ends,
\* and so the program is started again.
LEMMA SessionAlone ==
    ASSUME FSInv, AloneInv, OpenSession \/ CloseSession \/ Crash
    PROVE  AloneInv'
<1>1. \A g \in Goroutines : op[g] \in Op
  BY DEF FSInv, FSTypeOK
<1>2. \A g \in Goroutines :
         op'[g].alone /\ op'[g].step # "idle" => ~op'[g].backup /\ ~op'[g].tracked
  <2>1. CASE Crash
    BY <2>1, IdleType DEF Crash
  <2>2. CASE OpenSession \/ CloseSession
    <3>1. \A g \in Goroutines : op'[g] = Disturbed(op[g])
      BY <2>2 DEF OpenSession, CloseSession
    <3>2. QED
      BY <1>1, <3>1, DisturbedOp
  <2>3. QED
    BY <2>1, <2>2
<1>3. AloneFits'
  BY <1>2 DEF AloneFits, BackupFits, TrackedFits
<1>4. TrackerFits'
  BY DEF OpenSession, CloseSession, Crash, TrackerFits
<1>5. QED
  BY <1>3, <1>4 DEF AloneInv

LEMMA AloneInit == FSInit => AloneInv
<1>1. SUFFICES ASSUME FSInit PROVE AloneInv
  OBVIOUS
<1>2. \A g \in Goroutines : op[g] = Idle
  BY <1>1 DEF FSInit
<1>3. AloneFits
  BY <1>2, IdleType DEF AloneFits
<1>4. TrackerFits
  BY <1>1 DEF FSInit, TrackerFits
<1>5. QED
  BY <1>3, <1>4 DEF AloneInv

LEMMA AloneNext == FSInv /\ AloneInv /\ [FSNext]_fsVars => AloneInv'
<1>1. FSInv /\ AloneInv /\ UNCHANGED fsVars => AloneInv'
  BY DEF fsVars, AloneInv, AloneFits, TrackerFits, BackupFits, TrackedFits, Copying, Filling,
         Exists, Content
<1>2. SUFFICES ASSUME FSInv, AloneInv, FSNext PROVE AloneInv'
  BY <1>1
<1>3. CASE OpenSession \/ CloseSession \/ Crash
  BY <1>2, <1>3, SessionAlone
<1>4. ASSUME NEW g \in Goroutines, FSStep(g) PROVE AloneInv'
  <2>1. ASSUME NEW f \in Paths, Write(g, f) \/ WriteWith(g, f) \/ WriteTracked(g, f)
        PROVE  AloneInv'
    BY <1>2, <2>1, WriteAlone
  <2>2. ASSUME NEW f \in Paths, Read(g, f) PROVE AloneInv'
    BY <1>2, <2>2, ReadAlone
  <2>3. ASSUME NEW f \in Paths, RemoveFile(g, f) \/ \E to \in Paths : Copy(g, f, to)
        PROVE  AloneInv'
    BY <1>2, <2>3, CopyRemoveAlone
  <2>4. CASE Stat(g)
    BY <1>2, <2>4, StatAlone
  <2>5. CASE Open(g)
    BY <1>2, <2>5, OpenAlone
  <2>6. CASE Create(g)
    BY <1>2, <2>6, CreateAlone
  <2>7. CASE CopyPart(g) \/ CopyRest(g)
    BY <1>2, <2>7, CopyDataAlone
  <2>8. CASE CreateTemp(g) \/ FillPart(g) \/ Fill(g)
    BY <1>2, <2>8, TempAlone
  <2>9. CASE Rename(g) \/ Fail(g) \/ FailLeaving(g)
    <3>1. Go(g, Idle) /\ ~At(g, "idle") /\ UNCHANGED <<session, shown>>
      BY <2>9 DEF Rename, Fail, FailLeaving, CallsSame, At
    <3>2. QED
      BY <1>2, <3>1, EndsAlone
  <2>10. QED
    BY <1>4, <2>1, <2>2, <2>3, <2>4, <2>5, <2>6, <2>7, <2>8, <2>9 DEF FSStep
<1>5. QED
  BY <1>2, <1>3, <1>4 DEF FSNext

LEMMA AloneInvariance == FSSpec => []AloneInv
  BY AloneInit, AloneNext, FSInvariance, PTL DEF FSSpec

-----------------------------------------------------------------------------
\* Every reachable state is well typed: names, inodes and calls fit together.
THEOREM FileStoreTypeCorrect == FSSpec => []FSTypeOK
<1>1. FSInv => FSTypeOK
  BY DEF FSInv
<1>2. QED
  BY <1>1, FSInvariance, PTL

\* Whoever opens a file that was only written finds the whole of one write,
\* and temporary files are of calls under way, or of a crash or a removal that
\* failed.
THEOREM WritesHappenAsAWhole == FSSpec => []WritesAreWhole
<1>1. FSInv => WritesAreWhole
  BY DEF FSInv, WritesAreWhole, TempsAreRemoved, TempsOwned, Filling, At
<1>2. QED
  BY <1>1, FSInvariance, PTL

\* No undisturbed write with a backup replaces a file that the backup does not
\* hold, and no undisturbed tracked write one that was not read in the session.
THEOREM NothingIsReplacedUnseen == FSSpec => NothingReplacedUnseen
<1>1. FSInv /\ AloneInv /\ [FSNext]_fsVars =>
        [\A g \in Goroutines :
            Renames(g) /\ op[g].alone /\ op[g].backup /\ Exists(op[g].path)
                => Exists(Bak(op[g].path)) /\ Content(Bak(op[g].path)) = Content(op[g].path)
          ]_fsVars
  BY DEF AloneInv, AloneFits, BackupFits, Filling, Renames, At
<1>2. FSInv /\ AloneInv /\ [FSNext]_fsVars =>
        [\A g \in Goroutines :
            Renames(g) /\ op[g].alone /\ op[g].tracked /\ session # <<>>
                => Exists(op[g].path) /\ <<op[g].path, Content(op[g].path)>> \in shown
          ]_fsVars
  BY DEF AloneInv, AloneFits, TrackedFits, Renames, At
<1>3. QED
  BY <1>1, <1>2, FSInvariance, AloneInvariance, PTL
     DEF FSSpec, NothingReplacedUnseen, BackupHoldsReplaced, TrackedReplacesRead
=============================================================================
