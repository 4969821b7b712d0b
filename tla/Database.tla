------------------------------ MODULE Database -------------------------------
(***************************************************************************)
(* The DB effect over MemoryDriver: statements of concurrent goroutines    *)
(* under the driver's lock, transactions of a host on their snapshots      *)
(* (memoryTx), and DB.transaction, whose closure's statements go to the    *)
(* driver.                                                                 *)
(*                                                                         *)
(* A row is a key and a value.  The value a statement writes is the number *)
(* of the statement, so that a row tells who wrote it.                     *)
(***************************************************************************)
EXTENDS Naturals, Sequences, FiniteSets

CONSTANTS
    Users,          \* goroutines
    Keys,           \* values of the one column WHERE compares
    TxKinds,        \* of transactions: "closure" (DB.transaction), "host" (memoryTx)
    MaxStatements,  \* bound: statements ever executed
    MaxTables       \* bound: tables ever made: the driver's and the snapshots

ASSUME DatabaseAssumption ==
    /\ TxKinds \subseteq {"closure", "host"}
    /\ MaxStatements \in Nat /\ MaxTables \in Nat \ {0}

VARIABLES
    tables,     \* every map of tables made, the driver's first: sequences of rows
    kinds,      \* whose each is: the driver's, or the transaction's it was copied for
    fates,      \* of those transactions
    live,       \* driver.tables: which of them
    open,       \* per goroutine: the transactions it is in, outermost first
    writers     \* of each statement: the transaction it was issued in, 0 for none

dbVars == <<tables, kinds, fates, live, open, writers>>

Row == [key : Keys, by : 1..MaxStatements]

DBTypeOK ==
    /\ tables \in Seq(Seq(Row)) /\ Len(tables) \in 1..MaxTables
    /\ kinds \in [DOMAIN tables -> {"driver"} \cup TxKinds]
    /\ fates \in [DOMAIN tables -> {"driver", "running", "committed", "rolled back"}]
    /\ live \in DOMAIN tables /\ fates[live] \in {"driver", "committed"}
    /\ open \in [Users -> Seq(DOMAIN tables)]
    /\ writers \in Seq(0..Len(tables)) /\ Len(writers) <= MaxStatements

DBInit ==
    /\ tables = << <<>> >>
    /\ kinds = <<"driver">>
    /\ fates = <<"driver">>
    /\ live = 1
    /\ open = [u \in Users |-> <<>>]
    /\ writers = <<>>

Current(u) == open[u][Len(open[u])]

-----------------------------------------------------------------------------
(* What a statement does to a table.  One that does not parse, or has too  *)
(* few arguments, is an error and does nothing.                            *)

\* The rows at the places in at, in their order.
Keep(rows, at) ==
    [n \in 1..Cardinality(at) |-> rows[CHOOSE i \in at : Cardinality(at \cap (1..i)) = n]]

Insert(rows, k, id)  == Append(rows, [key |-> k, by |-> id])
Update(rows, k, id)  == [i \in DOMAIN rows |->
                            IF rows[i].key = k THEN [rows[i] EXCEPT !.by = id] ELSE rows[i]]
Delete(rows, k)      == Keep(rows, {i \in DOMAIN rows : rows[i].key # k})
Select(rows, k)      == Keep(rows, {i \in DOMAIN rows : rows[i].key = k})

Results(rows, k, id) == {Insert(rows, k, id), Update(rows, k, id), Delete(rows, k), <<>>}

\* The transaction a goroutine is in, and what its statements work on: the
\* driver in a closure, also in one of a transaction, its snapshot in a host's.
Issuer(u) == IF open[u] = <<>> THEN 0 ELSE Current(u)

Target(u) == IF open[u] # <<>> /\ kinds[Current(u)] = "host" THEN Current(u) ELSE live

\* What Exec could be, were the rows of a snapshot shared with the driver:
\* UPDATE writes them in place.
ExecShared(u) ==
    /\ Len(writers) < MaxStatements
    /\ \E k \in Keys :
         \/ tables' = [tables EXCEPT ![Target(u)] = Insert(@, k, Len(writers) + 1)]
         \/ tables' = [t \in DOMAIN tables |-> Update(tables[t], k, Len(writers) + 1)]
    /\ writers' = Append(writers, Issuer(u))
    /\ UNCHANGED <<kinds, fates, live, open>>

\* DB.exec, MemoryDriver.Exec, memoryTx.Exec.
Exec(u) ==
    /\ Len(writers) < MaxStatements
    /\ \E k \in Keys, t \in {Target(u)} :
         \E rows \in Results(tables[t], k, Len(writers) + 1) :
            tables' = [tables EXCEPT ![t] = rows]
    /\ writers' = Append(writers, Issuer(u))
    /\ UNCHANGED <<kinds, fates, live, open>>

\* DB.query and DB.query_one: all rows, or those with a key; they change nothing.
Rows(u, k) == Select(tables[Target(u)], k)

\* Begin: a deep copy of the driver's tables, for a transaction of that kind.
Begin(u, kind) ==
    /\ Len(tables) < MaxTables
    /\ tables' = Append(tables, tables[live])
    /\ kinds' = Append(kinds, kind)
    /\ fates' = Append(fates, "running")
    /\ open' = [open EXCEPT ![u] = Append(@, Len(tables) + 1)]
    /\ UNCHANGED <<live, writers>>

End(u, fate) ==
    /\ open[u] # <<>>
    /\ open' = [open EXCEPT ![u] = SubSeq(@, 1, Len(@) - 1)]
    /\ fates' = [fates EXCEPT ![Current(u)] = fate]
    /\ UNCHANGED <<tables, kinds, writers>>

\* The closure returned a Result.Ok or a plain value, or the host commits.
Commit(u) == End(u, "committed") /\ live' = Current(u)

\* What Rollback could be: publishing.
RollbackPublishes(u) == End(u, "rolled back") /\ live' = Current(u)

\* The closure returned a Result.Err or panicked, or the host rolls back.
Rollback(u) == End(u, "rolled back") /\ UNCHANGED live

DBNext ==
    \E u \in Users :
        \/ Exec(u) \/ Commit(u) \/ Rollback(u)
        \/ \E kind \in TxKinds : Begin(u, kind)

DBSpec == DBInit /\ [][DBNext]_dbVars
-----------------------------------------------------------------------------
(* Properties. *)

Writer(row) == writers[row.by]

\* What others see of a host's transaction is what it committed.
HostRowsAreCommitted ==
    \A i \in DOMAIN tables[live] :
        LET t == Writer(tables[live][i]) IN
        t # 0 /\ kinds[t] = "host" => fates[t] = "committed"

InHost(u) == open[u] # <<>> /\ kinds[Current(u)] = "host"

\* Inside of its transaction a host reads the same rows again, whatever the
\* others do, until its own next statement.
RepeatableReads ==
    [][\A u \in Users :
        InHost(u) /\ open'[u] = open[u]
            => \/ \A k \in Keys : Rows(u, k)' = Rows(u, k)
               \/ Len(writers') > Len(writers) /\ writers'[Len(writers')] = Current(u)
      ]_dbVars

\* Once a transaction has committed, the rows it has written are there: those
\* which its statements have left where they worked.
CommitKeepsRows(of) ==
    \A u \in Users :
        /\ open[u] # <<>>
        /\ kinds[Current(u)] \in of
        /\ fates[Current(u)] = "running" /\ fates'[Current(u)] = "committed"
        => \A i \in DOMAIN tables[Target(u)] :
              LET row == tables[Target(u)][i] IN
              Writer(row) = Current(u)
                => \E j \in DOMAIN tables'[live'] : tables'[live'][j] = row

\* The host's transactions ...
HostCommits == [][CommitKeepsRows({"host"})]_dbVars

\* A host's transaction is alone with its rows, and its commit keeps them.
HostsAreIsolated == RepeatableReads /\ HostCommits

\* ... and DB.transaction.
TransactionCommits == [][CommitKeepsRows({"closure"})]_dbVars
=============================================================================
