------------------------------ MODULE FileStore ------------------------------
(***************************************************************************)
(* The FS effect: reads, atomic writes (a sibling temporary file renamed   *)
(* over the target), backups, tracked writes, copies and deletes, of       *)
(* concurrent goroutines, system call by system call, with failing calls   *)
(* and crashes of the program.                                             *)
(*                                                                         *)
(* A directory maps names to inodes.  What an inode holds is a number: 0   *)
(* is the empty file, v the content of the v-th write, and -v a part of    *)
(* it.                                                                     *)
(***************************************************************************)
EXTENDS Integers, Sequences

CONSTANTS
    Goroutines,
    Paths,
    MaxWrites,  \* bound: contents ever written
    MaxInodes,  \* bound: files ever created
    MaxCrashes  \* bound: crashes of the program, and failed removals

Bak(f) == <<f, "bak">>
Files  == Paths \cup {Bak(f) : f \in Paths}

\* No path is the backup of another.
ASSUME FileStoreAssumption ==
    /\ Paths # {} /\ \A f \in Paths : Bak(f) \notin Paths
    /\ MaxWrites \in Nat /\ MaxInodes \in Nat /\ MaxCrashes \in Nat

VARIABLES
    dir,        \* the inode of each name, 0 for none
    data,       \* what each inode holds
    temps,      \* the inodes with names of temporary files
    op,         \* per goroutine: the call it is in
    session,    \* the tracker of the open session: the hash of what was read
    shown,      \* what FS.read returned since the session was opened
    copied,     \* the names FS.copy has written to
    writes,
    crashes     \* of the program, and removals of a temporary file that failed

fsVars == <<dir, data, temps, op, session, shown, copied, writes, crashes>>

None   == 0 - MaxWrites - 1
Values == (0 - MaxWrites)..MaxWrites

\* step: the next system call; src, dst: what is copied first, if anything;
\* path and value: what is written then, if anything; file, from: the open files;
\* alone: no other goroutine moved since the call began, of a call that saves
\* the file or must have seen it; always of the others.
Steps == {"idle", "stat", "open", "create", "part", "rest", "temp", "fill", "close", "rename"}

Op == [step : Steps, src : Files, dst : Files, path : Files, value : 0..MaxWrites,
       file : 0..MaxInodes, from : 0..MaxInodes, alone : BOOLEAN,
       backup : BOOLEAN, noOverwrite : BOOLEAN, tracked : BOOLEAN]

FSTypeOK ==
    /\ data \in Seq(Values) /\ Len(data) <= MaxInodes
    /\ dir \in [Files -> 0..Len(data)]
    /\ temps \subseteq DOMAIN data /\ \A f \in Files : dir[f] \notin temps
    /\ op \in [Goroutines -> Op]
    /\ session \in [Paths -> Values \cup {None}] \cup {<<>>}
    /\ shown \subseteq Paths \X Values
    /\ copied \subseteq Paths
    /\ writes \in 0..MaxWrites /\ crashes \in 0..MaxCrashes

NewOp(step, src, dst, path, value) ==
    [step |-> step, src |-> src, dst |-> dst, path |-> path, value |-> value,
     file |-> 0, from |-> 0, alone |-> TRUE,
     backup |-> FALSE, noOverwrite |-> FALSE, tracked |-> FALSE]

Idle == LET f == CHOOSE f \in Paths : TRUE IN NewOp("idle", f, f, f, 0)

FSInit ==
    /\ dir = [f \in Files |-> 0] /\ data = <<>> /\ temps = {}
    /\ op = [g \in Goroutines |-> Idle]
    /\ session = <<>> /\ shown = {} /\ copied = {}
    /\ writes = 0 /\ crashes = 0

Content(f) == data[dir[f]]

Exists(f) == dir[f] # 0

Part(v) == IF v > 0 THEN 0 - v ELSE v

\* Goroutine g goes on with its call as o; the others are no longer alone, where
\* that matters.
Disturbed(o) == [o EXCEPT !.alone = ~o.backup /\ ~o.tracked]

Go(g, o) == op' = [h \in Goroutines |-> IF h = g THEN o ELSE Disturbed(op[h])]

At(g, step) == op[g].step = step

To(g, step) == [op[g] EXCEPT !.step = step]

-----------------------------------------------------------------------------
(* The calls. *)

Bounds == writes < MaxWrites

\* FS.write, FS.write_bytes.
Write(g, f) ==
    /\ At(g, "idle") /\ Bounds
    /\ writes' = writes + 1
    /\ Go(g, NewOp("temp", f, f, f, writes + 1))
    /\ UNCHANGED <<dir, data, temps, session, shown, copied, crashes>>

\* FS.write_with.
WriteWith(g, f) ==
    /\ At(g, "idle") /\ Bounds
    /\ writes' = writes + 1
    /\ \E b, n \in BOOLEAN :
         Go(g, [NewOp("stat", f, Bak(f), f, writes + 1)
                    EXCEPT !.backup = b, !.noOverwrite = n])
    /\ UNCHANGED <<dir, data, temps, session, shown, copied, crashes>>

\* precheckTracked: the file reads as it did in this session.
Unchanged(f) == session # <<>> /\ session[f] # None /\ Exists(f) /\ session[f] = Content(f)

\* What WriteTracked could be: only asking whether the file was read.
WriteTrackedIfRead(g, f) ==
    /\ At(g, "idle") /\ Bounds
    /\ session # <<>> /\ session[f] # None /\ Exists(f)
    /\ writes' = writes + 1
    /\ \E b, n \in BOOLEAN, step \in {"temp", "stat"} :
         Go(g, [NewOp(step, f, Bak(f), f, writes + 1)
                    EXCEPT !.backup = b, !.noOverwrite = n, !.tracked = TRUE])
    /\ UNCHANGED <<dir, data, temps, session, shown, copied, crashes>>

\* FS.write_tracked and FS.write_tracked_with; what it writes is not recorded.
WriteTracked(g, f) ==
    /\ At(g, "idle") /\ Bounds
    /\ Unchanged(f)
    /\ writes' = writes + 1
    /\ \/ Go(g, [NewOp("temp", f, f, f, writes + 1) EXCEPT !.tracked = TRUE])
       \/ \E b, n \in BOOLEAN :
            Go(g, [NewOp("stat", f, Bak(f), f, writes + 1)
                    EXCEPT !.backup = b, !.noOverwrite = n, !.tracked = TRUE])
    /\ UNCHANGED <<dir, data, temps, session, shown, copied, crashes>>

\* FS.copy, of a file onto itself too.
Copy(g, f, to) ==
    /\ At(g, "idle") /\ Exists(f)
    /\ Go(g, NewOp("open", f, to, f, 0))
    /\ copied' = copied \cup {to}
    /\ UNCHANGED <<dir, data, temps, session, shown, writes, crashes>>

\* FS.read, FS.read_bytes: in a session, the hash is recorded.
Read(g, f) ==
    /\ At(g, "idle") /\ Exists(f)
    /\ session' = IF session = <<>> THEN session ELSE [session EXCEPT ![f] = Content(f)]
    /\ shown' = IF session = <<>> THEN shown ELSE shown \cup {<<f, Content(f)>>}
    /\ UNCHANGED <<dir, data, temps, op, copied, writes, crashes>>

\* FS.delete.
RemoveFile(g, f) ==
    /\ At(g, "idle") /\ Exists(f)
    /\ dir' = [dir EXCEPT ![f] = 0]
    /\ Go(g, op[g])
    /\ UNCHANGED <<data, temps, session, shown, copied, writes, crashes>>

\* FS.with_session begins and ends.
OpenSession ==
    /\ session = <<>>
    /\ session' = [f \in Paths |-> None]
    /\ op' = [g \in Goroutines |-> Disturbed(op[g])]
    /\ UNCHANGED <<dir, data, temps, shown, copied, writes, crashes>>

CloseSession ==
    /\ session # <<>>
    /\ session' = <<>> /\ shown' = {}
    /\ op' = [g \in Goroutines |-> Disturbed(op[g])]
    /\ UNCHANGED <<dir, data, temps, copied, writes, crashes>>

-----------------------------------------------------------------------------
(* Their system calls. *)

CallsSame == UNCHANGED <<session, shown, copied, writes, crashes>>

\* write_with: fileExists(path) decides on fs_exists and on the backup.
Stat(g) ==
    /\ At(g, "stat")
    /\ LET o == op[g] IN
       Go(g, IF o.noOverwrite /\ Exists(o.path) THEN Idle
             ELSE IF o.backup /\ Exists(o.path) THEN To(g, "open")
             ELSE To(g, "temp"))
    /\ UNCHANGED <<dir, data, temps>> /\ CallsSame

\* copyFile: open the source,
Open(g) ==
    /\ At(g, "open")
    /\ LET o == op[g] IN
       Go(g, IF Exists(o.src) THEN [To(g, "create") EXCEPT !.from = dir[o.src]] ELSE Idle)
    /\ UNCHANGED <<dir, data, temps>> /\ CallsSame

\* create or truncate the destination, that may be the source,
Create(g) ==
    /\ At(g, "create")
    /\ LET to == op[g].dst IN
       IF Exists(to)
       THEN /\ data' = [data EXCEPT ![dir[to]] = 0]
            /\ UNCHANGED dir
            /\ Go(g, [To(g, "part") EXCEPT !.file = dir[to]])
       ELSE /\ Len(data) < MaxInodes
            /\ data' = Append(data, 0)
            /\ dir' = [dir EXCEPT ![to] = Len(data) + 1]
            /\ Go(g, [To(g, "part") EXCEPT !.file = Len(data) + 1])
    /\ UNCHANGED temps /\ CallsSame

\* and copy what the source holds, a part of it or all.
CopyPart(g) ==
    /\ At(g, "part")
    /\ data' = [data EXCEPT ![op[g].file] = Part(data[op[g].from])]
    /\ Go(g, To(g, "rest"))
    /\ UNCHANGED <<dir, temps>> /\ CallsSame

CopyRest(g) ==
    /\ At(g, "rest")
    /\ data' = [data EXCEPT ![op[g].file] = data[op[g].from]]
    /\ Go(g, IF op[g].backup THEN To(g, "temp") ELSE Idle)
    /\ UNCHANGED <<dir, temps>> /\ CallsSame

\* What CreateTemp could be: writing in place, and the rename a formality.
OpenInPlace(g) ==
    /\ At(g, "temp")
    /\ Len(data) < MaxInodes
    /\ data' = Append(data, 0)
    /\ dir' = [dir EXCEPT ![op[g].path] = Len(data) + 1]
    /\ Go(g, [To(g, "fill") EXCEPT !.file = Len(data) + 1])
    /\ UNCHANGED temps /\ CallsSame

\* atomicWrite: create a temporary file of its own,
CreateTemp(g) ==
    /\ At(g, "temp")
    /\ Len(data) < MaxInodes
    /\ data' = Append(data, 0)
    /\ temps' = temps \cup {Len(data) + 1}
    /\ Go(g, [To(g, "fill") EXCEPT !.file = Len(data) + 1])
    /\ UNCHANGED dir /\ CallsSame

\* write to it, in parts,
FillPart(g) ==
    /\ At(g, "fill")
    /\ data' = [data EXCEPT ![op[g].file] = Part(op[g].value)]
    /\ Go(g, To(g, "close"))
    /\ UNCHANGED <<dir, temps>> /\ CallsSame

Fill(g) ==
    /\ At(g, "close")
    /\ data' = [data EXCEPT ![op[g].file] = op[g].value]
    /\ Go(g, To(g, "rename"))
    /\ UNCHANGED <<dir, temps>> /\ CallsSame

\* and rename it.
Rename(g) ==
    /\ At(g, "rename")
    /\ dir' = [dir EXCEPT ![op[g].path] = op[g].file]
    /\ temps' = temps \ {op[g].file}
    /\ Go(g, Idle)
    /\ UNCHANGED data /\ CallsSame

\* A system call fails: the call ends, and removes its temporary file.
Fail(g) ==
    /\ ~At(g, "idle") /\ ~At(g, "stat")
    /\ temps' = temps \ (IF op[g].step \in {"fill", "close", "rename"} THEN {op[g].file} ELSE {})
    /\ Go(g, Idle)
    /\ UNCHANGED <<dir, data>> /\ CallsSame

\* And os.Remove fails too, which nobody looks at.
FailLeaving(g) ==
    /\ op[g].step \in {"fill", "close", "rename"} /\ crashes < MaxCrashes
    /\ crashes' = crashes + 1
    /\ Go(g, Idle)
    /\ UNCHANGED <<dir, data, temps, session, shown, copied, writes>>

\* The program is killed, and started again.
Crash ==
    /\ crashes < MaxCrashes
    /\ crashes' = crashes + 1
    /\ op' = [g \in Goroutines |-> Idle]
    /\ session' = <<>> /\ shown' = {}
    /\ UNCHANGED <<dir, data, temps, copied, writes>>

-----------------------------------------------------------------------------
FSStep(g) ==
    \/ \E f \in Paths :
        \/ Write(g, f) \/ WriteWith(g, f) \/ WriteTracked(g, f)
        \/ Read(g, f) \/ RemoveFile(g, f)
        \/ \E to \in Paths : Copy(g, f, to)
    \/ Stat(g) \/ Open(g) \/ Create(g) \/ CopyPart(g) \/ CopyRest(g)
    \/ CreateTemp(g) \/ FillPart(g) \/ Fill(g) \/ Rename(g)
    \/ Fail(g) \/ FailLeaving(g)

FSNext == (\E g \in Goroutines : FSStep(g)) \/ OpenSession \/ CloseSession \/ Crash

FSSpec == FSInit /\ [][FSNext]_fsVars
-----------------------------------------------------------------------------
(* Properties. *)

\* Whoever opens a file that no FS.copy wrote to finds the whole content of
\* one write, at any moment, after failures and crashes too.
WritesAreAtomic == \A f \in Paths \ copied : Exists(f) => Content(f) > 0

\* Only a crash, or a removal that failed, leaves temporary files behind.
TempsAreRemoved ==
    crashes = 0 => temps \subseteq {op[g].file : g \in {h \in Goroutines : ~At(h, "idle")}}

\* A write happens as a whole or not at all.
WritesAreWhole == WritesAreAtomic /\ TempsAreRemoved

Renames(g) == At(g, "rename") /\ op'[g].step = "idle" /\ dir' # dir

\* A write that asked for it replaces a file only when its backup holds what
\* is replaced, provided nobody else used the file system in between.
BackupHoldsReplaced ==
    [][\A g \in Goroutines :
        Renames(g) /\ op[g].alone /\ op[g].backup /\ Exists(op[g].path)
            => Exists(Bak(op[g].path)) /\ Content(Bak(op[g].path)) = Content(op[g].path)
      ]_fsVars

\* A tracked write replaces, under the same proviso, what the program has read
\* in the session, and never anything it has not seen.
TrackedReplacesRead ==
    [][\A g \in Goroutines :
        Renames(g) /\ op[g].alone /\ op[g].tracked /\ session # <<>>
            => Exists(op[g].path) /\ <<op[g].path, Content(op[g].path)>> \in shown
      ]_fsVars

\* Undisturbed, no content is replaced that was not saved, or not seen, when
\* the caller asked for that.
NothingReplacedUnseen == BackupHoldsReplaced /\ TrackedReplacesRead
=============================================================================
