----------------------------- MODULE TableStore -----------------------------
(***************************************************************************)
(* update_sync_file and get_sync_files, statement by statement, with the   *)
(* end of the process between any two statements.  The lock of the state   *)
(* (BepStateRef) is held from the first statement to the last; there is no *)
(* transaction.                                                            *)
(*                                                                         *)
(* A row of `rows` is what the tables sync_files, sync_file_versions and   *)
(* sync_file_blocks have for one sync_file_id.                             *)
(***************************************************************************)
EXTENDS SyncFiles, FiniteSets

CONSTANTS Caller,     \* the tasks that read and update the table
          Row,        \* the rows they store
          MaxRows,    \* bounds the rows
          MaxCrashes  \* bounds the ends of the process

ASSUME RowAssumption ==
    Row \subseteq File /\ \A f \in Row : f.versions # <<>> /\ f.blocks # <<>>

ASSUME StoreBoundAssumption == MaxRows \in Nat /\ MaxCrashes \in Nat

VARIABLES rows,    \* the three tables
          seen,    \* seen[c]: what c has read last, if it has read
          at,      \* the next statement of the update that holds the lock
          call,    \* its arguments; empty when the lock is free
          before,  \* history: the rows when the lock was taken, while it is
          crashes  \* number of ends of the process

vars == <<rows, seen, at, call, before, crashes>>

Call == [id : Nat, row : Row]

TypeOK ==
    /\ rows \in Seq(File) /\ before \in Seq(File)
    /\ seen \in [Caller -> Seq(Seq(File))]
    /\ at \in {"idle", "columns", "count", "versions", "delete", "insert"}
    /\ call \in Seq(Call) /\ (call = <<>>) = (at = "idle")
    /\ crashes \in Nat

\* Every row of snap is the row of the same file in table.
SameFiles(snap, table) ==
    /\ Len(snap) <= Len(table)
    /\ \A i \in 1..Len(snap) : snap[i].name = table[i].name

Init ==
    /\ rows = <<>> /\ before = <<>> /\ at = "idle" /\ call = <<>>
    /\ seen = [c \in Caller |-> <<>>] /\ crashes = 0
-----------------------------------------------------------------------------
\* get_sync_files waits for the lock and reads all rows.  One without versions
\* fails an assertion, and the task that reads ends there.
GetSyncFiles(c) ==
    /\ call = <<>>
    /\ \A i \in 1..Len(rows) : rows[i].versions # <<>>
    /\ seen' = [seen EXCEPT ![c] = <<rows>>]
    /\ UNCHANGED <<rows, at, call, before, crashes>>

\* A task that has read the table, however long ago, calls update_sync_file: for
\* a file that was not there, or with at least the versions it had then.
UpdateSyncFileBegin(c, f) ==
    /\ call = <<>> /\ seen[c] # <<>>
    /\ LET id == FindFile(seen[c][1], f.name)
       IN  /\ id = 0 => Len(rows) < MaxRows
           /\ id # 0 => Len(seen[c][1][id].versions) <= Len(f.versions)
           /\ call' = <<[id |-> id, row |-> f]>>
    /\ at' = "columns" /\ before' = rows
    /\ UNCHANGED <<rows, seen, crashes>>

Args     == call[1]
Inserted == RowId(before, Args.id)
Now      == rows[Inserted]

\* The update gives the lock back.
Release == at' = "idle" /\ call' = <<>> /\ before' = <<>>

UpsertColumns ==
    /\ at = "columns" /\ at' = "count"
    /\ rows' = Columns(rows, Args.id, Args.row)
    /\ UNCHANGED <<seen, call, before, crashes>>

\* Faulty variant: the task that ends keeps the lock.
CountVersionsLocked ==
    /\ at = "count"
    /\ at' = IF Len(Now.versions) <= Len(Args.row.versions) THEN "versions" ELSE "idle"
    /\ UNCHANGED <<rows, seen, call, before, crashes>>

\* The assertion on the number of versions; when it fails, the task ends, and
\* the lock is free: it is not poisoned.
CountVersions ==
    /\ at = "count"
    /\ IF Len(Now.versions) <= Len(Args.row.versions)
       THEN at' = "versions" /\ UNCHANGED <<call, before>>
       ELSE Release
    /\ UNCHANGED <<rows, seen, crashes>>

\* Faulty variant: the versions are replaced in two statements, as the blocks are.
InsertVersionsAnew ==
    /\ at = "versions"
    /\ IF Now.versions # <<>>
       THEN at' = at /\ rows' = [rows EXCEPT ![Inserted].versions = <<>>]
       ELSE /\ at' = "delete"
            /\ rows' = [rows EXCEPT ![Inserted].versions = Args.row.versions]
    /\ UNCHANGED <<seen, call, before, crashes>>

InsertVersions ==
    /\ at = "versions" /\ at' = "delete"
    /\ rows' = AddVersions(rows, Inserted, Args.row.versions)
    /\ UNCHANGED <<seen, call, before, crashes>>

\* Faulty variant: the new blocks are forgotten.
DeleteBlocksOnly ==
    /\ at = "delete" /\ Release
    /\ rows' = SetBlocks(rows, Inserted, <<>>)
    /\ UNCHANGED <<seen, crashes>>

DeleteBlocks ==
    /\ at = "delete" /\ at' = "insert"
    /\ rows' = SetBlocks(rows, Inserted, <<>>)
    /\ UNCHANGED <<seen, call, before, crashes>>

\* Faulty variant: one block, where the list of blocks has to be inserted.
InsertFirstBlock ==
    /\ at = "insert" /\ Release
    /\ rows' = SetBlocks(rows, Inserted, SubSeq(Args.row.blocks, 1, 1))
    /\ UNCHANGED <<seen, crashes>>

InsertBlocks ==
    /\ at = "insert" /\ Release
    /\ rows' = SetBlocks(rows, Inserted, Args.row.blocks)
    /\ UNCHANGED <<seen, crashes>>

\* The process ends and is started again: the file of the database is all that
\* is left.
Crash ==
    /\ crashes < MaxCrashes /\ crashes' = crashes + 1
    /\ Release
    /\ seen' = [c \in Caller |-> <<>>]
    /\ UNCHANGED rows

Next ==
    \/ \E c \in Caller : GetSyncFiles(c)
    \/ \E c \in Caller, f \in Row : UpdateSyncFileBegin(c, f)
    \/ UpsertColumns \/ CountVersions \/ InsertVersions
    \/ DeleteBlocks \/ InsertBlocks
    \/ Crash

Spec == Init /\ [][Next]_vars
-----------------------------------------------------------------------------
(***************************************************************************)
(* Properties.                                                             *)
(***************************************************************************)

\* The table as everyone but the update that holds the lock sees it.
Table == IF call = <<>> THEN rows ELSE before

\* Everyone else sees the table in one step from what it was to what the update
\* makes of it, or, after a crash, to one of the torn tables; what they read is
\* never in between.
Seen == INSTANCE FileTable WITH table <- Table
ReadsAreAtomic == Seen!Spec

\* What an update has made of the table before its next statement.
Made(id, f) ==
    CASE at = "columns"  -> before
      [] at = "count"    -> Columns(before, id, f)
      [] at = "versions" -> Columns(before, id, f)
      [] at = "delete"   -> WithVersions(before, id, f)
      [] at = "insert"   -> WithoutBlocks(before, id, f)

\* The ids in what a task has read, however long ago, are the ids of the same
\* files in the table.
SeenValid == \A c \in Caller : seen[c] # <<>> => SameFiles(seen[c][1], Table)

\* The update that holds the lock writes to the row of its file or to a new one,
\* has come as far as its next statement says, and is past the assertion when it
\* writes versions and blocks.
UpdateOnCourse ==
    call # <<>> =>
        /\ Args.id \in 0..Len(before)
        /\ Args.id # 0 => before[Args.id].name = Args.row.name
        /\ rows = Made(Args.id, Args.row)
        /\ at \in {"versions", "delete", "insert"} =>
              VersionsFit(before, Args.id, Args.row)

\* What a task has read stays valid for the update it makes later, and that
\* update stays on course whoever ran before it.
StoreInv == SeenValid /\ UpdateOnCourse

\* No statement, and no end of the process between two of them, removes a row or
\* takes a version from a history: what a device has recorded stays recorded.
HistorySurvives == [][Extends(rows, rows')]_vars

\* An incomplete row has no versions yet or no blocks any more.
Incomplete == {i \in 1..Len(rows) : rows[i].versions = <<>> \/ rows[i].blocks = <<>>}

\* Only the end of the process leaves incomplete rows, and only one each time:
\* an update that fails its assertion leaves none, and a later update of a row
\* that has lost its blocks makes it complete again.
OneTornRowPerCrash == call = <<>> => Cardinality(Incomplete) <= crashes
=============================================================================
