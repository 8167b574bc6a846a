------------------------------ MODULE SyncFiles ------------------------------
(***************************************************************************)
(* The tables sync_files, sync_file_versions and sync_file_blocks of one   *)
(* folder (bep_state.rs), the rows that are read from and written to them  *)
(* (sync_directory.rs, SyncFile), and the two ways in which the content of *)
(* a file is turned into hashes.                                           *)
(*                                                                         *)
(* A table is a sequence of rows.  Rows are never deleted and ids are      *)
(* handed out in order, so the position of a row is its id.  A content is  *)
(* the sequence of its blocks; the empty sequence is a file that does not  *)
(* exist.  SHA-256 is taken to be free of collisions: the hash of some     *)
(* bytes is those bytes.  The hash of a file that has one block is then    *)
(* equal to the hash of that block, and the hash of a longer file is       *)
(* different from the hash of each of its blocks.                          *)
(***************************************************************************)
EXTENDS Naturals, Sequences

CONSTANTS Device,  \* the devices; a device stands for its 64-bit short id
          Name,    \* the names of files in the folder
          Block,   \* the values of a block
          Zero     \* the block that reads as zeros

ASSUME ZeroAssumption == Zero \in Block

Content == Seq(Block)
Absent  == <<>>

\* sync_directory.rs, SyncFile::versions: author and counter.
Version == [user : Device, val : Nat]

\* sync_directory.rs, SyncBlock.  Offsets count blocks: all blocks of a file
\* but the last have one size, and an offset is a multiple of it.
SyncBlock == [offset : Nat, hash : Content]

\* sync_directory.rs, SyncFile, without what no decision reads.
File == [name : Name, hash : Content, synced : Nat,
         versions : Seq(Version), blocks : Seq(SyncBlock)]

\* FileInfo of an Index message: name, version counters and block list.
FileInfo == [name : Name, versions : Seq(Version), blocks : Seq(SyncBlock)]
-----------------------------------------------------------------------------
\* SyncFile::get_index_version: the counter of the last version.
IndexVersion(f) == IF f.versions = <<>> THEN 1
                   ELSE f.versions[Len(f.versions)].val

\* The hash of a whole file (generate_index) and of one block (gen_blocks).
FileHash(c)  == c
BlockHash(b) == <<b>>

\* Faulty variant: the block after the loop over the full blocks is missing.
GenBlocksWithoutLast(c) ==
    [k \in 1..(Len(c) - 1) |-> [offset |-> k - 1, hash |-> BlockHash(c[k])]]

\* SyncFile::gen_blocks: one entry per block of the file on disk.
GenBlocks(c) ==
    [k \in 1..Len(c) |-> [offset |-> k - 1, hash |-> BlockHash(c[k])]]

\* The id of the first row for a name, as iter().find() returns it; 0 if none.
HasRow(rows, n)  == \E i \in 1..Len(rows) : rows[i].name = n
FindFile(rows, n) ==
    IF HasRow(rows, n)
    THEN CHOOSE i \in 1..Len(rows) :
            /\ rows[i].name = n
            /\ \A j \in 1..(i - 1) : rows[j].name # n
    ELSE 0

\* Faulty variant: < in place of <=.
VersionsFitStrictly(rows, id, f) ==
    id # 0 => Len(rows[id].versions) < Len(f.versions)

\* The assertion in the middle of update_sync_file: the caller's list of
\* versions is at least as long as the stored one.
VersionsFit(rows, id, f) ==
    id # 0 => Len(rows[id].versions) <= Len(f.versions)

\* Faulty variants: all of the caller's versions are inserted, not only those
\* that are missing; the caller's versions replace the stored ones.
MergeInsertsAll(old, new) == old \o new
MergeReplaces(old, new)   == new

\* The stored versions, followed by the caller's from there on.
MergeVersions(old, new) ==
    [i \in 1..Len(new) |-> IF i <= Len(old) THEN old[i] ELSE new[i]]

\* BepState::update_sync_file.  Without an id the row is inserted.  With one,
\* the columns of sync_files are overwritten first; only then is the assertion
\* tested, and when it fails versions and blocks stay as they were.
UpdateSyncFile(rows, id, f) ==
    IF id = 0
    THEN Append(rows, f)
    ELSE [rows EXCEPT ![id] =
            [name     |-> f.name,
             hash     |-> f.hash,
             synced   |-> f.synced,
             versions |-> IF VersionsFit(rows, id, f)
                          THEN MergeVersions(@.versions, f.versions)
                          ELSE @.versions,
             blocks   |-> IF VersionsFit(rows, id, f) /\ f.blocks # <<>>
                          THEN f.blocks
                          ELSE @.blocks]]
-----------------------------------------------------------------------------
(***************************************************************************)
(* The same update as the statements it is made of.                        *)
(***************************************************************************)

\* The columns of f in sync_files, with these versions and these blocks.
Stored(f, vs, bs) == [name |-> f.name, hash |-> f.hash, synced |-> f.synced,
                      versions |-> vs, blocks |-> bs]

\* update_sync_file up to its first statement, the columns of sync_files.
Columns(rows, id, f) ==
    IF id = 0 THEN Append(rows, Stored(f, <<>>, <<>>))
    ELSE [rows EXCEPT ![id] = Stored(f, @.versions, @.blocks)]

\* `inserted`: the id that the first statement returns.
RowId(rows, id) == IF id = 0 THEN Len(rows) + 1 ELSE id

\* Statements on the row k: the versions that are missing, and the blocks.
AddVersions(rows, k, vs) ==
    [rows EXCEPT ![k] = Stored(@, MergeVersions(@.versions, vs), @.blocks)]
SetBlocks(rows, k, bs) ==
    [rows EXCEPT ![k] = Stored(@, @.versions, bs)]

\* update_sync_file up to its second statement, and up to its third: blocks are
\* deleted before they are inserted.
WithVersions(rows, id, f) ==
    AddVersions(Columns(rows, id, f), RowId(rows, id), f.versions)
WithoutBlocks(rows, id, f) ==
    SetBlocks(WithVersions(rows, id, f), RowId(rows, id), <<>>)

\* What may be left of an update when the process ends.
Torn(rows, id, f) ==
    {rows, Columns(rows, id, f)} \cup
    (IF VersionsFit(rows, id, f)
     THEN {WithVersions(rows, id, f), WithoutBlocks(rows, id, f)}
     ELSE {})
-----------------------------------------------------------------------------
\* Faulty variant: a block is put at the end of the file.
WriteBlockAtEnd(c, offset, b) == Append(c, b)

\* LocalStorageBackend::write_block: the file is created when it is missing,
\* never truncated, and a gap before the offset reads as zeros.
WriteBlock(c, offset, b) ==
    [i \in 1..(IF offset + 1 > Len(c) THEN offset + 1 ELSE Len(c)) |->
        IF i = offset + 1 THEN b ELSE IF i <= Len(c) THEN c[i] ELSE Zero]

\* LocalStorageBackend::read_block fails on a missing or too short file.
CanReadBlock(c, offset) == offset < Len(c)
ReadBlock(c, offset)    == c[offset + 1]
-----------------------------------------------------------------------------
(***************************************************************************)
(* What is true of every row, at rest, in a snapshot or in an Index.       *)
(***************************************************************************)

\* A history is the list of the counters 0, 1, 2, ...
Consecutive(vs) == vs # <<>> /\ \A i \in 1..Len(vs) : vs[i].val = i - 1

\* A row has a history, does not claim to have synced more than that, and has
\* the blocks that a download needs.
RowOK(f) == /\ f \in File
            /\ Consecutive(f.versions)
            /\ f.synced < Len(f.versions)
            /\ f.blocks # <<>>

InfoOK(f) == f \in FileInfo /\ Consecutive(f.versions) /\ f.blocks # <<>>

RowsOK(rows) == rows \in Seq(File) /\ \A i \in 1..Len(rows) : RowOK(rows[i])
InfosOK(msg) == msg \in Seq(FileInfo) /\ \A i \in 1..Len(msg) : InfoOK(msg[i])

\* The ids of a snapshot are still the ids of the same files in the table.
SnapOf(snap, rows) ==
    /\ RowsOK(snap)
    /\ Len(snap) <= Len(rows)
    /\ \A i \in 1..Len(snap) : snap[i].name = rows[i].name

\* A table after an update: no row is gone or renamed, no history is shorter or
\* different where it was.
Extends(rows, new) ==
    /\ Len(rows) <= Len(new)
    /\ \A i \in 1..Len(rows) :
          /\ new[i].name = rows[i].name
          /\ Len(rows[i].versions) <= Len(new[i].versions)
          /\ \A k \in 1..Len(rows[i].versions) :
                new[i].versions[k] = rows[i].versions[k]
=============================================================================
