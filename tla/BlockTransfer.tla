---------------------------- MODULE BlockTransfer ----------------------------
(***************************************************************************)
(* One file at the level of its bytes: the device that has it splits it    *)
(* into blocks for an Index (sync_directory.rs, gen_blocks), the other one *)
(* asks for them one after the other (mod.rs, get_file), the first reads   *)
(* them off its disk (handlers.rs, handle_request) while a user may change *)
(* the file, and the second writes them over the copy that it has.         *)
(*                                                                         *)
(* A byte is a pair of the edit that wrote it and its position, and a hash *)
(* is the bytes it was made from.  Lengths have the widths of the code,    *)
(* scaled: u32 and i32 have U32 values (2^32); u64, i64 and usize do not   *)
(* overflow.                                                               *)
(***************************************************************************)
EXTENDS Integers, Sequences, FiniteSetsExt

CONSTANTS U32,       \* how many values u32 and i32 have
          Tiers,     \* get_blocksize: files shorter than .below have .block
          Largest,   \* the block size of all longer files
          Sizes,     \* lengths of the file
          Shrinks,   \* whether a change may make the file shorter
          MaxChanges \* how often the file is changed

ASSUME BlockAssumption ==
    /\ U32 \in Nat \ {0} /\ U32 % 2 = 0
    /\ Tiers \in Seq([below : Nat, block : Nat \ {0}])
    /\ Largest \in Nat \ {0}
    /\ Sizes \subseteq Nat /\ Shrinks \in BOOLEAN /\ MaxChanges \in Nat

VARIABLES source,   \* the bytes of the file
          copy,     \* the bytes of the copy
          index,    \* the blocks of the file as the last Index has them
          meant,    \* the bytes that index was made from
          at,       \* get_file: the block that is asked for; 0 when not running
          answer,   \* get_file: the Response that has arrived, if any
          ended,    \* how the last get_file ended
          synced,   \* the row of the copy has the version of index as synced
          changes

bvars == <<source, copy, index, meant, at, answer, ended, synced, changes>>

I32Max == U32 \div 2 - 1

Bytes(edit, n) == [i \in 1..n |-> <<edit, i>>]
Slice(bytes, offset, n) == SubSeq(bytes, offset + 1, offset + n)
-----------------------------------------------------------------------------
(***************************************************************************)
(* gen_blocks.                                                             *)
(***************************************************************************)

\* `as u32` and `as i32` of a length.
AsU32(n) == n % U32
AsI32(n) == IF n > I32Max THEN n - U32 ELSE n

\* SyncFile::get_blocksize.
BlockSize(n) ==
    LET fits == {k \in 1..Len(Tiers) : n < Tiers[k].below}
    IN  IF fits = {} THEN Largest ELSE Tiers[Min(fits)].block

\* The remainder of the code rounds towards zero and has the sign of n.
Rem(n, b) == IF n < 0 THEN -((-n) % b) ELSE n % b

\* div_ceil.
NumBlocks(n) == (n + BlockSize(n) - 1) \div BlockSize(n)

\* Without blocks num_blocks - 1 is below zero: a build that checks panics, one
\* that wraps reads on until the end of the file and fails.  Full blocks are
\* read one by one, the last one is whatever remains.
CanSplit(bytes) == NumBlocks(AsU32(Len(bytes))) > 0

\* Faulty variant: the last block starts where it would end.
GenBlocksPastLast(bytes) ==
    LET len == AsU32(Len(bytes))
        b   == BlockSize(len)
        n   == NumBlocks(len)
    IN  [k \in 1..n |->
            IF k < n THEN [offset |-> b * (k - 1), size |-> b,
                           hash |-> Slice(bytes, b * (k - 1), b)]
            ELSE [offset |-> b * n, size |-> Rem(AsI32(len), b),
                  hash |-> SubSeq(bytes, b * (n - 1) + 1, Len(bytes))]]

GenBlocks(bytes) ==
    LET len == AsU32(Len(bytes))
        b   == BlockSize(len)
        n   == NumBlocks(len)
    IN  [k \in 1..n |->
            IF k < n THEN [offset |-> b * (k - 1), size |-> b,
                           hash |-> Slice(bytes, b * (k - 1), b)]
            ELSE [offset |-> b * (n - 1), size |-> Rem(AsI32(len), b),
                  hash |-> SubSeq(bytes, b * (n - 1) + 1, Len(bytes))]]
-----------------------------------------------------------------------------
(***************************************************************************)
(* The storage backend.                                                    *)
(***************************************************************************)

\* Faulty variant: write_block does not seek.
WriteAtStart(bytes, offset, data) ==
    [i \in 1..Max({Len(bytes), Len(data)}) |->
        IF i <= Len(data) THEN data[i] ELSE bytes[i]]

\* LocalStorageBackend::write_block.  The file is never truncated; the blocks
\* of a file come in order, so there is no gap before an offset.
WriteBytes(bytes, offset, data) ==
    [i \in 1..Max({Len(bytes), offset + Len(data)}) |->
        IF i \in (offset + 1)..(offset + Len(data)) THEN data[i - offset]
        ELSE bytes[i]]

\* LocalStorageBackend::read_block: read_exact fails on a file that is too
\* short, and the file has to be there.
CanRead(bytes, offset, n) == bytes # <<>> /\ offset + n <= Len(bytes)
-----------------------------------------------------------------------------
BInit == /\ source \in {Bytes(1, n) : n \in Sizes}
         /\ copy = <<>>
         /\ index = <<>> /\ meant = <<>>
         /\ at = 0 /\ answer = <<>> /\ ended = "never"
         /\ synced = FALSE
         /\ changes = 0

\* A user writes the file anew, or writes more to its end.
Change == /\ changes < MaxChanges
          /\ changes' = changes + 1
          /\ \E n \in Sizes :
                \/ /\ n >= Len(source) \/ Shrinks
                   /\ source' = Bytes(changes + 2, n)
                \/ source' = source \o Bytes(changes + 2, n)
          /\ UNCHANGED <<copy, index, meant, at, answer, ended, synced>>

\* A scan has recorded a change, send_index splits the file as it is now and
\* handle_index stores the blocks with a version that is not synced yet.  An
\* Index that comes while a download is under way is a matter of FolderSync.
Announce == /\ at = 0
            /\ source # meant
            /\ CanSplit(source)
            /\ index' = GenBlocks(source)
            /\ meant' = source
            /\ synced' = FALSE
            /\ ended' = "never"
            /\ UNCHANGED <<source, copy, at, answer, changes>>

\* gen_blocks panics or fails in the scan, and nothing is announced.
AnnounceFails == /\ at = 0
                 /\ source # meant \/ source = <<>>
                 /\ ~CanSplit(source)
                 /\ ended' = "unsplit"
                 /\ UNCHANGED <<source, copy, index, meant, at, answer, synced, changes>>

\* Faulty variant: the row is stored before the first block is there.
StartGetFileSynced == /\ at = 0 /\ index # <<>>
                      /\ copy = <<>> \/ ~synced
                      /\ at' = 1
                      /\ synced' = TRUE
                      /\ UNCHANGED <<source, copy, index, meant, answer, ended, changes>>

\* get_directory wants the file when it is not there or not synced, and asks for
\* its first block.  It may do so again after it has failed.
StartGetFile == /\ at = 0 /\ index # <<>>
                /\ copy = <<>> \/ ~synced
                /\ at' = 1
                /\ UNCHANGED <<source, copy, index, meant, answer, ended, synced, changes>>

\* handle_request.  A size below zero is a length of almost 2^64 `as usize`: the
\* allocation panics and no Response is sent.
Answer == /\ at # 0 /\ answer = <<>>
          /\ LET b == index[at]
             IN /\ b.size >= 0
                /\ answer' =
                     IF ~CanRead(source, b.offset, b.size)
                     THEN <<[code |-> "NoSuchFile", data |-> <<>>]>>
                     ELSE LET data == Slice(source, b.offset, b.size)
                          IN <<[code |-> IF data # b.hash THEN "InvalidFile"
                                         ELSE "NoError",
                                data |-> data]>>
          /\ UNCHANGED <<source, copy, index, meant, at, ended, synced, changes>>

\* get_file after a Response: errors end it, a block is compared with its hash
\* and written, and the row is stored with the version as synced after each.
GotBlock == /\ at # 0 /\ answer # <<>>
            /\ answer' = <<>>
            /\ LET a == answer[1]
                   good == a.code = "NoError" /\ a.data = index[at].hash
               IN IF good
                  THEN /\ copy' = WriteBytes(copy, index[at].offset, a.data)
                       /\ synced' = TRUE
                       /\ at' = IF at = Len(index) THEN 0 ELSE at + 1
                       /\ ended' = IF at = Len(index) THEN "Ok" ELSE ended
                  ELSE /\ at' = 0
                       /\ ended' = "Err"
                       /\ UNCHANGED <<copy, synced>>
            /\ UNCHANGED <<source, index, meant, changes>>

BNext == \/ Change \/ Announce \/ AnnounceFails
         \/ StartGetFile \/ Answer \/ GotBlock

BSpec == BInit /\ [][BNext]_bvars
-----------------------------------------------------------------------------
\* A get_file that returns Ok has left the bytes that were announced, whatever
\* was on the disk and however often the file was changed while its blocks were
\* read (mod.rs:257).
CopyIsExact == ended = "Ok" => copy = meant

\* The lengths that gen_blocks can express (sync_directory.rs:178): not empty,
\* below 2^31, and no multiple of their block size.
Expressible(n) == /\ n > 0
                  /\ n <= I32Max
                  /\ n % BlockSize(n) # 0

\* No download fails of a file with such a length while nobody changes it: its
\* blocks lie next to each other, cover it, and can be read.
ExpressibleSizesSync ==
    (changes = 0 /\ Expressible(Len(source))) => ended \notin {"Err", "unsplit"}

\* Once the version is recorded as synced (mod.rs:278), the first block is there
\* for good, and with it all of a file that has no more, whatever fails later.
\* Of longer files the rest may be missing, and is not fetched again.
SyncedHasFirstBlock ==
    synced => /\ Len(copy) >= Len(index[1].hash)
              /\ Slice(copy, 0, Len(index[1].hash)) = index[1].hash
              /\ Len(index) = 1 => copy = meant
=============================================================================
