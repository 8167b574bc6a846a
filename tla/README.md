# bep-rs in TLA+

A specification of [bep-rs](../src/README.md), an implementation of the Block
Exchange Protocol: what its tasks do to the database, to the disk and to each
other, checked with TLC on small instances and proved with TLAPS where a proof
is within reach. Line numbers below are those of `src/src/`.

## 1. The system

| Part | State | Operations | Module |
| --- | --- | --- | --- |
| Folder tables (`bep_state.rs`, `bep_state_reference.rs`) | `sync_files`, `sync_file_versions`, `sync_file_blocks` in SQLite, behind one mutex | `get_sync_files`, `update_sync_file` | `SyncFiles`, `FileTable`, `TableStore` |
| Blocks and storage (`sync_directory.rs`, `storage_backend.rs`) | the files on disk | `get_blocksize`, `gen_blocks`, `read_block`, `write_block` | `BlockTransfer`, `SyncFiles` |
| Folder synchronisation (`watcher.rs`, `sync_directory.rs`, `handlers.rs`, `mod.rs`) | snapshots held by tasks, messages | `watch`, `generate_index`, `directory_changed`, `send_index`, `handle_index`, `get_directory`, `get_file`, `handle_request` | `FolderSync` |
| Folders, shares, peers (`bep_state.rs`, `bep_state_reference.rs`) | `sync_folders`, shares, peers, the list of connections | `add_peer`, `add_sync_directory`, `set_sync_directory_path`, `remove_sync_directory`, `sync_directory_with_peer`, the handler of `ClusterConfig` | `Folders` |
| Peer connection (`peer_connection/mod.rs`, `handlers.rs`) | queue to the writer, map of requests, cancellation token, stored error | `handle_connection`, `handle_reading`, `handle_writing`, `close_receiver`, `drain_requests`, `wait_for_ready`, `close`, `wait_for_close`, `submit_message`, `submit_request` | `PeerConnection` |
| Verification (`verifier.rs`) | the list of peers that is read before the handshake | `verify_connection`, `check_cert` | `Folders`, `PeerConnection` (partly) |
| Framing (`items.rs`, `items.proto`) | none | `send_hello`, `receive_hello`, `encode_for_bep`, `receive_message` | `Framing` |
| Device ids (`device_id.rs`) | none | `deviceid_to_string`, `deviceid_from_string` | `DeviceId` |
| Hexadecimal text, `u64` in an `i64` column (`util.rs`) | none | conversions | not modelled |
| Daemon, server (`daemon.rs`, `server.rs`) | none | the loops that dial and accept | not modelled |

How they interact. A process has one `BepState` behind a mutex and one
`PeerConnection` per peer. A connection is a task that starts a reader and a
writer and, separately, a watcher. The reader handles a `ClusterConfig` itself
and starts a task for every other message it hands on (`handlers.rs:319`); the
tasks call into the state, one critical section per call, and queue messages for
the writer. A change of a table calls `directory_changed`, which starts one
`directory_updated` task per connection; each sends an `Index` of every folder
that is shared with that peer. A folder that the user accepts
(`set_sync_directory_path`) starts a download on every connection.

What is hard here. Every task works on a snapshot of the table that others
change; a device with two peers scans every change twice, at the same time;
downloads write the files that scans look at; versions come from the table and
blocks from the disk; an update of a row is several statements and no
transaction; offers, Indexes, the user's acceptance and scans come in any order;
a connection may end between any two steps and takes queued messages with it; a
caller's oneshot passes through a bounded queue that may be full, closed,
drained or dropped at any time. `hazards` in `PROJECT.json` lists each of these
at its line with the properties that watch over it.

What makes it correct. Histories (the version vector of a file as bep-rs keeps
it: a list of author and counter) are consecutive and only grow, also across a
crash; nobody reads half an update; one history stands for one content; a
version stands for a change by a user; when nothing is under way, all devices
know the same history and have the last content; activity dies out; a folder on
offer comes from a peer, and its files follow once it is accepted; a download
that succeeds leaves the bytes that were announced; a caller of a connection
always gets an answer; what counts as sent is on the wire, and what is read is
what was sent.

## 2. Modules

| Module | What it is |
| --- | --- |
| `SyncFiles` | the tables of one folder, `update_sync_file`, hashes and blocks: operators only |
| `FileTable` | abstract: the table as the rest of the program takes it to be, updated in one step |
| `TableStore` | the same table statement by statement, under the lock, with crashes; refines `FileTable` |
| `FolderSync` | devices, watchers, handlers, downloads, connections and faults for one folder; uses the steps of `FileTable` |
| `Folders` | peers, folders, shares, offers and what connections do with them |
| `PeerConnection` | one end of a connection with its callers |
| `BlockTransfer` | one file at the level of its bytes: split, asked for, read, written |
| `DeviceId` | ids with check characters as users pass them on |
| `Framing` | a stream of bytes that arrives in pieces, and its reader |
| `MCFolderSync`, `MCFolders`, `MCPeerConnection`, `MCTableStore` | values of the constants for TLC |
| `MCData` | the same for `BlockTransfer`, `DeviceId` and `Framing`: a behaviour is one of one of the three |
| `SyncFilesProofs` | lemmas about the operators of `SyncFiles` |
| `FolderSyncProofs`, `TableStoreProofs`, `FoldersProofs`, `PeerConnectionProofs`, `BlockTransferProofs` | inductive invariants and theorems |
| `FolderAgreementProofs` | extends `FolderSyncProofs`: the devices come to agree on what users did one at a time |
| `EncodingProofs` | the same for `Framing` and `DeviceId`: what is encoded is decoded |

`PROJECT.json` maps every definition to the lines it stands for. Operators
marked *Faulty variant* are used by no specification: each one puts a plausible
mistake in the place of one definition, and shows that a property notices it.

### SyncFiles, FileTable, TableStore

A table is a sequence of rows; rows are never deleted, so a row's position is
its id. A content is the sequence of its blocks and the empty sequence a file
that does not exist. The hash of a file is the sequence of its blocks, the hash
of a block the sequence of that one block: SHA-256 without collisions, and with
the fact that matters here, that the hash of a file is the hash of its first
block exactly when it has one block. `UpdateSyncFile` keeps the order of the
code: the columns first, then the assertion on the number of versions
(`bep_state.rs:279`), then versions and blocks; when the assertion fails, the
columns are already overwritten.

| Action of `TableStore` | Code |
| --- | --- |
| `GetSyncFiles` | `get_sync_files`, with its assertion that a row has versions (`bep_state.rs:235`) |
| `UpdateSyncFileBegin` | a call with an id from a snapshot of any age; the lock is taken |
| `UpsertColumns`, `CountVersions`, `InsertVersions`, `DeleteBlocks`, `InsertBlocks` | the statements of `update_sync_file` and its assertion |
| `Crash` | the process ends; only the file of the database is left |

The lock is a tokio `Mutex`, which a panic does not poison: a failed assertion
gives it back. After a crash between the first statement and the insertion of
versions, the row has no versions, and every later `get_sync_files` of the
folder fails its assertion; nothing in the code repairs it. The model says so:
`GetSyncFiles` is not enabled then. `FileTable` allows a crash to leave one of the
tables in `Torn`, and nothing else.

### FolderSync

| Action | Code |
| --- | --- |
| `UserWrite` | a user creates, changes or removes a file (external) |
| `WatchStart`, `GenerateIndex`, `ScanFile`, `ScanStore`, `ScanEnd` | `watch` and `generate_index`: the snapshot, one file, one `update_sync_file`, the final `directory_changed` |
| `SendIndex` | `directory_updated` with `send_index` |
| `HandleIndex`, `IndexFile`, `IndexEnd` | `handle_index`: the snapshot, one file with its `update_sync_file`, the start of `get_directory` |
| `GetDirectory`, `GetFile`, `HandleRequest`, `GotBlock`, `StoreSynced`, `GetDirectoryEnd` | `get_directory`, `get_file` and, on the other side, `handle_request` |
| `Disconnect`, `Crash`, `Connect` | a lost connection, a process that dies, `handle_connection` with its first `Index` |

An action is what a task does between two points at which it can be
interrupted. A failing assertion or `unwrap` ends the task that meets it, as a
panic does under tokio: the watcher is `dead`, the handler is gone, the process
goes on. The history variable `overrun` remembers where the assertion of
`update_sync_file` failed, `written` what users have written.

Abstractions.

- One folder, with a path on every device, shared over every connection; how it
  gets there is `Folders`.
- Two reads of a file (its hash, then `gen_blocks`) are one step, and a user's
  write is atomic. Reading and storing are separate steps. Bytes are the matter
  of `BlockTransfer`.
- `send_index` is one step. The request and the response of a download are kept
  in the task that waits for them; a request on a connection that is gone is
  never answered (section 4, `conn_requests`), and its worker is free again.
- Events of the file system that wait for a watcher are one flag: a scan looks
  at everything there is. Only create, modify and remove events count
  (`watcher.rs:55`), so a scan's own reads are none.
- The watcher of a new connection starts once the one of the old has ended.
- A process dies between two calls of `update_sync_file`; a crash within one is
  in `TableStore`.
- All blocks of a file have one size, offsets count blocks.
- Rows and versions are read in the order in which they were inserted.

### Folders

| Action | Code |
| --- | --- |
| `AddPeer`, `AddSyncDirectory`, `SyncDirectoryWithPeer`, `AcceptFolder`, `ForgetPath`, `RemoveSyncDirectory`, `GenerateIndex` | the operations of `BepState` that a user calls; accepting and forgetting are `set_sync_directory_path` with and without a path |
| `MakeFile` | a user makes a file (external) |
| `Dial`, `Verify`, `FirstIndex`, `ClusterConfig`, `Disconnect` | `handle_connection` at both ends: the list of peers, `check_cert`, `send_index` before there is a writer, `generate_cluster_config` after it |
| `ReadConfig`, `LookupFolder`, `AddFolder`, `ShareFolder`, `ReadIndex` | `handle_reading`; each folder of a `ClusterConfig` is looked up, added and shared in critical sections of their own (`handlers.rs:363`) |
| `LookupIndex`, `MergeIndex`, `GetDirectory`, `HandleRequest`, `GotFile`, `DirectoryUpdated` | the tasks `handle_index`, `get_directory` and `directory_updated` |
| `WatchStart`, `WatchEvent`, `ScanFolder` | `watch`, which scans all folders of the device, also those without a path |

Abstractions. A folder has one file with one version: what matters is whether
its row and its bytes are there. The tasks of a device are a set; two that are
equal are one. `send_index` is one step. Requests and responses are kept in the
task that waits for them; the peer reads them after the `ClusterConfig`, in an
order that is otherwise left open. Names, labels and addresses are left out.
The handler of a `ClusterConfig` does not look at the token: when its connection is
gone, it goes on with the folders it was told of, and its reader ends when it
would read again (`Handling`, `ConfigEnds`). A panic in it ends the reader and
leaves the connection as it is. The next connection of the same two devices waits
for it, as for the last scan of a watcher.
Two constants restrict the users, because the code does not do well without:
`AcceptWhenQuiet` (nobody accepts a folder in the moment in which an `Index` for
it is being merged: the handler keeps the folder as it was without a path, and
the download ends with an error) and `ShareWhenDown` (a folder that is shared
while the connection is up is in no `ClusterConfig`, and its `Index` finds no
folder). Both cases are among the hazards.

### PeerConnection

| Action | Code |
| --- | --- |
| `Verified`, `NotVerified` | the outcomes of `verify_connection`, which has a timeout |
| `QueueIndex`, `IndexFails`, `SpawnTasks`, `StoreError`, `DrainRequests` | `handle_connection` and the task around it |
| `Call`, `Push`, `PushRefused`, `Return`, `Wake` | the callers, with the oneshot of `submit_request` |
| `ReadHello`, `ReadHeader`, `ReadOther`, `ReadResponse`, `ReadClose`, `ReaderFails`, `ReaderPanics`, `ReaderClosed`, `ReaderCancelled` | `handle_reading` and the end of the reader |
| `HandleResponse` | `handle_response` in its own task |
| `WriteHello`, `WriteConfig`, `TakeMessage`, `WriteMessage`, `WritePing`, `WriterCancelled`, `WriteFails` | `handle_writing`, `write_message`, `close_receiver` and the end of the writer |

The sending half of a caller's oneshot is where the code has it: with the
message in the queue, with the writer, or in the map of requests. `slot` is what
the receiving half sees. `TrackerClosed` is `FALSE`: `TaskTracker::wait` needs a
closed tracker and nothing in the code closes it.

Abstractions. A message is its kind and its caller. The sleep of 100 ms in
`wait_for_ready` is long enough for an error to be stored. The state keeps a
sender of the queue, so the arm of `handle_writing` for a queue without senders
cannot be reached and is left out. A `ClusterConfig` is a `ReadOther`: its effect
is in `Folders`.

A reader ends in one of three ways. It returns (`ReadClose`, `ReaderCancelled`); it
fails, calls `close_err` and then cancels the token (`ReaderFails`,
`ReaderClosed`); or it panics, over a body that LZ4 cannot decompress
(`items.rs:56`) or in the handler of a `ClusterConfig` (`handlers.rs:369-377`), and
then nothing else happens: the statement that cancels the token
(`handlers.rs:603`) is not reached and the writer goes on. `send_index` may panic
as well, which ends the task of the connection before its tasks are started
(`IndexFails`). `WriterFollows` is about the first two ways only.

### BlockTransfer, DeviceId, Framing

`BlockTransfer` follows one file: `Change` (a user, at any time), `Announce` and
`AnnounceFails` (`gen_blocks`), `StartGetFile`, `Answer` (`handle_request` with
`read_block`) and `GotBlock` (`get_file` with `write_block`). A byte is the pair
of the edit that wrote it and its position, so a mixture of two versions shows.
`u32` has `U32` values and `i32` as many, and `get_blocksize` gets its tiers as a
constant; the arithmetic is that of the code, casts included.

`DeviceId` has `syncthing_luhn32`, `luhnify`, `chunkify` and their inverses over
an alphabet of any even size. Base 32 is external: an id is the sequence of the
groups of bits that a character stands for. Characters after the last part are
ignored, as in the code.

`Framing` has the lengths, the magic and the header of a message with bytes to a
smaller base. Protobuf and LZ4 are external; of protobuf the model keeps that a
field with its default value takes no bytes, so headers and bodies may be empty.
A `Hello` is shorter than two bytes of length can say.

## 3. Runs that pass

| Run | Instance | Shows |
| --- | --- | --- |
| `folder_chain` | d1 - d2 - d3, two handlers each, two edits at d1 one after the other, files of one block | `NoOverrun`, `VersionsPerEdit`, `LastEditEverywhere`, `VersionNamesContent`, `Settles`: edits travel through d2, whose two watchers both scan what was downloaded; no echo becomes a version, the assertion of `update_sync_file` holds, and activity ends |
| `folder_reconnect` | two devices, two handlers each, both edit or remove in turn, one fault at any point | `HistoriesAgree`: the `Index` at the start of a connection makes up for what was lost; `NoOverrun`; `AuthorsHaveTheirVersions` with two handlers at once and a fault; `Inv`, the inductive invariant |
| `folder_concurrent` | two devices, three edits or removals at any time, files of one and two blocks | `HistoriesWellFormed`, `HistoryAppendOnly` under conflicting edits; `AuthorsHaveTheirVersions`: nobody has a version that its author does not have; `BlocksInPlace`: downloads may mix contents, but move no block |
| `store` | two tasks, two files, one of them with two conflicting histories, two crashes | `StoreInv`, `ReadsAreAtomic` (the refinement), `HistorySurvives`, `OneTornRowPerCrash`, `TypeOK` |
| `folders` | two devices that may both add the folder, one that has yet to add the other as a peer, two connections, one loss or removal | `OffersFromPeers`, `IndexedIsKnown`, `FilesFollow`; `PanicForCause`: the handler of a `ClusterConfig` panics only over a folder that a user has had a hand in |
| `data` | files of 0 to 35 bytes with three sizes of blocks and a `u32` of 32 values, changed twice; ids of six groups with one mistake; three messages of six kinds | `CopyIsExact`, `ExpressibleSizesSync`, `SyncedHasFirstBlock`; `IdRoundTrip`, `MistypedIdRejected`; `ReadsWhatWasSent`, `FailsForCause` |
| `conn_safety` | a request, a `wait_for_ready`, a `close`, a queue of two places | `TypeOK`, `OneshotOwned`, `SentMeansWritten` |
| `conn_close` | a message, a `wait_for_ready`, a `close` and a `wait_for_close`, a queue of four places | `CloseReturns`, `ReadyReturns`, `WriterFollows` |

Bounds. `MaxEdits`, `MaxVersions`, `MaxFaults`, `Worker`, `MaxRows`, `MaxCrashes`,
`MaxDials`, `MaxUpsets`, `MaxChanges`, `MaxSent`, `Capacity`, `Indexes` and
`MaxPings` bound the instances.

- `FolderSync`: three devices in a chain are the smallest system in which a
  device forwards and has two watchers; one file is enough for what the
  properties say, since no decision about a file reads another file's row.
  Three edits let two devices get conflicting histories of different length, the
  case in which `HistoryAppendOnly` can fail. `MaxVersions` is never reached in
  `folder_chain` and `folder_reconnect`; in `folder_concurrent` it stops the
  scans of a file that has two versions, since two-block files go on getting
  versions for ever (`folder_blocks`). One handler per device already merges
  `Index` messages out of order; two also merge one in the middle of another or
  of a download (`folder_chain`, `folder_reconnect`). In the chain the edits are
  those of d1, which has one watcher; the two watchers of d2 scan its downloads.
  Edits at a device with two watchers, and two handlers under conflicting edits,
  are beyond TLC in these runs and are part of the theorems (section 5).
- `TableStore`: two tasks are enough for a stale snapshot, rows of length one and
  two for a failing assertion, two crashes for a second one on a torn table.
- `Folders`: one folder is enough for the sequence of offer, acceptance and
  files; the second connection is the one after a loss.
- `data`: the lengths lie on both sides of every tier, of multiples of the block
  sizes, of 16 (the sign) and of 32 (the width). The alphabet has four
  characters: an even number, which is what makes the doubling with carry a
  permutation. Bytes are delivered one at a time or all at once.
- `PeerConnection`: in `conn_safety` the queue is smaller than what is sent; in
  `conn_close` it has room for the first `Index`, the message, the empty message
  of `wait_for_ready` and the Close, which is what 100 places are for few folders.

`CHECK_DEADLOCK FALSE` is set throughout: users may stop acting, a connection
ends, and a folder table that a crash has torn is read no more.

Fairness. `FolderSync`: tokio runs every task that can run, and the network
delivers on an established connection; users, faults and reconnections are owed
to nobody. `PeerConnection` and `Folders`: one weak fairness condition over all
steps of the system. The runtime promises more, fairness to each task, but those
steps are bounded in number whatever the users and the peer do, so that
progress of the system is progress of each task. That a write ends, with or
without success, is an assumption about the socket and the peer: `write_all`
(`handlers.rs:474`) has no timeout and does not look at the token, so a peer that
keeps the connection and stops reading holds the writer, and `CloseReturns` and
`ReadyReturns` say nothing of such a peer. Otherwise the peer of `PeerConnection`
owes nothing, neither a message nor the end of one, and no failure is assumed to
happen.

Limits of these properties that TLC showed. `LastEditEverywhere` holds without
faults only: nothing repeats a download that was cut short, since an `Index` of
the same length counts as known. `HistoriesAgree` with faults holds for two
devices, not for a chain. `FilesFollow` is about the first connection, for the
same reason. `ReadyReturns` needs room for the first `Index` messages.

## 4. Runs that end in a violation

Each one states what a comment or a test of the repository says, and the
counterexample is a behaviour of the code; `findings` quotes the lines.

| Run | Property | What happens |
| --- | --- | --- |
| `folder_overrun` | `NoOverrun` | a scan records a local edit while a download of an older version is under way; the download stores its old row, and the assertion at `bep_state.rs:279` fails after the columns were overwritten |
| `folder_blocks` | `VersionsPerEdit` | a file of two blocks gets a new version from the device that downloads it: its row has the hash of the first block, the scan compares it with the hash of the file |
| `data_shrink` | `CopyIsExact` | a file becomes shorter: `write_block` never truncates, `get_file` returns `Ok`, and the copy ends in bytes of the old version |
| `conn_requests` | `RequestsAnswered` | `drain_requests` comes after a wait that never ends, so a request that is pending when the connection ends stays pending; `wait_for_close` waits on the same tracker |

`data` therefore has changes that do not make the file shorter (`Shrinks` is
`FALSE`); there is no other way to an inexact copy (`OkMeansExact`, section 5).

## 5. What is proved

For every value of the constants. All assumptions are on constants, named, in
the module that declares them, and TLC evaluates them on every run.

| Module | Theorem | States |
| --- | --- | --- |
| `FolderSyncProofs` | `SnapshotsStayValid` | `Spec => []Inv` |
| | `TypeCorrect` | `Spec => []TypeOK` |
| | `HistoriesStayWellFormed` | `Spec => []HistoriesWellFormed` |
| | `HistoriesOnlyGrow` | `Spec => HistoryAppendOnly` |
| | `AuthorsKnowTheirVersions` | `Spec => []AuthorsHaveTheirVersions` |
| | `BlocksStayInPlace` | `Spec => []BlocksInPlace` |
| `FolderAgreementProofs` | `AssertionNeverFails` | `Spec => []NoOverrun`, if `OneByOne` |
| | `NoVersionWithoutEdit` | `Spec => []VersionsPerEdit`, if `OneByOne` |
| | `LastEditArrives` | `Spec => []LastEditEverywhere`, if `OneByOne` |
| | `HistoriesComeToAgree` | `Spec => []HistoriesAgree`, if `OneByOne` |
| | `HistoryNamesContent` | `Spec => []VersionNamesContent`, if `OneByOne` |
| `TableStoreProofs` | `UpdatesAreAtomic` | `Spec => ReadsAreAtomic`: `TableStore` implements `FileTable` |
| | `StaleIdsStayValid` | `Spec => []StoreInv` |
| | `StoredHistorySurvives` | `Spec => HistorySurvives` |
| | `StoreTypeCorrect` | `Spec => []TypeOK` |
| | `CrashTearsOneRow` | `Spec => []OneTornRowPerCrash` |
| `PeerConnectionProofs` | `EveryOneshotOwned` | `Spec => []OneshotOwned` |
| | `SentIsWritten` | `Spec => []SentMeansWritten` |
| | `ConnectionTypeCorrect` | `Spec => []TypeOK` |
| `FoldersProofs` | `OffersComeFromPeers` | `Spec => []OffersFromPeers` |
| | `IndexesFindTheirFolder` | `Spec => []IndexedIsKnown` |
| | `ReaderPanicsForCause` | `Spec => []PanicForCause` |
| | `FoldersTypeCorrect` | `Spec => []TypeOK` |
| `BlockTransferProofs` | `OkMeansExact` | `BSpec => []CopyIsExact`, if `~Shrinks` |
| | `SyncedMeansFirstBlock` | `BSpec => []SyncedHasFirstBlock`, if `~Shrinks` |
| | `ExpressibleFilesSync` | `BSpec => []ExpressibleSizesSync` |
| `EncodingProofs` | `ReadIsSent` | `FSpec => []ReadsWhatWasSent` |
| | `FailsOnlyForCause` | `FSpec => []FailsForCause` |
| | `ShownIsRead` | `ISpec => []IdRoundTrip` |
| | `OneSlipIsNoticed` | `ISpec => []MistypedIdRejected` |

`BSpec`, `FSpec` and `ISpec` are the specifications of the three modules that the
run `data` puts side by side: a step of that run is a step of one of them.

`FolderSync`. `HistoriesWellFormed` is not inductive: what a table holds after
`update_sync_file` depends on the row and on the id that the calling task
brings, and those come from a snapshot it took earlier. `Inv` therefore says of
every task what it may hold on to. Its snapshot has good rows (`RowOK`:
consecutive versions, `synced` less than their number, at least one block), and
ids in it are ids of the same files in the table *now* (`SnapOf`), which stays
true because tables only grow and names in them do not change. A row about to
be stored is good and has the name of the row its id points to (`WatchOK`). A
download is at a block that its snapshot has (`TaskOK`). Every `Index` under way
has good entries (`InfosOK`): that needs `CanSendIndex`, since a file that is not
there would have no blocks and `handle_index` takes the first one.
`SyncFilesProofs` shows what the operators do: merging two consecutive histories
gives a consecutive one that extends the stored one (`MergeVersions`), an update
with a good row keeps a table good and extends it, whether or not the assertion
holds. There is one lemma per action (`...Keeps`), which shows the part of `Inv`
the action can disturb; lemmas on single watchers and tasks (`WatchStays`,
`TaskStays`, `SetWatch`, `SetTask`) say that a task that did not move stays good
when a table grows under it.

Two more invariants rest on `Inv`. `AuthorsHaveTheirVersions` has to follow a
version from the scan that makes it to every table, message and snapshot it
reaches. `AuthorInv` says of all of these that the authors have what is in them
(`Said`), with one exception: a watcher may hold versions of its own device that
are not in the table, since it makes them before it stores them, and since
`update_sync_file` drops those that another task was ahead of. Nobody else sees
them: a new row goes out only after it is in the table, and what the author has
once, it keeps (`HistoriesOnlyGrow`, `SaidStays`). `StoreSaid` shows that an update
puts every version it adds where it says. `BlocksInPlace` needs what is in flight:
`PlaceInv` adds that the block of an answer was on the peer's disk at the offset at
which it will be written, when it was read, and so was put there by a user or is
part of a gap; what users have written only grows. Nothing is assumed of the age of the snapshot.

Assumptions of `FolderSync`: `ZeroAssumption`, `LinkAssumption`,
`UserAssumption`, `BoundAssumption`.

Agreement. `FolderAgreementProofs` shows the five properties that say what the
folder is for. They are not true of every instance, so the theorems have a
hypothesis on the constants, `OneByOne`; without any one of its parts, one of the
five is false:

- `OneEditAtATime`: a user acts when all activity has ended. Otherwise a scan
  that records an edit during a download makes the assertion fail
  (`folder_overrun`).
- Every content of a user has one block. Otherwise a scan takes a download for
  an edit (`folder_blocks`). It also excludes removals, of which bep-rs keeps
  no record: the other devices keep the file.
- `MaxFaults = 0`: nothing repeats a download that was cut short (section 3).
- `Connected`: there is a link, and one out of every set of devices that is
  neither empty nor all of them. Other devices never hear of an edit.

The number of devices, files, handlers per device and edits, who edits which
file and the shape of the network are not restricted. `folder_chain` is an
instance of `OneByOne`, with a device that hears of everything through another.

None of the five is inductive, and together they are not either: whether a
scan, a merge or a download does harm depends on what every task has read, and
whether the last content arrives depends on some task still being on its way to
pass it on. The proof follows one edit at a time. A log `g` says who made which
edits of each file; it is not a variable but a witness, and grows by one entry
with each user action. The invariant is `Inv` with `Agreement`: for some log the
devices are at rest (`Rest(g)`: same rows, same contents, nothing under way) or in
the epoch of the last edited file (`Epoch(g, m)`). An epoch says three kinds of things.

- What things may be. Histories in tables, snapshots and messages are those of
  the log up to the last edit or the one before it (`Follows`, `RowIn`, `TableIn`); a
  file on a disk has the last or the previous content (`DiskIn`); only the author's
  watchers find something to store (`WatchIn`); whoever has an Index on its way has
  the content (`EpochSends`), and so has the peer of every handler (`TaskIn`), so
  that a Request is answered with the block that was announced. Two watchers may
  both have inserted a row for a new file; then the second one has one version and
  is never read again.
- What has happened is not undone: a device that knows of the edit goes on
  knowing it, and one that has the content keeps it (`Onward`). What a
  task stores in an epoch, whatever the age of its snapshot, is a row with the whole
  history, which is why the assertion holds.
- What is still to happen is not forgotten. Until the author's table has the
  edit, each of its watchers has an event or is about to come to the file
  (`Scanned`); a device that has the content tells every peer that does not know of
  it, by an Index on its way, a handler that has not come to its entry, or a task
  that ends with an Index to all (`Told`); a device that knows of the edit and does
  not have it has a handler that will fetch it (`Fetched`).

One lemma per action shows that it keeps all of these; the lemmas `Keep...` do the
parts an action does not touch. When nothing is under way, the first
alternatives of the third kind are all that is left: the author knows, whoever
knows has the content, and so does every neighbour of a device that has it; then
`Connected` gives it to all (`SettledRest`). The next user action starts the next
epoch (`UserWriteEpoch`). That is why an edit must wait: `Rest` is what makes every
snapshot and message of the new epoch one of the two last states of the log.

`TableStore`. The refinement mapping shows the table as it was when the lock was
taken (`before`) until it is given back. That the last statement is then one
`UpdateSyncFile`, and a crash one of `Torn`, needs to know what the earlier
statements have made of the table: `UpdateOnCourse` says it for each of them, and
`SeenValid` says that the id the update came with, from a snapshot of any age, is
the id of its file. The invariant is `TypeOK` with both. `OneTornRowPerCrash`
speaks of the time between two updates only; `FewHoles` says the same of the
table that the refinement shows, which no statement but the last changes: an
update with a good row makes no row incomplete, one of `Torn` at most one more.
Assumptions: `RowAssumption` (rows that are stored have versions and blocks),
`StoreBoundAssumption`.

`PeerConnection`. `OneshotOwned` is not inductive: a message in the queue could
carry the oneshot of someone else, or the same one twice. `IInv` adds where
oneshots are (`Carried`: each is with one message, that of its caller, who waits),
what the map of requests and the Responses under way may hold (`Pending`), that a
oneshot is not used before its message is queued (`Fresh`), that tasks run in the
phase "run" only (`Phases`), and what the writer has in hand and has written
(`Writing`). A reader that panics leaves all of it as it is. Assumptions:
`CallerAssumption`, `CapacityAssumption`.

`Folders`. Between the list of peers that the verifier goes by and the row that
is added, there are a handshake, a `ClusterConfig` and three critical sections.
`Vouched` says that a list that was read is still a list of peers and that a
connection past the verifier is to one of them; `Truthful`, that what was told
and is left to handle are folders the other end shares with this one. Both last
because peers and shares are only ever added. Types take `RestTypes`: that the
tasks of a device are about its own connections. `IndexedIsKnown` is about an
`Index` that was queued before the `ClusterConfig` was made and is merged by a
task long after it was read. `Finds` follows it: what a device shares it knows
(`SharedIsKnown`); the `ClusterConfig` tells every folder that is shared
(`TellsAll`, which needs `ShareWhenDown`) and an `Index` is about one of them
(`IndexedIsShared`); of what the peer told, the reader has come to terms with all
but what is left to look up, add or share (`Covers`), and it reads no `Index`
before that is nothing (`TasksFind`). A folder that a user has taken away is
excepted everywhere, and stays excepted. All this is about connections that stand:
`Upright` says that both ends of a connection are gone or neither is, and that
only the handler of a `ClusterConfig` outlives it. `PanicForCause` takes what the
handler has seen in one critical section to the next: `Guarded` says that a folder
about to be added is still unknown, and one about to be shared still known, unless
the user or another peer has had a hand in it (`Disturbed`, which lasts), and that
what is left to handle was told. It is kept because folders come to a device from
its user or from a peer that offers them (`ComesFromSomebody`), and because no
second handler of the same two devices is at work. Assumption:
`FoldersAssumption`.

`BlockTransfer`. `gen_blocks` is shown to tile the file (`GenBlocksTiles`: blocks
that lie next to each other, start at 0 and end with the file) whenever it can
split it, casts and negative remainders included. `TransferInv` says that the last
`Index` tiles the bytes it was made from (`Indexed`), that during a download the
copy agrees with them up to the block that is asked for (`Written`), that it keeps
its first block (`HasFirst`) and, after an Ok, all of them (`HasAll`), that the
copy is no longer than the file (`Grows`, the part that needs `~Shrinks`), and that
a file nobody has changed gives the blocks of its `Index` (`Steady`). The hash in a
response is compared before it is written, so a change in between ends the
download and does not mix two versions. Without `~Shrinks` the first theorem is
false (`data_shrink`). Assumption: `BlockAssumption`.

`Framing`. What is on the wire says nothing by itself, so `FrameInv` speaks of the
whole stream from its first byte, of the place of every message in it and of the
number of bytes read: the stream is the Hello (`Greets`) and one frame after the
other (`Frames`), what is on the wire and on its way is the rest of it (`Left`), and
the reader stands where its phase says (`Stands`). A piece that arrives changes
none of these; each step of the reader finds the length that was written
(`FromU16`, `FromU32` of `ToU16`, `ToU32`) and with it the next place.
Assumption: `FramingAssumption`, of which the bounds on lengths are those of the
two and four bytes that hold them; the code would truncate a longer body.

`DeviceId`. `Addend` is a permutation of the digits at either factor, for any even
alphabet (`AddendIs`), so sums of parts that differ in one character differ by less
than the alphabet's size and the check characters differ (`SumsDiffer`,
`CheckDiffers`). `WrongIsRejected` carries that to the whole text, wherever the wrong
character is; `ChunksAreUndone`, `DashLess` and `WrongOne` carry it through the
dashes. `IdInv` then says that what a user passes on is, dashes apart, the text of
the id with no or one wrong character. Assumption: `IdAssumption`; the numbers of
the code (32, 4, 13, 7) satisfy it.

Sums, dashes and chunks take induction over the length of a text. The induction
theorems of the library have an operator as a parameter, which no installed prover
can instantiate; these proofs go by sets instead (`Climb`: a set with 0 and with
the successor of every member has all numbers up to a bound), which follows from
the least-number principle (`LeastNumber`, from `WFMin`). The same gives the
recursive functions `Sums` and `Kept` their equations.

## 6. What is only model-checked

- Liveness (`Settles`, `FilesFollow`, `CloseReturns`, `ReadyReturns`,
  `WriterFollows`), which the prover does not do.
- `NoOverrun` and `HistoriesAgree` of `FolderSync` where connections are lost or a
  process ends (`folder_reconnect`), which `OneByOne` excludes. A fault ends any of
  the tasks an epoch relies on, and what makes up for them is the `Index` of the
  next connection, between two devices only (section 3).
- That the epoch of an edit ends at all is `Settles`; the theorems say what holds
  when it does.

No module of the project declares a RECURSIVE operator.

## 7. Not modelled

- `daemon.rs` and `server.rs`: two loops without state of their own. What they
  call is modelled (`Dial`, `wait_for_ready`, `wait_for_close`); that the daemon
  waits for one peer before it dials the next is a hazard.
- The TLS handshake of `verifier.rs`, which is rustls. The list of peers, the
  comparison and the timeout are modelled.
- Protobuf, LZ4 and base 32 themselves, and SQL: external.
- `util.rs` and the conversions between `u64` and `i64`: hexadecimal text is for
  display, and the conversions keep all 64 bits.
- Errors: conversions between types. The one decision that depends on them, which
  error a caller gets, is in `PeerConnection`.
- A file system whose writes fail: `get_file` panics while it holds the lock of
  the storage backend (`mod.rs:277`), which is then poisoned for good.
- Several files in one download that ends at the first error (`mod.rs:334`), and a
  peer that stops in the middle of a message (`handlers.rs:260`): the code
  promises nothing there that a property could state.
