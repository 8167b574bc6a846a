----------------------------- MODULE FolderSync -----------------------------
(***************************************************************************)
(* One folder that several devices share.  Every device keeps the files on *)
(* disk and a table of what it knows about them; users change files; the   *)
(* watcher of each connection scans the disk and records new versions      *)
(* (generate_index); every change of the table is announced in an Index    *)
(* (directory_changed, send_index); the receiver merges the Index into its *)
(* own table (handle_index) and then fetches what it misses, block by      *)
(* block (get_directory, get_file, handle_request).                        *)
(*                                                                         *)
(* Every handler is a task of its own and gives up control at each await,  *)
(* in particular around every access to the table: a task works on a       *)
(* snapshot (`snap`) of the table that other tasks change meanwhile.  An   *)
(* action below is what a task does between two such points.               *)
(***************************************************************************)
EXTENDS SyncFiles, FiniteSets

CONSTANTS Link,           \* <<d, p>>: the connection object that d has for p
          Worker,         \* bounds the message handlers running on a device
          Editor,         \* the devices whose users act
          UserContent,    \* what users may leave in a file; Absent removes it
          OneEditAtATime, \* users only act when all activity has ended
                          \* and all connections are established
          MaxEdits,       \* bounds the number of user actions
          MaxVersions,    \* bounds the versions of a file
          MaxFaults       \* bounds the lost connections and the crashes

ASSUME LinkAssumption ==
    /\ Link \subseteq Device \X Device
    /\ \A l \in Link : l[1] # l[2] /\ <<l[2], l[1]>> \in Link
ASSUME UserAssumption == Editor \subseteq Device /\ UserContent \subseteq Content
ASSUME BoundAssumption ==
    /\ OneEditAtATime \in BOOLEAN
    /\ MaxEdits \in Nat /\ MaxVersions \in Nat /\ MaxFaults \in Nat

VARIABLES
    disk,     \* disk[d][n]: the content of file n in d's folder
    files,    \* files[d]: d's table of files
    watch,    \* watch[<<d, p>>]: the watcher task of d's connection to p
    task,     \* task[d][w]: a handler of an Index, and the download it starts
    sends,    \* sends[<<d, p>>]: directory_updated tasks waiting to run
    idx,      \* idx[<<d, p>>]: Index messages from d to p not yet handled
    up,       \* the connections that are established
    written,  \* history: written[n] is what users made of file n, in order
    overrun,  \* history: devices where update_sync_file's assertion failed
    faults    \* number of lost connections and crashes

vars == <<disk, files, watch, task, sends, idx, up, written, overrun, faults>>
-----------------------------------------------------------------------------
Pending == [id : Nat, row : File]

Watch == [at : {"off", "idle", "scan", "store", "dead"}, live : BOOLEAN,
          event : BOOLEAN, snap : Seq(File), left : SUBSET Name,
          pend : Seq(Pending), changed : BOOLEAN]

Task == [at : {"idle", "index", "begin", "next", "asked", "answered", "store"},
         peer : Device, live : BOOLEAN, snap : Seq(File), pos : Nat,
         msg : Seq(FileInfo), changed : BOOLEAN, blk : Nat, ans : Seq(Block)]

WatchOff == [at |-> "off", live |-> FALSE, event |-> FALSE, snap |-> <<>>,
             left |-> {}, pend |-> <<>>, changed |-> FALSE]

IdleTask(d) == [at |-> "idle", peer |-> d, live |-> FALSE, snap |-> <<>>,
                pos |-> 0, msg |-> <<>>, changed |-> FALSE, blk |-> 0,
                ans |-> <<>>]

\* Constant-level values can be large: TypeOK says where each variable lives.
TypeOK ==
    /\ disk \in [Device -> [Name -> Content]]
    /\ files \in [Device -> Seq(File)]
    /\ watch \in [Link -> Watch]
    /\ task \in [Device -> [Worker -> Task]]
    /\ sends \in [Link -> Nat]
    /\ idx \in [Link -> Seq(Seq(FileInfo))]
    /\ up \subseteq Link
    /\ written \in [Name -> Seq(Content)]
    /\ overrun \subseteq Device
    /\ faults \in Nat

\* All connections are established and nothing is in the folder.
Init ==
    /\ disk = [d \in Device |-> [n \in Name |-> Absent]]
    /\ files = [d \in Device |-> <<>>]
    /\ watch = [l \in Link |-> WatchOff]
    /\ task = [d \in Device |-> [w \in Worker |-> IdleTask(d)]]
    /\ sends = [l \in Link |-> 0]
    /\ idx = [l \in Link |-> <<>>]
    /\ up = Link
    /\ written = [n \in Name |-> <<>>]
    /\ overrun = {}
    /\ faults = 0
-----------------------------------------------------------------------------
\* A change in d's folder is an event for each watcher that d has running.
Notified(d) ==
    [l \in Link |-> IF l[1] = d /\ watch[l].at \in {"idle", "scan", "store"}
                    THEN [watch[l] EXCEPT !.event = TRUE]
                    ELSE watch[l]]

\* BepState::directory_changed: one directory_updated task per connection.
\* Those of dead connections, which are never removed, have no effect.
DirectoryChanged(d) ==
    [l \in Link |-> IF l[1] = d /\ l \in up THEN sends[l] + 1 ELSE sends[l]]

\* PeerConnection::send_index, first part: it fails as a whole as soon as one
\* file of the table cannot be opened.
CanSendIndex(d) ==
    \A i \in 1..Len(files[d]) : disk[d][files[d][i].name] # Absent

\* send_index, second part: versions from the table, blocks from the disk.
IndexOf(d) ==
    [i \in 1..Len(files[d]) |->
        [name     |-> files[d][i].name,
         versions |-> files[d][i].versions,
         blocks   |-> GenBlocks(disk[d][files[d][i].name])]]

\* BepState::get_sync_files, under the lock of the state: a consistent snapshot
\* of all rows with their versions and blocks.
GetSyncFiles(d) == files[d]

\* Nothing is under way: no handler, no message, no event, no scan.
Quiescent ==
    /\ \A d \in Device, w \in Worker : task[d][w].at = "idle"
    /\ \A l \in Link : sends[l] = 0 /\ idx[l] = <<>>
    /\ \A l \in Link : watch[l].at # "scan" /\ watch[l].at # "store"
    /\ \A l \in up : watch[l].at \in {"idle", "dead"} /\ ~watch[l].event

\* ... and all devices are connected.
Settled == Quiescent /\ up = Link

\* One element for each user action so far.
Edits == {e \in Name \X (1..MaxEdits) : e[2] <= Len(written[e[1]])}

\* A user of d changes, creates or removes a file (std::fs::write).
UserWrite(d, n, c) ==
    /\ disk[d][n] # c
    /\ Cardinality(Edits) < MaxEdits
    /\ OneEditAtATime => Settled
    /\ disk' = [disk EXCEPT ![d][n] = c]
    /\ written' = [written EXCEPT ![n] = Append(@, c)]
    /\ watch' = Notified(d)
    /\ UNCHANGED <<files, task, sends, idx, up, overrun, faults>>
-----------------------------------------------------------------------------
(***************************************************************************)
(* watcher::watch and SyncDirectory::generate_index.                       *)
(***************************************************************************)

\* The watcher of a new connection registers for events of the folder.
WatchStart(l) ==
    /\ l \in up /\ watch[l].at = "off"
    /\ watch' = [watch EXCEPT ![l] = [WatchOff EXCEPT !.at = "idle",
                                                      !.live = TRUE]]
    /\ UNCHANGED <<disk, files, task, sends, idx, up, written, overrun, faults>>

\* Faulty variant: the scan's own reads of the folder count as events.
GenerateIndexOnAccess(l) ==
    /\ watch[l].at = "idle" /\ watch[l].event
    /\ watch' = [watch EXCEPT ![l] =
                    [@ EXCEPT !.at = "scan", !.snap = GetSyncFiles(l[1]),
                              !.changed = FALSE,
                              !.left = {n \in Name : disk[l[1]][n] # Absent}]]
    /\ UNCHANGED <<disk, files, task, sends, idx, up, written, overrun, faults>>

\* An event starts a scan: the table is read once, the folder is listed.
GenerateIndex(l) ==
    /\ watch[l].at = "idle" /\ watch[l].event
    /\ watch' = [watch EXCEPT ![l] =
                    [@ EXCEPT !.at = "scan", !.event = FALSE,
                              !.snap = GetSyncFiles(l[1]), !.changed = FALSE,
                              !.left = {n \in Name : disk[l[1]][n] # Absent}]]
    /\ UNCHANGED <<disk, files, task, sends, idx, up, written, overrun, faults>>

\* Faulty variant: the hashes are not compared.
ModifiedAlways(f, c) == IndexVersion(f) <= f.synced

\* Local changes count only when we have the latest version of the file.
Modified(f, c) ==
    /\ IndexVersion(f) <= f.synced
    /\ f.hash # FileHash(c)

\* Faulty variant: the new version has the author of the one before.
NewVersionSameUser(d, f, c) ==
    [name |-> f.name, hash |-> FileHash(c), synced |-> IndexVersion(f) + 1,
     versions |-> Append(f.versions, [user |-> f.versions[Len(f.versions)].user,
                                      val  |-> IndexVersion(f) + 1]),
     blocks |-> GenBlocks(c)]

\* The row for a file that d has changed, and for one that d has created.
NewVersion(d, f, c) ==
    [name |-> f.name, hash |-> FileHash(c), synced |-> IndexVersion(f) + 1,
     versions |-> Append(f.versions, [user |-> d, val |-> IndexVersion(f) + 1]),
     blocks |-> GenBlocks(c)]
NewFile(d, n, c) ==
    [name |-> n, hash |-> FileHash(c), synced |-> 0,
     versions |-> <<[user |-> d, val |-> 0]>>, blocks |-> GenBlocks(c)]

\* One file of the listing.  A file removed since then cannot be opened, and
\* the unwrap ends the watcher.
ScanFile(l, n) ==
    LET d == l[1]
        c == disk[d][n]
        i == FindFile(watch[l].snap, n)
        f == watch[l].snap[i]
        Store(row) == [watch[l] EXCEPT !.at = "store", !.left = @ \ {n},
                                       !.pend = <<[id |-> i, row |-> row]>>]
    IN  /\ watch[l].at = "scan" /\ n \in watch[l].left
        /\ \/ /\ c = Absent
              /\ watch' = [watch EXCEPT ![l] = [WatchOff EXCEPT !.at = "dead"]]
           \/ /\ c # Absent /\ i # 0 /\ ~Modified(f, c)
              /\ watch' = [watch EXCEPT ![l].left = @ \ {n}]
           \/ /\ c # Absent /\ i # 0 /\ Modified(f, c)
              /\ Len(f.versions) < MaxVersions
              /\ watch' = [watch EXCEPT ![l] = Store(NewVersion(d, f, c))]
           \/ /\ c # Absent /\ i = 0
              /\ watch' = [watch EXCEPT ![l] = Store(NewFile(d, n, c))]
        /\ UNCHANGED <<disk, files, task, sends, idx, up, written, overrun,
                       faults>>

\* update_sync_file for that row, under the lock of the state.
ScanStore(l) ==
    LET d    == l[1]
        k    == watch[l]
        id   == k.pend[1].id
        row  == k.pend[1].row
        fit  == VersionsFit(files[d], id, row)
        snap == IF id = 0 THEN k.snap ELSE [k.snap EXCEPT ![id] = row]
    IN  /\ k.at = "store"
        /\ files' = [files EXCEPT ![d] = UpdateSyncFile(@, id, row)]
        /\ watch' = [watch EXCEPT ![l] =
                       IF fit
                       THEN [k EXCEPT !.at = "scan", !.pend = <<>>,
                                      !.changed = TRUE, !.snap = snap]
                       ELSE [WatchOff EXCEPT !.at = "dead"]]
        /\ overrun' = IF fit THEN overrun ELSE overrun \cup {d}
        /\ UNCHANGED <<disk, task, sends, idx, up, written, faults>>

\* The end of a scan; the watcher of a connection that is gone ends too.
ScanEnd(l) ==
    /\ watch[l].at = "scan" /\ watch[l].left = {}
    /\ sends' = IF watch[l].changed THEN DirectoryChanged(l[1]) ELSE sends
    /\ watch' = [watch EXCEPT ![l] =
                    IF @.live
                    THEN [WatchOff EXCEPT !.at = "idle", !.live = TRUE,
                                          !.event = watch[l].event]
                    ELSE WatchOff]
    /\ UNCHANGED <<disk, files, task, idx, up, written, overrun, faults>>
-----------------------------------------------------------------------------
(***************************************************************************)
(* PeerConnection::directory_updated, send_index and handlers::            *)
(* handle_index.                                                           *)
(***************************************************************************)

\* A failing send_index is logged and forgotten.
SendIndex(l) ==
    /\ l \in up /\ sends[l] > 0
    /\ sends' = [sends EXCEPT ![l] = @ - 1]
    /\ idx' = IF CanSendIndex(l[1])
              THEN [idx EXCEPT ![l] = Append(@, IndexOf(l[1]))]
              ELSE idx
    /\ UNCHANGED <<disk, files, watch, task, up, written, overrun, faults>>

RemoveIndexAt(s, k) ==
    [i \in 1..(Len(s) - 1) |-> IF i < k THEN s[i] ELSE s[i + 1]]

\* The reader spawns one task per message, so messages that arrived one after
\* the other are handled in any order, and at the same time.
HandleIndex(d, w, p, k) ==
    /\ <<p, d>> \in Link /\ task[d][w].at = "idle"
    /\ k \in 1..Len(idx[<<p, d>>])
    /\ idx' = [idx EXCEPT ![<<p, d>>] = RemoveIndexAt(@, k)]
    /\ task' = [task EXCEPT ![d][w] =
                  [@ EXCEPT !.at = "index", !.peer = p, !.live = TRUE,
                            !.snap = GetSyncFiles(d), !.pos = 1,
                            !.msg = idx[<<p, d>>][k]]]
    /\ UNCHANGED <<disk, files, watch, sends, up, written, overrun, faults>>

\* Faulty variant: the hash is not updated.
AnnouncedOldHash(f, info) ==
    [name |-> f.name, hash |-> f.hash, synced |-> f.synced,
     versions |-> info.versions, blocks |-> info.blocks]

\* The row that an announced file gets; hash is the hash of its first block.
Announced(f, info) ==
    [name |-> f.name, hash |-> info.blocks[1].hash, synced |-> f.synced,
     versions |-> info.versions, blocks |-> info.blocks]
AnnouncedNew(info) ==
    [name |-> info.name, hash |-> info.blocks[1].hash, synced |-> 0,
     versions |-> info.versions, blocks |-> info.blocks]

\* Only the lengths of the histories are compared.
UpToDate(rows, info) ==
    /\ HasRow(rows, info.name)
    /\ Len(rows[FindFile(rows, info.name)].versions) >= Len(info.versions)

\* One file of the Index.
IndexFile(d, w) ==
    LET t    == task[d][w]
        info == t.msg[t.pos]
        i    == FindFile(t.snap, info.name)
        row  == IF i = 0 THEN AnnouncedNew(info) ELSE Announced(t.snap[i], info)
        fit  == VersionsFit(files[d], i, row)
        snap == IF i = 0 THEN t.snap ELSE [t.snap EXCEPT ![i] = row]
    IN  /\ t.at = "index" /\ t.pos <= Len(t.msg)
        /\ \/ /\ UpToDate(t.snap, info)
              /\ task' = [task EXCEPT ![d][w] = [t EXCEPT !.pos = t.pos + 1]]
              /\ UNCHANGED <<files, overrun>>
           \/ /\ ~UpToDate(t.snap, info)
              /\ files' = [files EXCEPT ![d] = UpdateSyncFile(@, i, row)]
              /\ task' = [task EXCEPT ![d][w] =
                           IF fit
                           THEN [t EXCEPT !.pos = t.pos + 1, !.changed = TRUE,
                                          !.snap = snap]
                           ELSE IdleTask(d)]
              /\ overrun' = IF fit THEN overrun ELSE overrun \cup {d}
        /\ UNCHANGED <<disk, watch, sends, idx, up, written, faults>>

\* The last act of handle_index: a changed table starts a get_directory task.
IndexEnd(d, w) ==
    /\ task[d][w].at = "index" /\ task[d][w].pos > Len(task[d][w].msg)
    /\ task' = [task EXCEPT ![d][w] =
                  IF @.changed
                  THEN [IdleTask(d) EXCEPT !.at = "begin", !.peer = task[d][w].peer,
                                           !.live = task[d][w].live]
                  ELSE IdleTask(d)]
    /\ UNCHANGED <<disk, files, watch, sends, idx, up, written, overrun, faults>>
-----------------------------------------------------------------------------
(***************************************************************************)
(* PeerConnection::get_directory and get_file, handlers::handle_request.   *)
(* A request on a connection that is gone is never answered: the task      *)
(* waits for ever, and its worker is free for another one.                 *)
(***************************************************************************)
GetDirectory(d, w) ==
    /\ task[d][w].at = "begin"
    /\ task' = [task EXCEPT ![d][w] = [@ EXCEPT !.at = "next", !.pos = 1,
                                                !.snap = GetSyncFiles(d)]]
    /\ UNCHANGED <<disk, files, watch, sends, idx, up, written, overrun, faults>>

\* The task t of d after it has submitted the request for block k.
Asking(d, t, k) ==
    IF t.live THEN [t EXCEPT !.at = "asked", !.blk = k, !.ans = <<>>]
              ELSE IdleTask(d)

\* Faulty variant: only missing files are fetched.
WantedIfMissing(d, f) == disk[d][f.name] = Absent

\* A file is fetched when it is missing or when its latest version is.
Wanted(d, f) == disk[d][f.name] = Absent \/ f.synced < IndexVersion(f)

\* The next file of the snapshot; get_file gives up on a file without blocks.
GetFile(d, w) ==
    LET t == task[d][w]
        f == t.snap[t.pos]
    IN  /\ t.at = "next" /\ t.pos <= Len(t.snap)
        /\ task' = [task EXCEPT ![d][w] =
                      CASE ~Wanted(d, f)                     -> [t EXCEPT !.pos = t.pos + 1]
                        [] Wanted(d, f) /\ f.blocks # <<>> -> Asking(d, t, 1)
                        [] OTHER                             -> IdleTask(d)]
        /\ UNCHANGED <<disk, files, watch, sends, idx, up, written, overrun,
                       faults>>

WantedBlock(t) == t.snap[t.pos].blocks[t.blk]

\* The peer answers with the block that is on its disk now, if that block has
\* the hash that was asked for; every other answer is an error code.
HandleRequest(d, w) ==
    LET t == task[d][w]
        c == disk[t.peer][t.snap[t.pos].name]
        o == WantedBlock(t).offset
        ok == /\ CanReadBlock(c, o)
              /\ BlockHash(ReadBlock(c, o)) = WantedBlock(t).hash
    IN  /\ t.at = "asked"
        /\ task' = [task EXCEPT ![d][w] =
                      [t EXCEPT !.at = "answered",
                                !.ans = IF ok THEN <<ReadBlock(c, o)>> ELSE <<>>]]
        /\ UNCHANGED <<disk, files, watch, sends, idx, up, written, overrun,
                       faults>>

\* The answer arrives: the block goes to disk, or an error ends get_directory.
GotBlock(d, w) ==
    LET t == task[d][w]
        n == t.snap[t.pos].name
        ok == t.ans # <<>> /\ BlockHash(t.ans[1]) = WantedBlock(t).hash
    IN  /\ t.at = "answered"
        /\ IF ok
           THEN /\ disk' = [disk EXCEPT ![d][n] =
                              WriteBlock(@, WantedBlock(t).offset, t.ans[1])]
                /\ watch' = Notified(d)
                /\ task' = [task EXCEPT ![d][w].at = "store"]
           ELSE /\ task' = [task EXCEPT ![d][w] = IdleTask(d)]
                /\ UNCHANGED <<disk, watch>>
        /\ UNCHANGED <<files, sends, idx, up, written, overrun, faults>>

\* After each block: the version of the snapshot is recorded as synced.
Synced(f) == [f EXCEPT !.synced = IndexVersion(f)]

StoreSynced(d, w) ==
    LET t   == task[d][w]
        row == Synced(t.snap[t.pos])
        fit == VersionsFit(files[d], t.pos, row)
    IN  /\ t.at = "store"
        /\ files' = [files EXCEPT ![d] = UpdateSyncFile(@, t.pos, row)]
        /\ overrun' = IF fit THEN overrun ELSE overrun \cup {d}
        /\ task' = [task EXCEPT ![d][w] =
                      CASE ~fit -> IdleTask(d)
                        [] fit /\ t.blk < Len(row.blocks) ->
                              Asking(d, t, t.blk + 1)
                        [] OTHER -> [t EXCEPT !.at = "next", !.pos = t.pos + 1]]
        /\ UNCHANGED <<disk, watch, sends, idx, up, written, faults>>

GetDirectoryEnd(d, w) ==
    /\ task[d][w].at = "next" /\ task[d][w].pos > Len(task[d][w].snap)
    /\ sends' = DirectoryChanged(d)
    /\ task' = [task EXCEPT ![d][w] = IdleTask(d)]
    /\ UNCHANGED <<disk, files, watch, idx, up, written, overrun, faults>>
-----------------------------------------------------------------------------
(***************************************************************************)
(* Connections that are lost and made again; a process that dies.          *)
(***************************************************************************)
Reverse(l) == <<l[2], l[1]>>

\* What the loss of the connections in S does to a watcher and to a task.
CutWatch(l, S) ==
    CASE l \notin S                       -> watch[l]
      [] l \in S /\ watch[l].at \in {"scan", "store"}
                                          -> [watch[l] EXCEPT !.live = FALSE]
      [] OTHER                            -> WatchOff
CutTask(d, w, S) ==
    LET t == task[d][w]
    IN  CASE <<d, t.peer>> \notin S            -> t
          [] <<d, t.peer>> \in S /\ t.at = "asked" -> IdleTask(d)
          [] OTHER                             -> [t EXCEPT !.live = FALSE]

Disconnect(l) ==
    LET S == {l, Reverse(l)}
    IN  /\ l \in up /\ faults < MaxFaults
        /\ up' = up \ S
        /\ watch' = [m \in Link |-> CutWatch(m, S)]
        /\ task' = [d \in Device |-> [w \in Worker |-> CutTask(d, w, S)]]
        /\ sends' = [m \in Link |-> IF m \in S THEN 0 ELSE sends[m]]
        /\ idx' = [m \in Link |-> IF m \in S THEN <<>> ELSE idx[m]]
        /\ faults' = faults + 1
        /\ UNCHANGED <<disk, files, written, overrun>>

\* The process of d ends between two updates of its table; what is on disk
\* and in the table is all that is left of it.
Crash(d) ==
    LET S == {l \in Link : l[1] = d \/ l[2] = d}
    IN  /\ faults < MaxFaults
        /\ up' = up \ S
        /\ watch' = [m \in Link |-> IF m[1] = d THEN WatchOff
                                    ELSE CutWatch(m, S)]
        /\ task' = [e \in Device |-> [w \in Worker |->
                      IF e = d THEN IdleTask(d) ELSE CutTask(e, w, S)]]
        /\ sends' = [m \in Link |-> IF m \in S THEN 0 ELSE sends[m]]
        /\ idx' = [m \in Link |-> IF m \in S THEN <<>> ELSE idx[m]]
        /\ faults' = faults + 1
        /\ UNCHANGED <<disk, files, written, overrun>>

\* Faulty variant: no Index at the start of a connection.
ConnectSilently(l) ==
    /\ l \in Link \ up
    /\ up' = up \cup {l, Reverse(l)}
    /\ UNCHANGED <<disk, files, watch, task, sends, idx, written, overrun, faults>>

\* A connection begins with an Index from either side, queued by
\* handle_connection before it reads or writes anything; if one of the two
\* fails, that side gives the connection up.
Connect(l) ==
    LET S == {l, Reverse(l)}
    IN  /\ l \in Link \ up /\ CanSendIndex(l[1]) /\ CanSendIndex(l[2])
        /\ up' = up \cup S
        /\ idx' = [m \in Link |-> IF m \in S THEN <<IndexOf(m[1])>> ELSE idx[m]]
        /\ UNCHANGED <<disk, files, watch, task, sends, written, overrun, faults>>
-----------------------------------------------------------------------------
WatchStep(l) ==
    \/ WatchStart(l) \/ GenerateIndex(l)
    \/ \E n \in Name : ScanFile(l, n)
    \/ ScanStore(l) \/ ScanEnd(l)

TaskStep(d, w) ==
    \/ IndexFile(d, w) \/ IndexEnd(d, w)
    \/ GetDirectory(d, w) \/ GetFile(d, w) \/ HandleRequest(d, w)
    \/ GotBlock(d, w) \/ StoreSynced(d, w) \/ GetDirectoryEnd(d, w)

HandleSomeIndex(d, p) ==
    \E w \in Worker : \E k \in 1..Len(idx[<<p, d>>]) : HandleIndex(d, w, p, k)

Next ==
    \/ \E d \in Editor, n \in Name, c \in UserContent : UserWrite(d, n, c)
    \/ \E l \in Link : WatchStep(l) \/ SendIndex(l) \/ HandleSomeIndex(l[2], l[1])
    \/ \E d \in Device, w \in Worker : TaskStep(d, w)
    \/ \E l \in Link : Disconnect(l) \/ Connect(l)
    \/ \E d \in Device : Crash(d)

\* The runtime runs every task that can run and the network delivers; users,
\* faults and new connections are not owed to anyone.
Fairness ==
    /\ \A l \in Link : WF_vars(WatchStep(l)) /\ WF_vars(SendIndex(l))
                       /\ WF_vars(HandleSomeIndex(l[2], l[1]))
    /\ \A d \in Device, w \in Worker : WF_vars(TaskStep(d, w))

Spec == Init /\ [][Next]_vars
FairSpec == Spec /\ Fairness
-----------------------------------------------------------------------------
(***************************************************************************)
(* Properties.                                                             *)
(***************************************************************************)

\* Histories in a table and in an Index under way stay consecutive through
\* every merge of a stale snapshot with what other tasks have stored meanwhile
\* (update_sync_file appends a suffix of the caller's list), and no row claims
\* a version as synced that it does not have.
HistoriesWellFormed ==
    /\ \A d \in Device : \A i \in 1..Len(files[d]) :
          /\ Consecutive(files[d][i].versions)
          /\ files[d][i].synced <= IndexVersion(files[d][i])
    /\ \A l \in Link : \A k \in 1..Len(idx[l]) : \A i \in 1..Len(idx[l][k]) :
          Consecutive(idx[l][k][i].versions)

\* Rows stay where they are and keep their name, and what is in a history is
\* never changed nor dropped, whichever task stores the row.
HistoryOnlyGrows == \A d \in Device : Extends(files[d], files'[d])
HistoryAppendOnly == [][HistoryOnlyGrows]_vars

\* The version v is at place k of a history that d has of file n.
HasVersion(d, n, k, v) ==
    \E i \in 1..Len(files[d]) :
        /\ files[d][i].name = n
        /\ k <= Len(files[d][i].versions) /\ files[d][i].versions[k] = v

AllHave(n, vs) == \A k \in 1..Len(vs) : HasVersion(vs[k].user, n, k, vs[k])

\* No table and no Index has a version under the id of a device that does not
\* have it itself, at the same place: a device is never told of a change of its
\* own that it does not know, whatever was merged, overwritten or lost.
AuthorsHaveTheirVersions ==
    /\ \A d \in Device : \A i \in 1..Len(files[d]) :
          AllHave(files[d][i].name, files[d][i].versions)
    /\ \A l \in Link : \A k \in 1..Len(idx[l]) : \A i \in 1..Len(idx[l][k]) :
          AllHave(idx[l][k][i].name, idx[l][k][i].versions)

\* Some user has put the block b at place i of file n.
WroteAt(n, i, b) == \E k \in 1..Len(written[n]) :
                       i <= Len(written[n][k]) /\ written[n][k][i] = b

\* Downloads may leave a mixture of contents, since a block is asked for and read
\* at different times; but no block is where no user has put it, other than the
\* zeros that fill the gap before one.
BlocksInPlace ==
    \A d \in Device, n \in Name : \A i \in 1..Len(disk[d][n]) :
        disk[d][n][i] = Zero \/ WroteAt(n, i, disk[d][n][i])

\* A version stands for a change by a user: scans of files that a download has
\* just written, by any of a device's watchers, add none.
VersionsPerEdit ==
    \A d \in Device : \A i \in 1..Len(files[d]) :
        Len(files[d][i].versions) <= Len(written[files[d][i].name])

\* update_sync_file is never called with fewer versions than are stored.
NoOverrun == overrun = {}

\* When all activity has ended, every device has what the last user wrote.
LastEditEverywhere ==
    Settled =>
        \A d \in Device, n \in Name :
            written[n] # <<>> => disk[d][n] = written[n][Len(written[n])]

\* What a device knows of a file is the first row for it.
RowOf(d, n) == files[d][FindFile(files[d], n)]
Knows(d, n) == HasRow(files[d], n)

\* When all activity has ended, all devices know the same history of each file,
\* even if connections were lost, an Index or an answer with them, or a process
\* died while it merged an Index: the Index at the start of a connection makes
\* up for what was not delivered.
HistoriesAgree ==
    Settled =>
        \A n \in Name, d, e \in Device :
            Knows(d, n) => /\ Knows(e, n)
                           /\ RowOf(d, n).versions = RowOf(e, n).versions

\* A history stands for one content: devices that have the same list of versions
\* for a file have the same hash for it, at all times, also while an Index with
\* versions from the table and blocks from the disk is under way.
VersionNamesContent ==
    \A n \in Name, d, e \in Device :
        (/\ Knows(d, n) /\ Knows(e, n)
         /\ RowOf(d, n).versions = RowOf(e, n).versions)
        => RowOf(d, n).hash = RowOf(e, n).hash

\* All activity ends: the Index that follows a download, the scan that follows
\* its write and the Index that follows the scan do not go on for ever.
Settles == []<>Quiescent

-----------------------------------------------------------------------------
(***************************************************************************)
(* The inductive invariant: what a task holds on to is good, and its ids   *)
(* are those of the table, however old its snapshot is.                    *)
(***************************************************************************)
WatchOK(k, rows) ==
    /\ k \in Watch
    /\ SnapOf(k.snap, rows)
    /\ IF k.at = "store" THEN Len(k.pend) = 1 ELSE k.pend = <<>>
    /\ \A i \in 1..Len(k.pend) :
          /\ RowOK(k.pend[i].row)
          /\ k.pend[i].id \in 0..Len(k.snap)
          /\ k.pend[i].id # 0 =>
                k.pend[i].row.name = k.snap[k.pend[i].id].name

Downloading(t) == t.at \in {"asked", "answered", "store"}

TaskOK(t, rows) ==
    /\ t \in Task
    /\ SnapOf(t.snap, rows)
    /\ InfosOK(t.msg)
    /\ t.at \in {"index", "next"} => t.pos >= 1
    /\ Downloading(t) => /\ t.pos \in 1..Len(t.snap)
                         /\ t.blk \in 1..Len(t.snap[t.pos].blocks)

\* Every task, with whatever snapshot it took and however late it stores, holds
\* rows that can be stored: what makes HistoriesWellFormed inductive.
Inv ==
    /\ TypeOK
    /\ \A d \in Device : RowsOK(files[d])
    /\ \A l \in Link : WatchOK(watch[l], files[l[1]])
    /\ \A d \in Device, w \in Worker : TaskOK(task[d][w], files[d])
    /\ \A l \in Link : \A k \in 1..Len(idx[l]) : InfosOK(idx[l][k])
=============================================================================
