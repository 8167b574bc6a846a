------------------------------ MODULE Folders ------------------------------
(***************************************************************************)
(* The folders, shares and peers of several devices (bep_state.rs), and    *)
(* what a connection does with them: the peer is verified, an Index of     *)
(* every shared folder is queued, a ClusterConfig announces the shared     *)
(* folders, the receiver adds the ones it does not know as pending, its    *)
(* user accepts them, and their files are fetched.                         *)
(*                                                                         *)
(* The files of a folder are one file with one version; FolderSync has     *)
(* the rest.  Handlers are tasks; an action is what a task does between    *)
(* two waits for the lock of the state.  `tasks` is a set: two tasks of a  *)
(* device that are at the same point with the same arguments are one.      *)
(***************************************************************************)
EXTENDS Naturals, FiniteSets

CONSTANTS Device,
          Folder,          \* ids of folders
          Link,            \* <<d, p>>: d's end of the connection of d and p
          Owner,           \* <<d, f>>: the user of d may add folder f
          Author,          \* the devices whose users make files
          Paired,          \* Paired[d]: the peers d knows to begin with
          Watching,        \* the connections whose user has called watch
          AcceptWhenQuiet, \* users accept a folder only while no Index for it is
                           \* being merged
          ShareWhenDown,   \* users share a folder with a peer only while there is
                           \* no connection to it
          MaxDials,        \* bounds the connections
          MaxUpsets        \* bounds the lost connections and the folders that are
                           \* removed or lose their path, together

ASSUME FoldersAssumption ==
    /\ Link \subseteq Device \X Device
    /\ \A l \in Link : l[1] # l[2] /\ <<l[2], l[1]>> \in Link
    /\ Owner \subseteq Device \X Folder /\ Author \subseteq Device
    /\ Paired \in [Device -> SUBSET Device] /\ Watching \subseteq Link
    /\ AcceptWhenQuiet \in BOOLEAN /\ ShareWhenDown \in BOOLEAN
    /\ MaxDials \in Nat /\ MaxUpsets \in Nat

VARIABLES
    peers,    \* peers[d]: the peers d knows
    folder,   \* folder[d][f]: unknown, known without a path, or with one
    shares,   \* shares[d]: pairs <<f, p>>
    rows,     \* rows[d]: folders whose file is in d's table
    disk,     \* disk[d]: folders whose file is on d's disk
    conn,     \* conn[l]: progress of the connection at this end
    trust,    \* trust[l]: the peers that the verifier of this end accepts
    told,     \* told[l]: the folders of the ClusterConfig of this end
    idx,      \* idx[l]: Indexes that l[1] has queued for l[2]
    reader,   \* reader[l]: l[1]'s reader of what l[2] sends
    watch,    \* watch[l]: the watcher of this end
    tasks,    \* tasks[d]: the handlers and downloads of d
    taken,    \* history: <<d, f>>: the user of d has removed f or its path
    unknown,  \* history: <<l, f>>: an Index at l[1] was for an unknown folder
    dials,    \* number of connections
    upsets    \* number of lost connections and of folders taken away

device  == <<peers, folder, shares, rows, disk>>
link    == <<conn, trust, told, idx, reader, watch>>
history == <<taken, unknown>>
counts  == <<dials, upsets>>
vars    == <<device, link, tasks, history, counts>>

IndexMsg == [folder : Folder, files : BOOLEAN]
Task == [at : {"lookup", "merge", "get", "asked", "served", "updated"},
         peer : Device, folder : Folder, files : BOOLEAN, path : BOOLEAN,
         live : BOOLEAN]
Reader == [at : {"off", "config", "lookup", "add", "share", "loop", "dead"},
           todo : SUBSET Folder, cur : SUBSET Folder]
Watch == [at : {"off", "on", "ending", "dead"}, dirs : SUBSET Folder,
          event : BOOLEAN, todo : SUBSET (Folder \X BOOLEAN)]

ReaderOff == [at |-> "off", todo |-> {}, cur |-> {}]
WatchOff  == [at |-> "off", dirs |-> {}, event |-> FALSE, todo |-> {}]

TypeOK ==
    /\ peers \in [Device -> SUBSET Device]
    /\ folder \in [Device -> [Folder -> {"none", "pending", "local"}]]
    /\ shares \in [Device -> SUBSET (Folder \X Device)]
    /\ rows \in [Device -> SUBSET Folder] /\ disk \in [Device -> SUBSET Folder]
    /\ conn \in [Link -> {"down", "verify", "index", "config", "up"}]
    /\ trust \in [Link -> SUBSET Device] /\ told \in [Link -> SUBSET Folder]
    /\ idx \in [Link -> SUBSET IndexMsg]
    /\ reader \in [Link -> Reader] /\ watch \in [Link -> Watch]
    /\ tasks \in [Device -> SUBSET Task]
    /\ taken \subseteq Device \X Folder
    /\ unknown \subseteq Link \X Folder
    /\ dials \in 0..MaxDials /\ upsets \in 0..MaxUpsets

Init ==
    /\ peers = Paired
    /\ folder = [d \in Device |-> [f \in Folder |-> "none"]]
    /\ shares = [d \in Device |-> {}]
    /\ rows = [d \in Device |-> {}] /\ disk = [d \in Device |-> {}]
    /\ conn = [l \in Link |-> "down"]
    /\ trust = [l \in Link |-> {}] /\ told = [l \in Link |-> {}]
    /\ idx = [l \in Link |-> {}]
    /\ reader = [l \in Link |-> ReaderOff] /\ watch = [l \in Link |-> WatchOff]
    /\ tasks = [d \in Device |-> {}]
    /\ taken = {} /\ unknown = {}
    /\ dials = 0 /\ upsets = 0
-----------------------------------------------------------------------------
Reverse(l) == <<l[2], l[1]>>
LinksOf(d) == {l \in Link : l[1] = d}

\* get_sync_directories, get_synced_directories and is_directory_synced.
Known(d)     == {f \in Folder : folder[d][f] # "none"}
HasPath(d, f) == folder[d][f] = "local"
Synced(d, p) == {f \in Known(d) : <<f, p>> \in shares[d]}

NewTask(at, p, f) == [at |-> at, peer |-> p, folder |-> f, files |-> FALSE,
                      path |-> FALSE, live |-> TRUE]

\* BepState::directory_changed: directory_updated runs for every connection.
\* Those that are gone do nothing.
Updates(d, f) == {NewTask("updated", l[2], f) :
                    l \in {m \in LinksOf(d) : conn[m] \in {"index", "config", "up"}}}

\* A change of d's folder f is an event for d's watchers of it.
Notified(d, f) ==
    [l \in Link |-> IF l[1] = d /\ watch[l].at = "on" /\ f \in watch[l].dirs
                    THEN [watch[l] EXCEPT !.event = TRUE] ELSE watch[l]]

\* Task t of d makes way for the tasks in S.
Becomes(d, t, S) == tasks' = [tasks EXCEPT ![d] = (@ \ {t}) \cup S]
-----------------------------------------------------------------------------
(***************************************************************************)
(* What users do: the operations of BepState, and files.                   *)
(***************************************************************************)
AddPeer(d, p) ==
    /\ p \notin peers[d]
    /\ peers' = [peers EXCEPT ![d] = @ \cup {p}]
    /\ UNCHANGED <<folder, shares, rows, disk, link, tasks, history, counts>>

AddSyncDirectory(d, f) ==
    /\ <<d, f>> \in Owner /\ <<d, f>> \notin taken /\ folder[d][f] = "none"
    /\ folder' = [folder EXCEPT ![d][f] = "local"]
    /\ UNCHANGED <<peers, shares, rows, disk, link, tasks, history, counts>>

SyncDirectoryWithPeer(d, f, p) ==
    /\ f \in Known(d) /\ p \in peers[d] /\ <<f, p>> \notin shares[d]
    /\ ShareWhenDown => conn[<<d, p>>] = "down"
    /\ shares' = [shares EXCEPT ![d] = @ \cup {<<f, p>>}]
    /\ UNCHANGED <<peers, folder, rows, disk, link, tasks, history, counts>>

\* The merge of an Index for f is under way at d: it has looked the folder up.
Merging(d, f) == \E t \in tasks[d] : t.at = "merge" /\ t.folder = f

\* Faulty variant: the path is set, and that is all.
AcceptFolderOnly(d, f) ==
    /\ folder[d][f] = "pending" /\ \A l \in LinksOf(d) : f \notin reader[l].cur
    /\ AcceptWhenQuiet => ~Merging(d, f)
    /\ folder' = [folder EXCEPT ![d][f] = "local"]
    /\ UNCHANGED <<peers, shares, rows, disk, link, tasks, history, counts>>

\* set_sync_directory_path with a path, by a user who has learnt of the folder
\* from new_folder: get_directory is started on every connection the device has,
\* whoever it is to.
AcceptFolder(d, f) ==
    /\ folder[d][f] = "pending" /\ \A l \in LinksOf(d) : f \notin reader[l].cur
    /\ AcceptWhenQuiet => ~Merging(d, f)
    /\ folder' = [folder EXCEPT ![d][f] = "local"]
    /\ tasks' = [tasks EXCEPT ![d] = @ \cup
                   {[NewTask("get", l[2], f) EXCEPT !.path = TRUE] :
                      l \in {m \in LinksOf(d) : conn[m] # "down"}}]
    /\ UNCHANGED <<peers, shares, rows, disk, link, history, counts>>

\* ... and without one.
ForgetPath(d, f) ==
    /\ folder[d][f] = "local"
    /\ upsets < MaxUpsets /\ upsets' = upsets + 1
    /\ folder' = [folder EXCEPT ![d][f] = "pending"]
    /\ taken' = taken \cup {<<d, f>>}
    /\ UNCHANGED <<peers, shares, rows, disk, link, tasks, unknown, dials>>

\* The folder's row is deleted; its shares and the rows of its files are not.
RemoveSyncDirectory(d, f) ==
    /\ f \in Known(d)
    /\ upsets < MaxUpsets /\ upsets' = upsets + 1
    /\ folder' = [folder EXCEPT ![d][f] = "none"]
    /\ taken' = taken \cup {<<d, f>>}
    /\ UNCHANGED <<peers, shares, rows, disk, link, tasks, unknown, dials>>

MakeFile(d, f) ==
    /\ d \in Author /\ HasPath(d, f) /\ f \notin disk[d]
    /\ disk' = [disk EXCEPT ![d] = @ \cup {f}]
    /\ watch' = Notified(d, f)
    /\ UNCHANGED <<peers, folder, shares, rows, conn, trust, told, idx, reader,
                   tasks, history, counts>>

\* generate_index on a folder with a path records a file that has no row.
Records(d, f) ==
    IF f \in disk[d] \ rows[d]
    THEN /\ rows' = [rows EXCEPT ![d] = @ \cup {f}]
         /\ tasks' = [tasks EXCEPT ![d] = @ \cup Updates(d, f)]
    ELSE UNCHANGED <<rows, tasks>>

\* A user calls it.
GenerateIndex(d, f) ==
    /\ HasPath(d, f) /\ Records(d, f)
    /\ UNCHANGED <<peers, folder, shares, disk, link, history, counts>>
-----------------------------------------------------------------------------
(***************************************************************************)
(* A connection: verify_connection, the first send_index, ClusterConfig.   *)
(***************************************************************************)

\* The reader is in the middle of a ClusterConfig.
Handling(l) == reader[l].at \in {"lookup", "add", "share"}

\* Both ends read their list of peers before the handshake.  What is left of the
\* connection before, a scan and the handler of its ClusterConfig, has ended.
Dial(l) ==
    LET S == {l, Reverse(l)}
    IN  /\ dials < MaxDials /\ dials' = dials + 1
        /\ \A m \in S : conn[m] = "down" /\ watch[m].at # "ending" /\ ~Handling(m)
        /\ conn' = [m \in Link |-> IF m \in S THEN "verify" ELSE conn[m]]
        /\ trust' = [m \in Link |-> IF m \in S THEN peers[m[1]] ELSE trust[m]]
        /\ UNCHANGED <<device, told, idx, reader, watch, tasks, history, upsets>>

\* The connections in S are gone.  A watcher ends after its scan, a reader when it
\* would read again; a request that was sent is not answered, and its task waits
\* for ever.
Gone(S) ==
    /\ conn' = [m \in Link |-> IF m \in S THEN "down" ELSE conn[m]]
    /\ trust' = [m \in Link |-> IF m \in S THEN {} ELSE trust[m]]
    /\ told' = [m \in Link |-> IF m \in S THEN {} ELSE told[m]]
    /\ idx' = [m \in Link |-> IF m \in S THEN {} ELSE idx[m]]
    /\ reader' = [m \in Link |-> IF m \in S /\ ~Handling(m) THEN ReaderOff
                                                           ELSE reader[m]]
    /\ watch' = [m \in Link |->
                   CASE m \notin S -> watch[m]
                     [] m \in S /\ watch[m].todo # {} ->
                            [watch[m] EXCEPT !.at = "ending", !.event = FALSE]
                     [] OTHER -> WatchOff]
    /\ tasks' = [d \in Device |->
                   {IF <<d, t.peer>> \in S THEN [t EXCEPT !.live = FALSE] ELSE t :
                      t \in {u \in tasks[d] : <<d, u.peer>> \in S =>
                                                u.at \notin {"asked", "updated"}}}]

\* Faulty variant: any certificate will do.
VerifyAnyone(l) ==
    /\ conn[l] = "verify"
    /\ conn' = [conn EXCEPT ![l] = "index"]
    /\ UNCHANGED <<device, trust, told, idx, reader, watch, tasks, history, counts>>

\* check_cert compares the hash of the other's certificate with the list.
Verify(l) ==
    /\ conn[l] = "verify"
    /\ IF l[2] \in trust[l]
       THEN /\ conn' = [conn EXCEPT ![l] = "index"]
            /\ UNCHANGED <<trust, told, idx, reader, watch, tasks>>
       ELSE Gone({l, Reverse(l)})
    /\ UNCHANGED <<device, history, counts>>

\* send_index: gen_blocks fails for a file whose folder has no path or that is
\* not on disk, and with it send_index; earlier folders are queued by then.
Sendable(d, f) == f \in rows[d] => HasPath(d, f) /\ f \in disk[d]
CanSend(l)     == \A f \in Synced(l[1], l[2]) : Sendable(l[1], f)
Queued(l, S)   == [idx EXCEPT ![l] = @ \cup
                     {[folder |-> f, files |-> f \in rows[l[1]]] : f \in S}]

FirstIndex(l) ==
    /\ conn[l] = "index"
    /\ IF CanSend(l)
       THEN /\ conn' = [conn EXCEPT ![l] = "config"]
            /\ idx' = Queued(l, Synced(l[1], l[2]))
            /\ reader' = [reader EXCEPT ![l].at = "config"]
            /\ UNCHANGED <<trust, told, watch, tasks>>
       ELSE Gone({l, Reverse(l)})
    /\ UNCHANGED <<device, history, counts>>

\* Faulty variant: a folder without files is left out.
ClusterConfigNonEmpty(l) ==
    /\ conn[l] = "config"
    /\ conn' = [conn EXCEPT ![l] = "up"]
    /\ told' = [told EXCEPT ![l] = Synced(l[1], l[2]) \cap rows[l[1]]]
    /\ UNCHANGED <<device, trust, idx, reader, watch, tasks, history, counts>>

\* generate_cluster_config, when the writer has started: what is written before
\* the Indexes has been read from the state after them.
ClusterConfig(l) ==
    /\ conn[l] = "config"
    /\ conn' = [conn EXCEPT ![l] = "up"]
    /\ told' = [told EXCEPT ![l] = Synced(l[1], l[2])]
    /\ UNCHANGED <<device, trust, idx, reader, watch, tasks, history, counts>>

Disconnect(l) ==
    /\ conn[l] # "down" /\ upsets < MaxUpsets /\ upsets' = upsets + 1
    /\ Gone({l, Reverse(l)})
    /\ UNCHANGED <<device, history, dials>>
-----------------------------------------------------------------------------
(***************************************************************************)
(* handle_reading: the ClusterConfig is handled by the reader itself, an   *)
(* Index by a task of its own.  A reader that panics does not cancel the   *)
(* token: the connection stays, and nobody reads from it.                  *)
(***************************************************************************)
SetReader(l, at, todo, cur) ==
    reader' = [reader EXCEPT ![l] = [at |-> at, todo |-> todo, cur |-> cur]]

\* The handler of the ClusterConfig ends, for the next message or in a panic.
ConfigEnds(l, at) == SetReader(l, IF conn[l] = "down" THEN "off" ELSE at, {}, {})

ReadConfig(l) ==
    /\ reader[l].at = "config" /\ conn[Reverse(l)] = "up"
    /\ SetReader(l, "lookup", told[Reverse(l)], {})
    /\ UNCHANGED <<device, conn, trust, told, idx, watch, tasks, history, counts>>

\* Faulty variant: every folder on offer is added, known or not.
LookupFolderBlindly(l) ==
    /\ reader[l].at = "lookup"
    /\ \/ reader[l].todo = {} /\ ConfigEnds(l, "loop")
       \/ \E f \in reader[l].todo : SetReader(l, "add", reader[l].todo \ {f}, {f})
    /\ UNCHANGED <<device, conn, trust, told, idx, watch, tasks, history, counts>>

LookupFolder(l) ==
    /\ reader[l].at = "lookup"
    /\ \/ reader[l].todo = {} /\ ConfigEnds(l, "loop")
       \/ \E f \in reader[l].todo :
             IF f \in Known(l[1])
             THEN SetReader(l, "lookup", reader[l].todo \ {f}, {})
             ELSE SetReader(l, "add", reader[l].todo \ {f}, {f})
    /\ UNCHANGED <<device, conn, trust, told, idx, watch, tasks, history, counts>>

\* add_sync_directory: the id is unique, the insertion of a second one panics.
AddFolder(l) ==
    /\ reader[l].at = "add"
    /\ \E f \in reader[l].cur :
          IF f \in Known(l[1])
          THEN ConfigEnds(l, "dead") /\ UNCHANGED folder
          ELSE /\ folder' = [folder EXCEPT ![l[1]][f] = "pending"]
               /\ SetReader(l, "share", reader[l].todo, {f})
    /\ UNCHANGED <<peers, shares, rows, disk, conn, trust, told, idx, watch, tasks,
                   history, counts>>

\* sync_directory_with_peer asserts that the folder is there; new_folder then
\* tells the user's handler.
ShareFolder(l) ==
    /\ reader[l].at = "share"
    /\ \E f \in reader[l].cur :
          IF f \in Known(l[1])
          THEN /\ shares' = [shares EXCEPT ![l[1]] = @ \cup {<<f, l[2]>>}]
               /\ SetReader(l, "lookup", reader[l].todo, {})
          ELSE ConfigEnds(l, "dead") /\ UNCHANGED shares
    /\ UNCHANGED <<peers, folder, rows, disk, conn, trust, told, idx, watch, tasks,
                   history, counts>>

ReadIndex(l) ==
    /\ reader[l].at = "loop" /\ conn[Reverse(l)] = "up"
    /\ \E msg \in idx[Reverse(l)] :
          /\ idx' = [idx EXCEPT ![Reverse(l)] = @ \ {msg}]
          /\ tasks' = [tasks EXCEPT ![l[1]] = @ \cup
                {[NewTask("lookup", l[2], msg.folder) EXCEPT !.files = msg.files]}]
    /\ UNCHANGED <<device, conn, trust, told, reader, watch, history, counts>>
-----------------------------------------------------------------------------
(***************************************************************************)
(* Tasks: handle_index, get_directory with get_file, directory_updated.    *)
(***************************************************************************)

\* handle_index keeps the folder, and its path, as they are now.
LookupIndex(d, t) ==
    /\ t.at = "lookup"
    /\ IF t.folder \in Known(d)
       THEN /\ Becomes(d, t, {[t EXCEPT !.at = "merge", !.path = HasPath(d, t.folder)]})
            /\ UNCHANGED unknown
       ELSE /\ Becomes(d, t, {})
            /\ unknown' = unknown \cup {<<<<d, t.peer>>, t.folder>>}
    /\ UNCHANGED <<device, link, taken, counts>>

\* A file that was not known starts get_directory, with the path from before.
MergeIndex(d, t) ==
    /\ t.at = "merge"
    /\ IF t.files /\ t.folder \notin rows[d]
       THEN /\ rows' = [rows EXCEPT ![d] = @ \cup {t.folder}]
            /\ Becomes(d, t, {[t EXCEPT !.at = "get", !.files = FALSE]})
       ELSE Becomes(d, t, {}) /\ UNCHANGED rows
    /\ UNCHANGED <<peers, folder, shares, disk, link, history, counts>>

\* get_directory: nothing to fetch, no path to put it, or a request.
GetDirectory(d, t) ==
    /\ t.at = "get"
    /\ LET wanted == t.folder \in rows[d] /\ t.folder \notin disk[d]
       IN  \/ /\ t.folder \in rows[d] => t.path /\ ~wanted
              /\ Becomes(d, t, Updates(d, t.folder))
           \/ t.folder \in rows[d] /\ ~t.path /\ Becomes(d, t, {})
           \/ /\ wanted /\ t.path
              /\ Becomes(d, t, IF t.live THEN {[t EXCEPT !.at = "asked"]} ELSE {})
    /\ UNCHANGED <<device, link, history, counts>>

\* handle_request: the folder is known, shared with the one who asks and has a
\* path, and the file can be read.
Serves(p, d, f) ==
    f \in Known(p) /\ <<f, d>> \in shares[p] /\ HasPath(p, f) /\ f \in disk[p]

\* The request is read by the peer after the ClusterConfig; any answer but the
\* file ends the task.
HandleRequest(d, t) ==
    LET l == <<d, t.peer>>
    IN  /\ t.at = "asked" /\ conn[l] = "up"
        /\ conn[Reverse(l)] = "up" /\ reader[Reverse(l)].at = "loop"
        /\ IF Serves(t.peer, d, t.folder)
           THEN Becomes(d, t, {[t EXCEPT !.at = "served"]})
           ELSE Becomes(d, t, {})
        /\ UNCHANGED <<device, link, history, counts>>

\* The answer is read: the file is written to the path the task has, its row is
\* updated, and get_directory ends with directory_changed.
GotFile(d, t) ==
    /\ t.at = "served" /\ (t.live => reader[<<d, t.peer>>].at = "loop")
    /\ disk' = [disk EXCEPT ![d] = @ \cup {t.folder}]
    /\ watch' = Notified(d, t.folder)
    /\ Becomes(d, t, Updates(d, t.folder))
    /\ UNCHANGED <<peers, folder, shares, rows, conn, trust, told, idx, reader,
                   history, counts>>

\* directory_updated: Indexes of all folders shared with the peer, if the one
\* that has changed is among them; up to one that fails.
DirectoryUpdated(d, t) ==
    LET l == <<d, t.peer>>
    IN  /\ t.at = "updated"
        /\ Becomes(d, t, {})
        /\ IF t.folder \in Synced(d, t.peer)
           THEN \E S \in SUBSET {f \in Synced(d, t.peer) : Sendable(d, f)} :
                   /\ CanSend(l) => S = Synced(d, t.peer)
                   /\ idx' = Queued(l, S)
           ELSE UNCHANGED idx
        /\ UNCHANGED <<device, conn, trust, told, reader, watch, history, counts>>

TaskStep(d) ==
    \E t \in tasks[d] :
        \/ LookupIndex(d, t) \/ MergeIndex(d, t) \/ GetDirectory(d, t)
        \/ HandleRequest(d, t) \/ GotFile(d, t) \/ DirectoryUpdated(d, t)
-----------------------------------------------------------------------------
(***************************************************************************)
(* watcher::watch: which folders are watched is settled when it starts; an *)
(* event in one of them is a reason to scan all folders of the device.     *)
(***************************************************************************)
WatchStart(l) ==
    /\ l \in Watching /\ conn[l] = "up" /\ watch[l].at = "off"
    /\ watch' = [watch EXCEPT ![l] = [WatchOff EXCEPT !.at = "on",
          !.dirs = {f \in Synced(l[1], l[2]) : HasPath(l[1], f)}]]
    /\ UNCHANGED <<device, conn, trust, told, idx, reader, tasks, history, counts>>

WatchEvent(l) ==
    /\ watch[l].at = "on" /\ watch[l].event /\ watch[l].todo = {}
    /\ watch' = [watch EXCEPT ![l] = [@ EXCEPT !.event = FALSE,
                    !.todo = {<<f, HasPath(l[1], f)>> : f \in Known(l[1])}]]
    /\ UNCHANGED <<device, conn, trust, told, idx, reader, tasks, history, counts>>

\* generate_index unwraps the path.
ScanFolder(l) ==
    /\ \E e \in watch[l].todo :
          LET left == watch[l].todo \ {e}
          IN  IF e[2]
              THEN /\ Records(l[1], e[1])
                   /\ watch' = [watch EXCEPT ![l] =
                                  IF @.at = "ending" /\ left = {} THEN WatchOff
                                  ELSE [@ EXCEPT !.todo = left]]
              ELSE /\ watch' = [watch EXCEPT ![l] =
                                  IF @.at = "ending" THEN WatchOff
                                  ELSE [WatchOff EXCEPT !.at = "dead"]]
                   /\ UNCHANGED <<rows, tasks>>
    /\ UNCHANGED <<peers, folder, shares, disk, conn, trust, told, idx, reader,
                   history, counts>>
-----------------------------------------------------------------------------
UserStep ==
    \/ \E l \in Link : AddPeer(l[1], l[2])
    \/ \E d \in Device, f \in Folder :
          \/ AddSyncDirectory(d, f) \/ AcceptFolder(d, f) \/ ForgetPath(d, f)
          \/ RemoveSyncDirectory(d, f) \/ MakeFile(d, f) \/ GenerateIndex(d, f)
    \/ \E l \in Link, f \in Folder : SyncDirectoryWithPeer(l[1], f, l[2])

ConnStep(l)   == Verify(l) \/ FirstIndex(l) \/ ClusterConfig(l)
ReaderStep(l) == ReadConfig(l) \/ LookupFolder(l) \/ AddFolder(l) \/ ShareFolder(l)
                 \/ ReadIndex(l)
WatchStep(l)  == WatchStart(l) \/ WatchEvent(l) \/ ScanFolder(l)

SystemStep ==
    \/ \E l \in Link : ConnStep(l) \/ ReaderStep(l) \/ WatchStep(l)
    \/ \E d \in Device : TaskStep(d)

Next == UserStep \/ SystemStep \/ \E l \in Link : Dial(l) \/ Disconnect(l)

\* The runtime does not rest while a task can run or a message can be read; it
\* promises more than that, but a connection has only so many steps to take.
Fairness == WF_vars(SystemStep)

Spec     == Init /\ [][Next]_vars
FairSpec == Spec /\ Fairness
-----------------------------------------------------------------------------
(***************************************************************************)
(* Properties.                                                             *)
(***************************************************************************)

\* A folder that waits for the user is an offer by a device the user knows and
\* which shares the folder with this one: nobody else can put one there.
OffersFromPeers ==
    \A d \in Device, f \in Folder :
        (folder[d][f] = "pending" /\ <<d, f>> \notin taken) =>
            \E p \in peers[d] : <<f, d>> \in shares[p]

\* Although the Indexes of a connection are queued before its ClusterConfig is
\* made, and each is handled by a task of its own, an Index finds its folder at
\* the receiver: unless one of the two users has taken the folder away, or has
\* shared it when the ClusterConfig had been made.
IndexedIsKnown ==
    ShareWhenDown =>
        \A e \in unknown : \E d \in {e[1][1], e[1][2]} : <<d, e[2]>> \in taken

\* Somebody other than the connection l has had a hand in l[1]'s folder f: the user
\* of l[1] has added, accepted or taken it away, or another peer offers it too.
Disturbed(l, f) ==
    \/ folder[l[1]][f] = "local" \/ <<l[1], f>> \in taken
    \/ \E p \in peers[l[1]] \ {l[2]} : <<f, l[1]>> \in shares[p]

\* The handler of a ClusterConfig looks a folder up, adds it and shares it in
\* three critical sections, and panics when the folder has come or gone between
\* two of them.  That takes somebody who gets in between: the offers of one peer,
\* repeated over connections that follow each other, never end the reader.
PanicForCause ==
    \A l \in Link : reader[l].at = "dead" =>
        \E f \in told[Reverse(l)] : Disturbed(l, f)

\* Both ends are connected and read, and both share f.
Linked(d, p, f) ==
    LET l == <<d, p>>
    IN  /\ l \in Link /\ conn[l] = "up" /\ conn[Reverse(l)] = "up"
        /\ reader[l].at = "loop" /\ reader[Reverse(l)].at = "loop"
        /\ <<f, p>> \in shares[d] /\ <<f, d>> \in shares[p]

\* p's table has the file, or a watcher of p is about to find it: it has an event
\* of the folder or has not come to it in its scan.
Noticed(p, f) ==
    \/ f \in rows[p]
    \/ \E l \in LinksOf(p) : watch[l].at = "on"
                            /\ (watch[l].event \/ <<f, TRUE>> \in watch[l].todo)

\* A folder that its user has accepted gets the file that a peer has recorded or
\* whose watcher has noticed it, while they are connected for the first time, in
\* whatever order the offer, the Index, the acceptance and the scan have come;
\* only a watcher that dies of a folder without a path breaks the chain.
FilesFollow ==
    \A l \in Link, f \in Folder :
        LET here == /\ upsets = 0 /\ HasPath(l[1], f) /\ HasPath(l[2], f)
                    /\ Noticed(l[2], f) /\ f \in disk[l[2]]
                    /\ Linked(l[1], l[2], f)
        IN  here ~> (f \in disk[l[1]] \/ ~here)
=============================================================================
