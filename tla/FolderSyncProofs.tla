-------------------------- MODULE FolderSyncProofs --------------------------
(***************************************************************************)
(* Inv is inductive: type correctness and the well-formedness of histories *)
(* hold for any number of devices, files, handlers and faults, and tables  *)
(* only ever grow.  With it, AuthorInv (every version is known to its      *)
(* author) and PlaceInv (every block is where a user has put it) are       *)
(* inductive too.                                                          *)
(***************************************************************************)
EXTENDS FolderSync, SyncFilesProofs

(***************************************************************************)
(* The parts of Inv, one per kind of state.                                *)
(***************************************************************************)
InvRest ==
    /\ disk \in [Device -> [Name -> Content]]
    /\ sends \in [Link -> Nat]
    /\ up \subseteq Link
    /\ written \in [Name -> Seq(Content)]
    /\ overrun \subseteq Device
    /\ faults \in Nat
InvFiles ==
    /\ files \in [Device -> Seq(File)]
    /\ \A d \in Device : RowsOK(files[d])
InvWatch ==
    /\ watch \in [Link -> Watch]
    /\ \A l \in Link : WatchOK(watch[l], files[l[1]])
InvTask ==
    /\ task \in [Device -> [Worker -> Task]]
    /\ \A d \in Device, w \in Worker : TaskOK(task[d][w], files[d])
InvIdx ==
    /\ idx \in [Link -> Seq(Seq(FileInfo))]
    /\ \A l \in Link : \A k \in 1..Len(idx[l]) : InfosOK(idx[l][k])

LEMMA InvParts == Inv <=> InvRest /\ InvFiles /\ InvWatch /\ InvTask /\ InvIdx
  BY DEF Inv, TypeOK, InvRest, InvFiles, InvWatch, InvTask, InvIdx

LEMMA InvPartsNext ==
    Inv' <=> InvRest' /\ InvFiles' /\ InvWatch' /\ InvTask' /\ InvIdx'
  BY DEF Inv, TypeOK, InvRest, InvFiles, InvWatch, InvTask, InvIdx
-----------------------------------------------------------------------------
(***************************************************************************)
(* The rows that scans, Indexes and downloads store are good.              *)
(***************************************************************************)
LEMMA NewVersionOK ==
    ASSUME NEW d \in Device, NEW f, RowOK(f), NEW c \in Content, c # Absent
    PROVE  RowOK(NewVersion(d, f, c)) /\ NewVersion(d, f, c).name = f.name
<1> DEFINE v == [user |-> d, val |-> IndexVersion(f) + 1]
           r == NewVersion(d, f, c)
<1>1. f \in File /\ f.versions \in Seq(Version) /\ Consecutive(f.versions)
  BY DEF RowOK, File
<1>2. IndexVersion(f) = Len(f.versions) - 1 /\ Len(f.versions) \in Nat \ {0}
  BY <1>1, IndexVersionIsLast
<1>3. v \in Version
  BY <1>2 DEF Version
<1>4. /\ r.name = f.name /\ r.synced = Len(f.versions)
      /\ r.versions = Append(f.versions, v) /\ r.blocks = GenBlocks(c)
  BY <1>1, <1>2 DEF NewVersion, File
<1>5. /\ Append(f.versions, v) \in Seq(Version)
      /\ Len(Append(f.versions, v)) = Len(f.versions) + 1
      /\ \A i \in 1..Len(f.versions) + 1 :
            Append(f.versions, v)[i] = IF i <= Len(f.versions)
                                       THEN f.versions[i] ELSE v
  BY <1>1, <1>3
<1>6. Consecutive(Append(f.versions, v))
  BY <1>1, <1>2, <1>5, EmptySeq DEF Consecutive
<1>7. r \in File
  BY <1>1, <1>2, <1>3, <1>5, GenBlocksOfFile DEF File, FileHash, NewVersion
<1>8. QED  BY <1>2, <1>4, <1>5, <1>6, <1>7, GenBlocksOfFile DEF RowOK

LEMMA NewFileOK ==
    ASSUME NEW d \in Device, NEW n \in Name, NEW c \in Content, c # Absent
    PROVE  RowOK(NewFile(d, n, c))
<1> DEFINE vs == <<[user |-> d, val |-> 0]>>
<1>1. vs \in Seq(Version) /\ Len(vs) = 1 /\ Consecutive(vs)
  BY DEF Version, Consecutive
<1>2. QED  BY <1>1, GenBlocksOfFile DEF RowOK, NewFile, File, FileHash

LEMMA InfoFields ==
    ASSUME NEW info, InfoOK(info)
    PROVE  /\ info.name \in Name /\ info.versions \in Seq(Version)
           /\ info.blocks \in Seq(SyncBlock) /\ info.blocks[1].hash \in Content
           /\ Consecutive(info.versions) /\ Len(info.versions) \in Nat \ {0}
           /\ info.blocks # <<>>
<1>1. /\ info.name \in Name /\ info.versions \in Seq(Version)
      /\ info.blocks \in Seq(SyncBlock)
  BY DEF InfoOK, FileInfo
<1>2. 1 \in 1..Len(info.blocks)
  BY <1>1, EmptySeq DEF InfoOK
<1>3. info.blocks[1] \in SyncBlock
  BY <1>1, <1>2, ElementOfSeq
<1>4. Len(info.versions) \in Nat \ {0}
  BY <1>1, EmptySeq DEF InfoOK, Consecutive
<1>5. QED  BY <1>1, <1>3, <1>4 DEF SyncBlock, InfoOK

\* A longer history replaces the one of the snapshot, synced stays behind.
LEMMA AnnouncedOK ==
    ASSUME NEW f, RowOK(f), NEW info, InfoOK(info),
           Len(f.versions) < Len(info.versions)
    PROVE  RowOK(Announced(f, info)) /\ Announced(f, info).name = f.name
<1>1. f \in File /\ f.synced < Len(f.versions) /\ f.synced \in Nat
      /\ f.versions \in Seq(Version)
  BY DEF RowOK, File
<1>2. /\ Announced(f, info).name = f.name
      /\ Announced(f, info).synced = f.synced
      /\ Announced(f, info).versions = info.versions
      /\ Announced(f, info).blocks = info.blocks
  BY <1>1 DEF Announced, File
<1>3. Announced(f, info) \in File
  BY <1>1, InfoFields DEF Announced, File
<1>4. Len(f.versions) \in Nat
  BY <1>1
<1>5. QED  BY <1>1, <1>2, <1>3, <1>4, InfoFields DEF RowOK

LEMMA AnnouncedNewOK ==
    ASSUME NEW info, InfoOK(info)
    PROVE  RowOK(AnnouncedNew(info))
  BY InfoFields DEF RowOK, File, AnnouncedNew

LEMMA SyncedOK ==
    ASSUME NEW f, RowOK(f)
    PROVE  /\ RowOK(Synced(f)) /\ Synced(f).name = f.name
           /\ Synced(f).blocks = f.blocks
<1>1. f \in File /\ f.versions \in Seq(Version) /\ Consecutive(f.versions)
  BY DEF RowOK, File
<1>2. IndexVersion(f) = Len(f.versions) - 1 /\ Len(f.versions) \in Nat \ {0}
  BY <1>1, IndexVersionIsLast
<1>3. Synced(f) = [name |-> f.name, hash |-> f.hash,
                   synced |-> Len(f.versions) - 1,
                   versions |-> f.versions, blocks |-> f.blocks]
  BY <1>1, <1>2 DEF Synced, File
<1>4. QED  BY <1>1, <1>2, <1>3 DEF RowOK, File

\* What send_index announces, when it does.
LEMMA IndexOfOK ==
    ASSUME InvRest, InvFiles, NEW d \in Device, CanSendIndex(d)
    PROVE  InfosOK(IndexOf(d))
<1> DEFINE m == IndexOf(d)
<1>1. Len(files[d]) \in Nat /\ files[d] \in Seq(File)
  BY DEF InvFiles
<1>2. ASSUME NEW i \in 1..Len(files[d])
      PROVE  InfoOK([name     |-> files[d][i].name,
                     versions |-> files[d][i].versions,
                     blocks   |-> GenBlocks(disk[d][files[d][i].name])])
  <2>1. RowOK(files[d][i])
    BY DEF InvFiles, RowsOK
  <2>2. /\ files[d][i].name \in Name /\ files[d][i].versions \in Seq(Version)
        /\ Consecutive(files[d][i].versions)
    BY <2>1 DEF RowOK, File
  <2>3. disk[d][files[d][i].name] \in Content
    BY <2>2 DEF InvRest
  <2>4. disk[d][files[d][i].name] # Absent
    BY DEF CanSendIndex
  <2>5. QED  BY <2>2, <2>3, <2>4, GenBlocksOfFile DEF InfoOK, FileInfo
<1>3. \A i \in 1..Len(files[d]) : InfoOK(m[i])
  BY <1>2 DEF IndexOf
<1>4. m \in [1..Len(files[d]) -> FileInfo]
  BY <1>2 DEF InfoOK, IndexOf
<1>5. m \in Seq(FileInfo) /\ Len(m) = Len(files[d])
  BY <1>1, <1>4, FunIsSeq
<1>6. QED  BY <1>3, <1>5 DEF InfosOK
-----------------------------------------------------------------------------
(***************************************************************************)
(* What tasks and watchers hold on to stays good while tables grow.        *)
(***************************************************************************)
LEMMA LinkEnds ==
    ASSUME NEW l \in Link
    PROVE  /\ l[1] \in Device /\ l[2] \in Device /\ l = <<l[1], l[2]>>
           /\ <<l[2], l[1]>> \in Link
  BY LinkAssumption

LEMMA EmptySnap ==
    ASSUME NEW rows \in Seq(File)
    PROVE  SnapOf(<<>>, rows) /\ InfosOK(<<>>)
  BY DEF SnapOf, RowsOK, InfosOK

LEMMA IdleTaskOK ==
    ASSUME NEW d \in Device, NEW rows \in Seq(File)
    PROVE  TaskOK(IdleTask(d), rows)
<1>1. IdleTask(d) \in Task
  BY DEF IdleTask, Task
<1>2. QED  BY <1>1, EmptySnap DEF TaskOK, IdleTask, Downloading

LEMMA WatchOffOK ==
    ASSUME NEW rows \in Seq(File)
    PROVE  /\ WatchOK(WatchOff, rows)
           /\ WatchOK([WatchOff EXCEPT !.at = "dead"], rows)
           /\ \A e \in BOOLEAN :
                WatchOK([WatchOff EXCEPT !.at = "idle", !.live = TRUE,
                                         !.event = e], rows)
           /\ WatchOK([WatchOff EXCEPT !.at = "idle", !.live = TRUE], rows)
<1>0. /\ WatchOff \in Watch /\ WatchOff.snap = <<>> /\ WatchOff.pend = <<>>
      /\ WatchOff.at = "off"
  BY DEF WatchOff, Watch
<1>1. ASSUME NEW k \in Watch, k.snap = <<>>, k.pend = <<>>, k.at # "store"
      PROVE  WatchOK(k, rows)
  BY <1>1, EmptySnap DEF WatchOK
<1> DEFINE dead == [WatchOff EXCEPT !.at = "dead"]
           idle(e) == [WatchOff EXCEPT !.at = "idle", !.live = TRUE, !.event = e]
           new == [WatchOff EXCEPT !.at = "idle", !.live = TRUE]
<1>2. WatchOK(WatchOff, rows)
  BY <1>0, <1>1
<1>3. WatchOK(dead, rows)
  <2>1. dead \in Watch /\ dead.snap = <<>> /\ dead.pend = <<>> /\ dead.at = "dead"
    BY <1>0 DEF Watch
  <2>2. QED  BY <1>1, <2>1
<1>4. ASSUME NEW e \in BOOLEAN PROVE WatchOK(idle(e), rows)
  <2>1. /\ idle(e) \in Watch /\ idle(e).snap = <<>> /\ idle(e).pend = <<>>
        /\ idle(e).at = "idle"
    BY <1>0 DEF Watch
  <2>2. QED  BY <1>1, <2>1
<1>5. WatchOK(new, rows)
  <2>1. new \in Watch /\ new.snap = <<>> /\ new.pend = <<>> /\ new.at = "idle"
    BY <1>0 DEF Watch
  <2>2. QED  BY <1>1, <2>1
<1>6. QED  BY <1>2, <1>3, <1>4, <1>5

\* The tables of the next state extend those of this one.
Grown == InvFiles /\ InvFiles' /\ HistoryOnlyGrows

LEMMA WatchStays ==
    ASSUME Grown, NEW l \in Link, NEW k, WatchOK(k, files[l[1]])
    PROVE  WatchOK(k, files'[l[1]])
<1>1. l[1] \in Device
  BY LinkEnds
<1>2. SnapOf(k.snap, files'[l[1]])
  BY <1>1, SnapStays DEF Grown, InvFiles, HistoryOnlyGrows, WatchOK
<1>3. QED  BY <1>2 DEF WatchOK

LEMMA TaskStays ==
    ASSUME Grown, NEW d \in Device, NEW t, TaskOK(t, files[d])
    PROVE  TaskOK(t, files'[d])
<1>1. SnapOf(t.snap, files'[d])
  BY SnapStays DEF Grown, InvFiles, HistoryOnlyGrows, TaskOK
<1>2. QED  BY <1>1 DEF TaskOK

LEMMA KeepWatch ==
    ASSUME Grown, InvWatch, watch' = watch
    PROVE  InvWatch'
  BY WatchStays DEF InvWatch

LEMMA KeepTask ==
    ASSUME Grown, InvTask, task' = task
    PROVE  InvTask'
  BY TaskStays DEF InvTask

LEMMA SetWatch ==
    ASSUME Grown, InvWatch, NEW l \in Link, NEW k, WatchOK(k, files'[l[1]]),
           watch' = [watch EXCEPT ![l] = k]
    PROVE  InvWatch'
<1>1. k \in Watch
  BY DEF WatchOK
<1>2. watch' \in [Link -> Watch]
  BY <1>1 DEF InvWatch
<1>3. ASSUME NEW m \in Link PROVE WatchOK(watch'[m], files'[m[1]])
  <2>1. CASE m = l  BY <2>1 DEF InvWatch
  <2>2. CASE m # l
    <3>1. watch'[m] = watch[m]
      BY <2>2 DEF InvWatch
    <3>2. QED  BY <3>1, WatchStays DEF InvWatch
  <2>3. QED  BY <2>1, <2>2
<1>4. QED  BY <1>2, <1>3 DEF InvWatch

LEMMA SetTask ==
    ASSUME Grown, InvTask, NEW d \in Device, NEW w \in Worker, NEW t,
           TaskOK(t, files'[d]), task' = [task EXCEPT ![d][w] = t]
    PROVE  InvTask'
<1>1. t \in Task
  BY DEF TaskOK
<1>2. task' \in [Device -> [Worker -> Task]]
  BY <1>1 DEF InvTask
<1>3. ASSUME NEW e \in Device, NEW v \in Worker PROVE TaskOK(task'[e][v], files'[e])
  <2>1. CASE e = d /\ v = w  BY <2>1 DEF InvTask
  <2>2. CASE ~(e = d /\ v = w)
    <3>1. task'[e][v] = task[e][v]
      BY <2>2 DEF InvTask
    <3>2. QED  BY <3>1, TaskStays DEF InvTask
  <2>3. QED  BY <2>1, <2>2
<1>4. QED  BY <1>2, <1>3 DEF InvTask

\* An event for its watchers changes nothing else of them.
LEMMA NotifiedOK ==
    ASSUME Grown, InvWatch, NEW d \in Device, watch' = Notified(d)
    PROVE  InvWatch'
<1>1. ASSUME NEW l \in Link
      PROVE  WatchOK(watch'[l], files'[l[1]]) /\ watch'[l] \in Watch
  <2> DEFINE k == watch[l]
             n == [k EXCEPT !.event = TRUE]
  <2>1. WatchOK(k, files'[l[1]]) /\ k \in Watch
    BY WatchStays DEF InvWatch
  <2>2. /\ n \in Watch /\ n.snap = k.snap /\ n.pend = k.pend /\ n.at = k.at
    BY <2>1 DEF Watch
  <2>3. WatchOK(n, files'[l[1]])
    BY <2>1, <2>2 DEF WatchOK
  <2>4. watch'[l] = k \/ watch'[l] = n
    BY DEF Notified
  <2>5. QED  BY <2>1, <2>2, <2>3, <2>4
<1>2. watch' \in [Link -> Watch]
  BY <1>1 DEF Notified
<1>3. QED  BY <1>1, <1>2 DEF InvWatch

(***************************************************************************)
(* A table that is not written to, and one that update_sync_file writes.   *)
(***************************************************************************)
LEMMA SameFiles ==
    ASSUME InvFiles, files' = files
    PROVE  Grown
<1>1. InvFiles'
  BY DEF InvFiles
<1>2. HistoryOnlyGrows
  BY ExtendsItself DEF InvFiles, HistoryOnlyGrows
<1>3. QED  BY <1>1, <1>2 DEF Grown

LEMMA StoreRow ==
    ASSUME InvFiles, NEW d \in Device, NEW id \in 0..Len(files[d]), NEW row,
           RowOK(row), id # 0 => row.name = files[d][id].name,
           files' = [files EXCEPT ![d] = UpdateSyncFile(@, id, row)]
    PROVE  Grown
<1> DEFINE new == UpdateSyncFile(files[d], id, row)
<1>1. RowsOK(new) /\ Extends(files[d], new)
  BY UpdateExtends DEF InvFiles
<1>2. new \in Seq(File)
  BY <1>1 DEF RowsOK
<1>3. files' = [files EXCEPT ![d] = new]
  OBVIOUS
<1> HIDE DEF new
<1>4. /\ files' \in [Device -> Seq(File)]
      /\ \A e \in Device : files'[e] = IF e = d THEN new ELSE files[e]
  BY <1>2, <1>3 DEF InvFiles
<1>5. \A e \in Device : RowsOK(files'[e]) /\ Extends(files[e], files'[e])
  BY <1>1, <1>4, ExtendsItself DEF InvFiles
<1>6. QED  BY <1>4, <1>5 DEF Grown, InvFiles, HistoryOnlyGrows
-----------------------------------------------------------------------------
(***************************************************************************)
(* The steps of users and watchers.                                        *)
(***************************************************************************)
LEMMA DirectoryChangedIsCount ==
    ASSUME InvRest, NEW d \in Device
    PROVE  DirectoryChanged(d) \in [Link -> Nat]
  BY DEF InvRest, DirectoryChanged

LEMMA SnapUpdate ==
    ASSUME NEW snap, NEW rows \in Seq(File), SnapOf(snap, rows),
           NEW i \in 1..Len(snap), NEW row, RowOK(row), row.name = snap[i].name
    PROVE  SnapOf([snap EXCEPT ![i] = row], rows)
<1> DEFINE new == [snap EXCEPT ![i] = row]
<1>1. snap \in Seq(File) /\ row \in File
  BY DEF SnapOf, RowsOK, RowOK
<1>2. /\ new \in Seq(File) /\ Len(new) = Len(snap)
      /\ \A j \in 1..Len(snap) : new[j] = IF j = i THEN row ELSE snap[j]
  BY <1>1, ExceptSeq
<1> HIDE DEF new
<1>3. RowsOK(new)
  BY <1>2 DEF RowsOK, SnapOf
<1>4. SnapOf(new, rows)
  BY <1>2, <1>3 DEF SnapOf
<1>5. QED  BY <1>4 DEF new

LEMMA UserWriteKeeps ==
    ASSUME Inv, NEW d \in Editor, NEW n \in Name, NEW c \in UserContent,
           UserWrite(d, n, c)
    PROVE  Grown /\ Inv'
<1>0. InvRest /\ InvFiles /\ InvWatch /\ InvTask /\ InvIdx
  BY InvParts
<1>1. d \in Device /\ c \in Content
  BY UserAssumption
<1>2. Grown
  BY <1>0, SameFiles DEF UserWrite
<1>3. InvRest'
  BY <1>0, <1>1 DEF InvRest, UserWrite
<1>4. InvWatch'
  BY <1>0, <1>1, <1>2, NotifiedOK DEF UserWrite
<1>5. InvTask'
  BY <1>0, <1>2, KeepTask DEF UserWrite
<1>6. InvIdx'
  BY <1>0 DEF InvIdx, UserWrite
<1>7. QED  BY <1>2, <1>3, <1>4, <1>5, <1>6, InvPartsNext DEF Grown

\* A step that changes nothing but the watcher of l.
LEMMA WatcherKeeps ==
    ASSUME Inv, NEW l \in Link, NEW k, WatchOK(k, files[l[1]]),
           watch' = [watch EXCEPT ![l] = k],
           sends' \in [Link -> Nat],
           UNCHANGED <<disk, files, task, idx, up, written, overrun, faults>>
    PROVE  Grown /\ Inv'
<1>0. InvRest /\ InvFiles /\ InvWatch /\ InvTask /\ InvIdx
  BY InvParts
<1>1. Grown
  BY <1>0, SameFiles
<1>2. InvRest'
  BY <1>0 DEF InvRest
<1>3. InvWatch'
  BY <1>0, <1>1, SetWatch
<1>4. InvTask'
  BY <1>0, <1>1, KeepTask
<1>5. InvIdx'
  BY <1>0 DEF InvIdx
<1>6. QED  BY <1>1, <1>2, <1>3, <1>4, <1>5, InvPartsNext DEF Grown

LEMMA WatchStartKeeps ==
    ASSUME Inv, NEW l \in Link, WatchStart(l)
    PROVE  Grown /\ Inv'
<1> DEFINE k == [WatchOff EXCEPT !.at = "idle", !.live = TRUE]
<1>1. InvRest /\ InvFiles
  BY InvParts
<1>2. WatchOK(k, files[l[1]])
  BY <1>1, LinkEnds, WatchOffOK DEF InvFiles
<1>3. /\ watch' = [watch EXCEPT ![l] = k] /\ sends' = sends
      /\ UNCHANGED <<disk, files, task, idx, up, written, overrun, faults>>
  BY DEF WatchStart
<1> HIDE DEF k
<1>4. QED  BY <1>1, <1>2, <1>3, WatcherKeeps DEF InvRest

LEMMA GenerateIndexKeeps ==
    ASSUME Inv, NEW l \in Link, GenerateIndex(l)
    PROVE  Grown /\ Inv'
<1> DEFINE L == {n \in Name : disk[l[1]][n] # Absent}
           k == [watch[l] EXCEPT !.at = "scan", !.event = FALSE,
                                 !.snap = files[l[1]], !.changed = FALSE,
                                 !.left = L]
<1>1. InvRest /\ InvFiles /\ InvWatch
  BY InvParts
<1>2. /\ watch[l] \in Watch /\ WatchOK(watch[l], files[l[1]])
      /\ watch[l].at = "idle" /\ l[1] \in Device
      /\ files[l[1]] \in Seq(File) /\ L \in SUBSET Name
  BY <1>1, LinkEnds DEF InvFiles, InvWatch, GenerateIndex
<1>3. k \in Watch
  BY <1>2 DEF Watch
<1>4. k.at = "scan" /\ k.snap = files[l[1]] /\ k.pend = watch[l].pend
  BY <1>2 DEF Watch
<1>5. watch[l].pend = <<>>
  BY <1>2 DEF WatchOK
<1>6. WatchOK(k, files[l[1]])
  <2> HIDE DEF k
  <2>1. SnapOf(files[l[1]], files[l[1]])
    BY <1>1, <1>2, ExtendsItself DEF InvFiles
  <2>2. QED  BY <1>3, <1>4, <1>5, <2>1 DEF WatchOK
<1>7. /\ watch' = [watch EXCEPT ![l] = k] /\ sends' = sends
      /\ UNCHANGED <<disk, files, task, idx, up, written, overrun, faults>>
  BY DEF GenerateIndex, GetSyncFiles
<1> HIDE DEF k
<1>8. QED  BY <1>1, <1>6, <1>7, WatcherKeeps DEF InvRest

\* The watcher turns to the row of the next file.
LEMMA ScanFileKeeps ==
    ASSUME Inv, NEW l \in Link, NEW n \in Name, ScanFile(l, n)
    PROVE  Grown /\ Inv'
<1> DEFINE d == l[1]
           c == disk[d][n]
           k == watch[l]
           i == FindFile(k.snap, n)
           rows == files[d]
<1>1. InvRest /\ InvFiles /\ InvWatch
  BY InvParts
<1>2. /\ k \in Watch /\ WatchOK(k, rows) /\ k.at = "scan" /\ k.pend = <<>>
      /\ d \in Device /\ rows \in Seq(File) /\ c \in Content
  <2>1. k.at = "scan"
    BY DEF ScanFile
  <2>2. d \in Device
    BY LinkEnds
  <2>3. k \in Watch /\ WatchOK(k, rows) /\ rows \in Seq(File) /\ c \in Content
    BY <1>1, <2>2 DEF InvRest, InvFiles, InvWatch
  <2>4. k.pend = <<>>
    BY <2>1, <2>3 DEF WatchOK
  <2>5. QED  BY <2>1, <2>2, <2>3, <2>4
<1>3. /\ sends' \in [Link -> Nat]
      /\ UNCHANGED <<disk, files, task, idx, up, written, overrun, faults>>
  BY <1>1 DEF ScanFile, InvRest
<1>4. /\ i \in 0..Len(k.snap) /\ k.snap \in Seq(File)
      /\ i # 0 => k.snap[i].name = n /\ RowOK(k.snap[i])
  BY <1>2, FindFileFinds DEF WatchOK, SnapOf, RowsOK
<1>5. ASSUME NEW m, WatchOK(m, rows), watch' = [watch EXCEPT ![l] = m]
      PROVE  Grown /\ Inv'
  BY <1>3, <1>5, WatcherKeeps
<1>6. ASSUME NEW row, RowOK(row), i # 0 => row.name = k.snap[i].name,
             watch' = [watch EXCEPT ![l] =
                         [k EXCEPT !.at = "store", !.left = @ \ {n},
                                   !.pend = <<[id |-> i, row |-> row]>>]]
      PROVE  Grown /\ Inv'
  <2> DEFINE q == <<[id |-> i, row |-> row]>>
             m == [k EXCEPT !.at = "store", !.left = @ \ {n}, !.pend = q]
  <2>1. q \in Seq(Pending) /\ Len(q) = 1 /\ q[1].id = i /\ q[1].row = row
    BY <1>4, <1>6 DEF Pending, RowOK
  <2> HIDE DEF q
  <2>2. m \in Watch
    BY <1>2, <2>1 DEF Watch
  <2>3. m.at = "store" /\ m.snap = k.snap /\ m.pend = q
    BY <1>2 DEF Watch
  <2>4. watch' = [watch EXCEPT ![l] = m]
    BY <1>6 DEF q
  <2> HIDE DEF m
  <2>5. WatchOK(m, rows)
    <3>1. ASSUME NEW j \in 1..Len(m.pend)
          PROVE  /\ m.pend[j].row = row /\ m.pend[j].id = i
      <4>1. Len(m.pend) = 1
        BY <2>1, <2>3
      <4>2. j = 1
        BY <4>1
      <4>3. QED  BY <4>2, <2>1, <2>3
    <3>2. SnapOf(m.snap, rows)
      BY <1>2, <2>3 DEF WatchOK
    <3>3. QED  BY <1>4, <1>6, <2>1, <2>2, <2>3, <3>1, <3>2 DEF WatchOK
  <2>6. QED  BY <1>5, <2>4, <2>5
<1>7. CASE c = Absent
  BY <1>2, <1>5, <1>7, WatchOffOK DEF ScanFile
<1>8. CASE c # Absent /\ i # 0 /\ ~Modified(k.snap[i], c)
  <2> DEFINE m == [k EXCEPT !.left = @ \ {n}]
  <2>1. m \in Watch
    BY <1>2 DEF Watch
  <2>2. m.at = k.at /\ m.snap = k.snap /\ m.pend = k.pend
    BY <1>2 DEF Watch
  <2>3. watch' = [watch EXCEPT ![l] = m]
    BY <1>8 DEF ScanFile
  <2> HIDE DEF m
  <2>4. WatchOK(m, rows)
    BY <1>2, <2>1, <2>2 DEF WatchOK
  <2>5. QED  BY <1>5, <2>3, <2>4
<1>9. CASE c # Absent /\ i # 0 /\ Modified(k.snap[i], c)
  <2>1. /\ RowOK(NewVersion(d, k.snap[i], c))
        /\ NewVersion(d, k.snap[i], c).name = k.snap[i].name
    BY <1>2, <1>4, <1>9, NewVersionOK
  <2>2. watch' = [watch EXCEPT ![l] =
                    [k EXCEPT !.at = "store", !.left = @ \ {n},
                              !.pend = <<[id |-> i,
                                          row |-> NewVersion(d, k.snap[i], c)]>>]]
    BY <1>9 DEF ScanFile
  <2>3. QED  BY <1>6, <2>1, <2>2
<1>10. CASE c # Absent /\ i = 0
  <2>1. RowOK(NewFile(d, n, c))
    BY <1>2, <1>10, NewFileOK
  <2>2. watch' = [watch EXCEPT ![l] =
                    [k EXCEPT !.at = "store", !.left = @ \ {n},
                              !.pend = <<[id |-> i, row |-> NewFile(d, n, c)]>>]]
    BY <1>10 DEF ScanFile
  <2>3. QED  BY <1>6, <1>10, <2>1, <2>2
<1>11. QED  BY <1>7, <1>8, <1>9, <1>10

LEMMA ScanStoreKeeps ==
    ASSUME Inv, NEW l \in Link, ScanStore(l)
    PROVE  Grown /\ Inv'
<1> DEFINE d == l[1]
           k == watch[l]
           id == k.pend[1].id
           row == k.pend[1].row
           fit == VersionsFit(files[d], id, row)
           snap == IF id = 0 THEN k.snap ELSE [k.snap EXCEPT ![id] = row]
           m == [k EXCEPT !.at = "scan", !.pend = <<>>, !.changed = TRUE,
                          !.snap = snap]
           dead == [WatchOff EXCEPT !.at = "dead"]
<1>0. InvRest /\ InvFiles /\ InvWatch /\ InvTask /\ InvIdx
  BY InvParts
<1>1. d \in Device
  BY LinkEnds
<1>2. k \in Watch /\ WatchOK(k, files[d]) /\ files[d] \in Seq(File)
  BY <1>0, <1>1 DEF InvFiles, InvWatch
<1>3. Len(k.pend) = 1
  BY <1>2 DEF WatchOK, ScanStore
<1>4. /\ RowOK(row) /\ id \in 0..Len(k.snap) /\ SnapOf(k.snap, files[d])
      /\ id # 0 => row.name = k.snap[id].name
  <2>1. 1 \in 1..Len(k.pend)
    BY <1>3
  <2>2. QED  BY <1>2, <2>1 DEF WatchOK
<1>5. /\ id \in 0..Len(files[d]) /\ k.snap \in Seq(File)
      /\ id # 0 => row.name = files[d][id].name
  <2> HIDE DEF id, row
  <2>1. Len(k.snap) \in Nat /\ Len(files[d]) \in Nat /\ k.snap \in Seq(File)
    BY <1>2, <1>4 DEF SnapOf, RowsOK
  <2>2. Len(k.snap) <= Len(files[d])
    BY <1>4 DEF SnapOf
  <2>3. id # 0 => id \in 1..Len(k.snap)
    BY <1>4, <2>1
  <2>4. QED  BY <1>4, <2>1, <2>2, <2>3 DEF SnapOf
<1>6. files' = [files EXCEPT ![d] = UpdateSyncFile(@, id, row)]
  BY DEF ScanStore
<1>7. Grown
  <2> HIDE DEF id, row
  <2>1. QED  BY <1>0, <1>1, <1>4, <1>5, <1>6, StoreRow
<1>8. files'[d] \in Seq(File) /\ SnapOf(k.snap, files'[d])
  BY <1>1, <1>2, <1>4, <1>7, SnapStays DEF Grown, InvFiles, HistoryOnlyGrows
<1>9. SnapOf(snap, files'[d])
  <2> HIDE DEF id, row
  <2>1. CASE id = 0
    BY <1>8, <2>1
  <2>2. CASE id # 0
    BY <1>4, <1>5, <1>8, <2>2, SnapUpdate
  <2>3. QED  BY <2>1, <2>2
<1>10. WatchOK(m, files'[d])
  <2>1. snap \in Seq(File) /\ <<>> \in Seq(Pending)
    BY <1>9 DEF SnapOf, RowsOK
  <2> HIDE DEF snap
  <2>2. m \in Watch
    BY <1>2, <2>1 DEF Watch
  <2>3. m.at = "scan" /\ m.pend = <<>> /\ m.snap = snap
    BY <1>2 DEF Watch
  <2> HIDE DEF m
  <2>4. QED  BY <1>9, <2>2, <2>3 DEF WatchOK
<1>11. InvWatch'
  <2>1. WatchOK(dead, files'[d])
    BY <1>8, WatchOffOK
  <2>2. watch' = [watch EXCEPT ![l] = IF fit THEN m ELSE dead]
    BY DEF ScanStore
  <2> HIDE DEF m, dead, fit
  <2>3. WatchOK(IF fit THEN m ELSE dead, files'[d])
    BY <1>10, <2>1
  <2>4. QED  BY <1>0, <1>7, <2>2, <2>3, SetWatch
<1>12. InvTask'
  BY <1>0, <1>7, KeepTask DEF ScanStore
<1>13. InvRest' /\ InvIdx'
  BY <1>0, <1>1 DEF InvRest, InvIdx, ScanStore
<1>14. QED  BY <1>7, <1>11, <1>12, <1>13, InvPartsNext DEF Grown

LEMMA ScanEndKeeps ==
    ASSUME Inv, NEW l \in Link, ScanEnd(l)
    PROVE  Grown /\ Inv'
<1> DEFINE e == watch[l].event
           k == IF watch[l].live
                THEN [WatchOff EXCEPT !.at = "idle", !.live = TRUE, !.event = e]
                ELSE WatchOff
<1>1. InvRest /\ InvFiles /\ InvWatch
  BY InvParts
<1>2. e \in BOOLEAN /\ l[1] \in Device /\ files[l[1]] \in Seq(File)
  BY <1>1, LinkEnds DEF InvFiles, InvWatch, Watch
<1>3. WatchOK(k, files[l[1]])
  BY <1>2, WatchOffOK
<1>4. sends' \in [Link -> Nat]
  BY <1>1, <1>2, DirectoryChangedIsCount DEF ScanEnd, InvRest
<1>5. /\ watch' = [watch EXCEPT ![l] = k]
      /\ UNCHANGED <<disk, files, task, idx, up, written, overrun, faults>>
  BY DEF ScanEnd
<1> HIDE DEF k
<1>6. QED  BY <1>3, <1>4, <1>5, WatcherKeeps
-----------------------------------------------------------------------------
(***************************************************************************)
(* The steps of Index messages and their handlers.                         *)
(***************************************************************************)
LEMMA SendIndexKeeps ==
    ASSUME Inv, NEW l \in Link, SendIndex(l)
    PROVE  Grown /\ Inv'
<1> DEFINE m == IndexOf(l[1])
<1>0. InvRest /\ InvFiles /\ InvWatch /\ InvTask /\ InvIdx
  BY InvParts
<1>1. Grown
  BY <1>0, SameFiles DEF SendIndex
<1>2. InvRest'
  BY <1>0 DEF InvRest, SendIndex
<1>3. InvWatch' /\ InvTask'
  BY <1>0, <1>1, KeepWatch, KeepTask DEF SendIndex
<1>4. InvIdx'
  <2>1. CASE ~CanSendIndex(l[1])
    BY <2>1, <1>0 DEF InvIdx, SendIndex
  <2>2. CASE CanSendIndex(l[1])
    <3>1. InfosOK(m) /\ m \in Seq(FileInfo)
      BY <1>0, <2>2, LinkEnds, IndexOfOK DEF InfosOK
    <3>2. idx' = [idx EXCEPT ![l] = Append(@, m)]
      BY <2>2 DEF SendIndex
    <3> HIDE DEF m
    <3>3. idx' \in [Link -> Seq(Seq(FileInfo))]
      BY <1>0, <3>1, <3>2 DEF InvIdx
    <3>4. ASSUME NEW j \in Link, NEW i \in 1..Len(idx'[j])
          PROVE  InfosOK(idx'[j][i])
      <4>1. CASE j # l
        BY <1>0, <3>2, <4>1 DEF InvIdx
      <4>2. CASE j = l
        <5>1. idx'[j] = Append(idx[l], m) /\ idx[l] \in Seq(Seq(FileInfo))
          BY <1>0, <3>2, <4>2 DEF InvIdx
        <5>2. idx'[j][i] = m \/ (i \in 1..Len(idx[l]) /\ idx'[j][i] = idx[l][i])
          BY <3>1, <5>1
        <5>3. QED  BY <1>0, <3>1, <5>2 DEF InvIdx
      <4>3. QED  BY <4>1, <4>2
    <3>5. QED  BY <3>3, <3>4 DEF InvIdx
  <2>3. QED  BY <2>1, <2>2
<1>5. QED  BY <1>1, <1>2, <1>3, <1>4, InvPartsNext DEF Grown

\* A step of d's handler w that changes nothing but the handler itself, the
\* number of tasks that wait to run, and the Index messages.
LEMMA HandlerKeeps ==
    ASSUME Inv, NEW d \in Device, NEW w \in Worker, NEW t, TaskOK(t, files[d]),
           task' = [task EXCEPT ![d][w] = t],
           sends' \in [Link -> Nat], InvIdx',
           UNCHANGED <<disk, files, watch, up, written, overrun, faults>>
    PROVE  Grown /\ Inv'
<1>0. InvRest /\ InvFiles /\ InvWatch /\ InvTask /\ InvIdx
  BY InvParts
<1>1. Grown
  BY <1>0, SameFiles
<1>2. InvRest'
  BY <1>0 DEF InvRest
<1>3. InvWatch' /\ InvTask'
  BY <1>0, <1>1, KeepWatch, SetTask
<1>4. QED  BY <1>1, <1>2, <1>3, InvPartsNext DEF Grown

LEMMA HandleIndexKeeps ==
    ASSUME Inv, NEW d \in Device, NEW w \in Worker, NEW p \in Device, NEW k,
           HandleIndex(d, w, p, k)
    PROVE  Grown /\ Inv'
<1> DEFINE q == idx[<<p, d>>]
           r == RemoveIndexAt(q, k)
           t == task[d][w]
           n == [t EXCEPT !.at = "index", !.peer = p, !.live = TRUE,
                          !.snap = files[d], !.pos = 1, !.msg = q[k]]
<1>0. InvRest /\ InvFiles /\ InvTask /\ InvIdx
  BY InvParts
<1>1. <<p, d>> \in Link /\ k \in 1..Len(q)
  BY DEF HandleIndex
<1>2. q \in Seq(Seq(FileInfo)) /\ \A i \in 1..Len(q) : InfosOK(q[i])
  BY <1>0, <1>1 DEF InvIdx
<1>3. t \in Task /\ files[d] \in Seq(File) /\ SnapOf(files[d], files[d])
  BY <1>0, ExtendsItself DEF InvTask, InvFiles
<1>4. TaskOK(n, files[d])
  <2>1. q[k] \in Seq(FileInfo) /\ InfosOK(q[k])
    BY <1>1, <1>2 DEF InfosOK
  <2> HIDE DEF q
  <2>2. n \in Task
    BY <1>3, <2>1 DEF Task
  <2>3. n.at = "index" /\ n.snap = files[d] /\ n.pos = 1 /\ n.msg = q[k]
    BY <1>3 DEF Task
  <2> HIDE DEF n
  <2>4. QED  BY <1>3, <2>1, <2>2, <2>3 DEF TaskOK, Downloading
<1>5. r \in Seq(Seq(FileInfo)) /\ \A i \in 1..Len(r) : InfosOK(r[i])
  <2> HIDE DEF q
  <2>1. \A i \in 1..(Len(q) - 1) :
           r[i] \in Seq(FileInfo) /\ InfosOK(r[i])
    BY <1>1, <1>2 DEF RemoveIndexAt
  <2>2. r \in [1..(Len(q) - 1) -> Seq(FileInfo)]
    BY <1>1, <1>2, <2>1 DEF RemoveIndexAt
  <2>3. Len(q) - 1 \in Nat
    BY <1>1, <1>2
  <2>4. r \in Seq(Seq(FileInfo)) /\ Len(r) = Len(q) - 1
    BY <2>2, <2>3, FunIsSeq
  <2>5. QED  BY <2>1, <2>4
<1>6. InvIdx'
  <2>1. idx' = [idx EXCEPT ![<<p, d>>] = r]
    BY DEF HandleIndex
  <2> HIDE DEF r
  <2>2. QED  BY <1>0, <1>5, <2>1 DEF InvIdx
<1>7. /\ task' = [task EXCEPT ![d][w] = n] /\ sends' \in [Link -> Nat]
      /\ UNCHANGED <<disk, files, watch, up, written, overrun, faults>>
  BY <1>0 DEF HandleIndex, GetSyncFiles, InvRest
<1> HIDE DEF n
<1>8. QED  BY <1>4, <1>6, <1>7, HandlerKeeps

\* A step of d's handler w that stores a row of the snapshot, or a new one.
LEMMA HandlerStores ==
    ASSUME Inv, NEW d \in Device, NEW w \in Worker, NEW id, NEW row, NEW t, NEW u,
           task[d][w] = u, RowOK(row), id \in 0..Len(u.snap),
           id # 0 => row.name = u.snap[id].name,
           TaskOK(t, files[d]),
           files' = [files EXCEPT ![d] = UpdateSyncFile(@, id, row)],
           task' = [task EXCEPT ![d][w] = t],
           overrun' \subseteq Device,
           UNCHANGED <<disk, watch, sends, idx, up, written, faults>>
    PROVE  Grown /\ Inv'
<1>0. InvRest /\ InvFiles /\ InvWatch /\ InvTask /\ InvIdx
  BY InvParts
<1>1. TaskOK(u, files[d]) /\ files[d] \in Seq(File)
  BY <1>0 DEF InvTask, InvFiles
<1>2. /\ Len(u.snap) \in Nat /\ Len(files[d]) \in Nat
      /\ Len(u.snap) <= Len(files[d])
  BY <1>1 DEF TaskOK, SnapOf, RowsOK
<1>3. id \in 0..Len(files[d]) /\ (id # 0 => row.name = files[d][id].name)
  <2>1. id # 0 => id \in 1..Len(u.snap)
    BY <1>2
  <2>2. QED  BY <1>1, <1>2, <2>1 DEF TaskOK, SnapOf
<1>4. Grown
  BY <1>0, <1>3, StoreRow
<1>5. InvTask'
  BY <1>0, <1>4, TaskStays, SetTask
<1>6. InvWatch'
  BY <1>0, <1>4, KeepWatch
<1>7. InvRest' /\ InvIdx'
  BY <1>0 DEF InvRest, InvIdx
<1>8. QED  BY <1>4, <1>5, <1>6, <1>7, InvPartsNext DEF Grown

\* What a handler of an Index holds after one more file.
LEMMA NextInfo ==
    ASSUME NEW rows, NEW t, TaskOK(t, rows), t.at = "index",
           NEW n \in Task, n.at = "index", n.pos = t.pos + 1,
           SnapOf(n.snap, rows), n.msg = t.msg
    PROVE  TaskOK(n, rows)
<1>1. t.pos >= 1 /\ t.pos \in Nat
  BY DEF TaskOK, Task
<1>2. QED  BY <1>1 DEF TaskOK, Downloading

LEMMA IndexFileKeeps ==
    ASSUME Inv, NEW d \in Device, NEW w \in Worker, IndexFile(d, w)
    PROVE  Grown /\ Inv'
<1> DEFINE t == task[d][w]
           info == t.msg[t.pos]
           i == FindFile(t.snap, info.name)
           row == IF i = 0 THEN AnnouncedNew(info) ELSE Announced(t.snap[i], info)
           fit == VersionsFit(files[d], i, row)
           snap == IF i = 0 THEN t.snap ELSE [t.snap EXCEPT ![i] = row]
<1>0. InvRest /\ InvFiles /\ InvTask /\ InvIdx
  BY InvParts
<1>1. t \in Task /\ TaskOK(t, files[d]) /\ files[d] \in Seq(File)
  BY <1>0 DEF InvTask, InvFiles
<1>2. t.at = "index" /\ t.pos <= Len(t.msg)
  BY Zenon DEF IndexFile
<1>3. InfoOK(info) /\ info.name \in Name
  <2>1. t.pos \in 1..Len(t.msg)
    BY <1>1, <1>2 DEF TaskOK, Task
  <2>2. QED  BY <1>1, <2>1, InfoFields DEF TaskOK, InfosOK
<1>4. /\ t.snap \in Seq(File) /\ SnapOf(t.snap, files[d]) /\ RowsOK(t.snap)
      /\ Len(t.snap) \in Nat
  BY <1>1 DEF TaskOK, SnapOf, RowsOK
<1>a. t \in Task /\ t.pos + 1 \in Nat
  BY <1>1 DEF Task
<1>5. /\ i \in 0..Len(t.snap)
      /\ (i # 0) <=> HasRow(t.snap, info.name)
  BY <1>3, <1>4, FindFileFinds
<1>6. CASE UpToDate(t.snap, info)
  <2> DEFINE n == [t EXCEPT !.pos = t.pos + 1]
  <2>1. n \in Task
    BY <1>a DEF Task
  <2>2. n.at = t.at /\ n.pos = t.pos + 1 /\ n.snap = t.snap /\ n.msg = t.msg
    BY <1>1 DEF Task
  <2>3. /\ task' = [task EXCEPT ![d][w] = n] /\ sends' = sends /\ idx' = idx
        /\ UNCHANGED <<disk, files, watch, up, written, overrun, faults>>
    BY <1>6 DEF IndexFile
  <2> HIDE DEF n
  <2>4. TaskOK(n, files[d])
    BY <1>1, <1>2, <1>4, <2>1, <2>2, NextInfo
  <2>5. InvIdx'
    BY <1>0, <2>3 DEF InvIdx
  <2>6. QED  BY <1>0, <2>3, <2>4, <2>5, HandlerKeeps DEF InvRest
<1>7. CASE ~UpToDate(t.snap, info)
  <2>1. RowOK(row) /\ (i # 0 => row.name = t.snap[i].name)
    <3>1. CASE i = 0
      BY <1>3, <3>1, AnnouncedNewOK
    <3>2. CASE i # 0
      <4> DEFINE f == t.snap[i]
      <4>1. RowOK(f)
        BY <1>4, <1>5, <3>2, SMTT(30) DEF RowsOK
      <4>2. ~(Len(f.versions) >= Len(info.versions))
        BY <1>5, <1>7, <3>2, Zenon DEF UpToDate
      <4> HIDE DEF f, info
      <4>3. f.versions \in Seq(Version) /\ info.versions \in Seq(Version)
        BY <1>3, <4>1, InfoFields DEF RowOK, File
      <4>4. Len(f.versions) < Len(info.versions)
        BY <4>2, <4>3, LenProperties
      <4>5. RowOK(Announced(f, info)) /\ Announced(f, info).name = f.name
        BY <1>3, <4>1, <4>4, AnnouncedOK
      <4>6. QED  BY <3>2, <4>5 DEF f
    <3>3. QED  BY <3>1, <3>2, Zenon
  <2> HIDE DEF row
  <2>2. SnapOf(snap, files[d])
    <3>1. CASE i = 0
      BY <1>4, <3>1
    <3>2. CASE i # 0
      <4>1. i \in 1..Len(t.snap)
        BY <1>4, <1>5, <3>2
      <4>2. QED  BY <1>1, <1>4, <2>1, <3>2, <4>1, SnapUpdate, Zenon
    <3>3. QED  BY <3>1, <3>2
  <2>3. snap \in Seq(File)
    BY <2>2 DEF SnapOf, RowsOK
  <2> DEFINE n == [t EXCEPT !.pos = t.pos + 1, !.changed = TRUE, !.snap = snap]
             u == IF fit THEN n ELSE IdleTask(d)
  <2> HIDE DEF snap
  <2>4. n \in Task
    BY <1>a, <2>3 DEF Task
  <2>5. n.at = t.at /\ n.pos = t.pos + 1 /\ n.snap = snap /\ n.msg = t.msg
    BY <1>1 DEF Task
  <2>6. TaskOK(n, files[d])
    <3> HIDE DEF n
    <3>1. QED  BY <1>1, <1>2, <2>2, <2>4, <2>5, NextInfo
  <2>7. TaskOK(u, files[d])
    <3> HIDE DEF n, fit
    <3>1. QED  BY <1>1, <2>6, IdleTaskOK
  <2>8. /\ files' = [files EXCEPT ![d] = UpdateSyncFile(@, i, row)]
        /\ task' = [task EXCEPT ![d][w] = u]
        /\ overrun' = IF fit THEN overrun ELSE overrun \cup {d}
        /\ UNCHANGED <<disk, watch, sends, idx, up, written, faults>>
    BY <1>7, Zenon DEF IndexFile, row, snap
  <2> HIDE DEF u, i, fit
  <2>9. overrun' \subseteq Device
    BY <1>0, <2>8 DEF InvRest
  <2>10. QED  BY <1>5, <2>1, <2>7, <2>8, <2>9, HandlerStores
<1>8. QED  BY <1>6, <1>7

LEMMA IndexEndKeeps ==
    ASSUME Inv, NEW d \in Device, NEW w \in Worker, IndexEnd(d, w)
    PROVE  Grown /\ Inv'
<1> DEFINE t == task[d][w]
           i == IdleTask(d)
           n == [i EXCEPT !.at = "begin", !.peer = t.peer, !.live = t.live]
           u == IF t.changed THEN n ELSE i
<1>0. InvRest /\ InvFiles /\ InvTask /\ InvIdx
  BY InvParts
<1>1. t \in Task /\ files[d] \in Seq(File)
  BY <1>0 DEF InvTask, InvFiles
<1>2. i \in Task /\ i.snap = <<>> /\ i.msg = <<>>
  BY DEF IdleTask, Task
<1>3. TaskOK(i, files[d])
  BY <1>1, IdleTaskOK
<1>4. task' = [task EXCEPT ![d][w] = u]
  BY DEF IndexEnd
<1>5. TaskOK(n, files[d])
  <2> HIDE DEF i
  <2>1. t.peer \in Device /\ t.live \in BOOLEAN
    BY <1>1 DEF Task
  <2>2. n \in Task
    BY <1>2, <2>1 DEF Task
  <2>3. n.at = "begin" /\ n.snap = i.snap /\ n.msg = i.msg
    BY <1>2 DEF Task
  <2> HIDE DEF n
  <2>4. QED  BY <1>1, <1>2, <2>2, <2>3, EmptySnap DEF TaskOK, Downloading
<1> HIDE DEF n, i
<1>6. TaskOK(u, files[d])
  BY <1>3, <1>5
<1>7. InvIdx' /\ sends' \in [Link -> Nat]
  BY <1>0 DEF InvIdx, InvRest, IndexEnd
<1>8. UNCHANGED <<disk, files, watch, up, written, overrun, faults>>
  BY DEF IndexEnd
<1> HIDE DEF u
<1>9. QED  BY <1>4, <1>6, <1>7, <1>8, HandlerKeeps
-----------------------------------------------------------------------------
(***************************************************************************)
(* The steps of a download.                                                *)
(***************************************************************************)
LEMMA GetDirectoryKeeps ==
    ASSUME Inv, NEW d \in Device, NEW w \in Worker, GetDirectory(d, w)
    PROVE  Grown /\ Inv'
<1> DEFINE t == task[d][w]
           n == [t EXCEPT !.at = "next", !.pos = 1, !.snap = files[d]]
<1>0. InvRest /\ InvFiles /\ InvTask /\ InvIdx
  BY InvParts
<1>1. /\ t \in Task /\ TaskOK(t, files[d]) /\ files[d] \in Seq(File)
      /\ SnapOf(files[d], files[d]) /\ 1 \in Nat
  BY <1>0, ExtendsItself DEF InvTask, InvFiles
<1>2. n \in Task
  BY <1>1 DEF Task
<1>3. n.at = "next" /\ n.pos = 1 /\ n.snap = files[d] /\ n.msg = t.msg
  BY <1>1 DEF Task
<1>4. /\ task' = [task EXCEPT ![d][w] = n]
      /\ UNCHANGED <<disk, files, watch, sends, idx, up, written, overrun, faults>>
  BY DEF GetDirectory, GetSyncFiles
<1> HIDE DEF n
<1>5. TaskOK(n, files[d])
  BY <1>1, <1>2, <1>3 DEF TaskOK, Downloading
<1>6. InvIdx' /\ sends' \in [Link -> Nat]
  BY <1>0, <1>4 DEF InvIdx, InvRest
<1>7. QED  BY <1>4, <1>5, <1>6, HandlerKeeps

LEMMA AskingOK ==
    ASSUME NEW d \in Device, NEW rows \in Seq(File), NEW t, TaskOK(t, rows),
           t.pos \in 1..Len(t.snap), NEW k \in 1..Len(t.snap[t.pos].blocks),
           Len(t.snap[t.pos].blocks) \in Nat
    PROVE  TaskOK(Asking(d, t, k), rows)
<1> DEFINE n == [t EXCEPT !.at = "asked", !.blk = k, !.ans = <<>>]
<1>1. t \in Task /\ k \in Nat /\ <<>> \in Seq(Block)
  BY DEF TaskOK
<1>2. n \in Task
  BY <1>1 DEF Task
<1>3. /\ n.at = "asked" /\ n.blk = k /\ n.snap = t.snap /\ n.msg = t.msg
      /\ n.pos = t.pos
  BY <1>1 DEF Task
<1>4. Asking(d, t, k) = IF t.live THEN n ELSE IdleTask(d)
  BY DEF Asking
<1> HIDE DEF n
<1>5. TaskOK(n, rows)
  BY <1>2, <1>3 DEF TaskOK, Downloading
<1>6. QED  BY <1>4, <1>5, IdleTaskOK

\* The next file of a snapshot.
LEMMA NextFileOK ==
    ASSUME NEW rows \in Seq(File), NEW t, TaskOK(t, rows)
    PROVE  TaskOK([t EXCEPT !.at = "next", !.pos = t.pos + 1], rows)
<1> DEFINE n == [t EXCEPT !.at = "next", !.pos = t.pos + 1]
<1>1. t \in Task
  BY DEF TaskOK
<1>2. t.pos + 1 \in Nat /\ t.pos + 1 >= 1
  BY <1>1 DEF Task
<1>3. n \in Task
  BY <1>1, <1>2 DEF Task
<1>4. n.at = "next" /\ n.pos = t.pos + 1 /\ n.snap = t.snap /\ n.msg = t.msg
  BY <1>1 DEF Task
<1> HIDE DEF n
<1>5. TaskOK(n, rows)
  BY <1>2, <1>3, <1>4 DEF TaskOK, Downloading
<1>6. QED  BY <1>5 DEF n

\* The row that a download is about.
LEMMA SnapRow ==
    ASSUME NEW rows \in Seq(File), NEW t, TaskOK(t, rows), t.pos \in 1..Len(t.snap)
    PROVE  /\ RowOK(t.snap[t.pos]) /\ t.snap[t.pos].name \in Name
           /\ t.snap[t.pos].blocks \in Seq(SyncBlock)
           /\ Len(t.snap[t.pos].blocks) \in Nat \ {0}
<1>1. RowOK(t.snap[t.pos])
  BY DEF TaskOK, SnapOf, RowsOK
<1> DEFINE f == t.snap[t.pos]
<1> HIDE DEF f
<1>2. f.name \in Name /\ f.blocks \in Seq(SyncBlock) /\ f.blocks # <<>>
  BY <1>1 DEF f, RowOK, File
<1>3. Len(f.blocks) \in Nat \ {0}
  BY <1>2, EmptySeq
<1>4. QED  BY <1>1, <1>2, <1>3 DEF f

LEMMA GetFileKeeps ==
    ASSUME Inv, NEW d \in Device, NEW w \in Worker, GetFile(d, w)
    PROVE  Grown /\ Inv'
<1> DEFINE t == task[d][w]
           f == t.snap[t.pos]
<1>0. InvRest /\ InvFiles /\ InvTask /\ InvIdx
  BY InvParts
<1>1. t \in Task /\ TaskOK(t, files[d]) /\ files[d] \in Seq(File)
  BY <1>0 DEF InvTask, InvFiles
<1>2. t.at = "next" /\ t.pos \in 1..Len(t.snap)
  <2>1. t.at = "next" /\ t.pos <= Len(t.snap)
    BY DEF GetFile
  <2>2. t.pos \in Nat /\ t.pos >= 1 /\ Len(t.snap) \in Nat
    BY <1>1, <2>1 DEF TaskOK, Task
  <2>3. QED  BY <2>1, <2>2
<1>3. RowOK(f) /\ Len(f.blocks) \in Nat \ {0} /\ f.blocks # <<>>
  BY <1>1, <1>2, SnapRow DEF RowOK
<1>4. ASSUME NEW n, TaskOK(n, files[d]), task' = [task EXCEPT ![d][w] = n]
      PROVE  Grown /\ Inv'
  <2>1. /\ InvIdx' /\ sends' \in [Link -> Nat]
        /\ UNCHANGED <<disk, files, watch, up, written, overrun, faults>>
    BY <1>0 DEF InvIdx, InvRest, GetFile
  <2>2. QED  BY <1>4, <2>1, HandlerKeeps
<1>5. CASE ~Wanted(d, f)
  <2> DEFINE n == [t EXCEPT !.pos = t.pos + 1]
  <2>1. t.pos + 1 \in Nat /\ t.pos + 1 >= 1 /\ t \in Task
    BY <1>1 DEF Task
  <2>2. n \in Task
    BY <2>1 DEF Task
  <2>3. n.at = t.at /\ n.pos = t.pos + 1 /\ n.snap = t.snap /\ n.msg = t.msg
    BY <2>1 DEF Task
  <2>4. task' = [task EXCEPT ![d][w] = n]
    BY <1>5 DEF GetFile
  <2> HIDE DEF n
  <2>5. TaskOK(n, files[d])
    BY <1>1, <1>2, <2>1, <2>2, <2>3 DEF TaskOK, Downloading
  <2>6. QED  BY <1>4, <2>4, <2>5
<1>6. CASE Wanted(d, f)
  <2>1. task' = [task EXCEPT ![d][w] = Asking(d, t, 1)]
    BY <1>3, <1>6 DEF GetFile
  <2>2. TaskOK(Asking(d, t, 1), files[d])
    BY <1>1, <1>2, <1>3, AskingOK
  <2>3. QED  BY <1>4, <2>1, <2>2
<1>7. QED  BY <1>5, <1>6

\* A task that waits, has an answer or has written a block: its row, its block.
LEMMA WantedBlockOK ==
    ASSUME NEW rows \in Seq(File), NEW t, TaskOK(t, rows), Downloading(t)
    PROVE  /\ t \in Task /\ t.pos \in 1..Len(t.snap) /\ RowOK(t.snap[t.pos])
           /\ t.snap[t.pos].name \in Name
           /\ Len(t.snap[t.pos].blocks) \in Nat
           /\ t.blk \in 1..Len(t.snap[t.pos].blocks)
           /\ WantedBlock(t).offset \in Nat
<1>1. /\ t \in Task /\ t.pos \in 1..Len(t.snap)
      /\ t.blk \in 1..Len(t.snap[t.pos].blocks)
  BY DEF TaskOK
<1>2. /\ RowOK(t.snap[t.pos]) /\ t.snap[t.pos].name \in Name
      /\ t.snap[t.pos].blocks \in Seq(SyncBlock)
      /\ Len(t.snap[t.pos].blocks) \in Nat
  BY <1>1, SnapRow
<1>3. WantedBlock(t) \in SyncBlock
  BY <1>1, <1>2, ElementOfSeq, SMTT(30) DEF WantedBlock
<1>4. QED  BY <1>1, <1>2, <1>3 DEF SyncBlock

LEMMA HandleRequestKeeps ==
    ASSUME Inv, NEW d \in Device, NEW w \in Worker, HandleRequest(d, w)
    PROVE  Grown /\ Inv'
<1> DEFINE t == task[d][w]
           c == disk[t.peer][t.snap[t.pos].name]
           o == WantedBlock(t).offset
           ok == /\ CanReadBlock(c, o)
                 /\ BlockHash(ReadBlock(c, o)) = WantedBlock(t).hash
           a == IF ok THEN <<ReadBlock(c, o)>> ELSE <<>>
           n == [t EXCEPT !.at = "answered", !.ans = a]
<1>0. InvRest /\ InvFiles /\ InvTask /\ InvIdx
  BY InvParts
<1>1. TaskOK(t, files[d]) /\ files[d] \in Seq(File) /\ t.at = "asked"
  BY <1>0 DEF InvTask, InvFiles, HandleRequest
<1>2. /\ t \in Task /\ o \in Nat /\ t.snap[t.pos].name \in Name
      /\ t.pos \in 1..Len(t.snap) /\ t.blk \in 1..Len(t.snap[t.pos].blocks)
  BY <1>1, WantedBlockOK DEF Downloading
<1>3. c \in Content
  <2>1. t.peer \in Device
    BY <1>2 DEF Task
  <2>2. QED  BY <1>0, <1>2, <2>1 DEF InvRest
<1>4. a \in Seq(Block)
  <2> HIDE DEF c, o
  <2>1. CASE ok
    <3>1. o + 1 \in 1..Len(c)
      BY <1>2, <1>3, <2>1, SMTT(30) DEF CanReadBlock, Content
    <3>2. ReadBlock(c, o) \in Block
      BY <1>3, <3>1, ElementOfSeq DEF ReadBlock, Content
    <3>3. QED  BY <2>1, <3>2
  <2>2. CASE ~ok
    BY <2>2, SMTT(30)
  <2>3. QED  BY <2>1, <2>2
<1>5. /\ task' = [task EXCEPT ![d][w] = n]
      /\ UNCHANGED <<disk, files, watch, sends, idx, up, written, overrun, faults>>
  BY DEF HandleRequest
<1> HIDE DEF a
<1>6. n \in Task
  BY <1>2, <1>4 DEF Task
<1>7. /\ n.at = "answered" /\ n.snap = t.snap /\ n.msg = t.msg
      /\ n.pos = t.pos /\ n.blk = t.blk
  BY <1>2 DEF Task
<1> HIDE DEF n
<1>8. TaskOK(n, files[d])
  BY <1>1, <1>2, <1>6, <1>7 DEF TaskOK, Downloading
<1>9. InvIdx' /\ sends' \in [Link -> Nat]
  BY <1>0, <1>5 DEF InvIdx, InvRest
<1>10. QED  BY <1>5, <1>8, <1>9, HandlerKeeps

LEMMA GotBlockKeeps ==
    ASSUME Inv, NEW d \in Device, NEW w \in Worker, GotBlock(d, w)
    PROVE  Grown /\ Inv'
<1> DEFINE t == task[d][w]
           f == t.snap[t.pos].name
           o == WantedBlock(t).offset
           ok == t.ans # <<>> /\ BlockHash(t.ans[1]) = WantedBlock(t).hash
           n == [t EXCEPT !.at = "store"]
<1>0. InvRest /\ InvFiles /\ InvWatch /\ InvTask /\ InvIdx
  BY InvParts
<1>1. TaskOK(t, files[d]) /\ files[d] \in Seq(File) /\ t.at = "answered"
  BY <1>0 DEF InvTask, InvFiles, GotBlock
<1>2. /\ t \in Task /\ o \in Nat /\ f \in Name
      /\ t.pos \in 1..Len(t.snap) /\ t.blk \in 1..Len(t.snap[t.pos].blocks)
  BY <1>1, WantedBlockOK DEF Downloading
<1>3. Grown
  BY <1>0, SameFiles DEF GotBlock
<1>4. InvIdx' /\ UNCHANGED <<files, sends, idx, up, written, overrun, faults>>
  BY <1>0 DEF InvIdx, GotBlock
<1>5. CASE ~ok
  <2>1. /\ task' = [task EXCEPT ![d][w] = IdleTask(d)]
        /\ UNCHANGED <<disk, watch>>
    BY <1>5 DEF GotBlock
  <2>2. TaskOK(IdleTask(d), files[d])
    BY <1>1, IdleTaskOK
  <2>3. QED  BY <1>0, <1>4, <2>1, <2>2, HandlerKeeps DEF InvRest
<1>6. CASE ok
  <2>1. /\ disk' = [disk EXCEPT ![d][f] = WriteBlock(@, o, t.ans[1])]
        /\ watch' = Notified(d)
        /\ task' = [task EXCEPT ![d][w] = n]
    BY <1>6 DEF GotBlock
  <2>2. t.ans[1] \in Block
    <3>1. t.ans \in Seq(Block) /\ t.ans # <<>>
      BY <1>2, <1>6 DEF Task
    <3> DEFINE a == t.ans
    <3> HIDE DEF a
    <3>2. 1 \in 1..Len(a)
      BY <3>1, EmptySeq DEF a
    <3>3. QED  BY <3>1, <3>2, ElementOfSeq DEF a
  <2>3. disk' \in [Device -> [Name -> Content]]
    <3> DEFINE b == WriteBlock(disk[d][f], o, t.ans[1])
    <3>1. b \in Content
      BY <1>0, <1>2, <2>2, WriteBlockIsContent DEF InvRest
    <3>2. disk' = [disk EXCEPT ![d][f] = b]
      BY <2>1
    <3> HIDE DEF b, f
    <3>3. QED  BY <1>0, <3>1, <3>2 DEF InvRest
  <2>4. InvRest'
    BY <1>0, <1>4, <2>3 DEF InvRest
  <2>5. InvWatch'
    BY <1>0, <1>3, <2>1, NotifiedOK
  <2>6. n \in Task
    BY <1>2 DEF Task
  <2>7. /\ n.at = "store" /\ n.snap = t.snap /\ n.msg = t.msg
        /\ n.pos = t.pos /\ n.blk = t.blk
    BY <1>2 DEF Task
  <2> HIDE DEF n
  <2>8. TaskOK(n, files[d])
    BY <1>1, <1>2, <2>6, <2>7 DEF TaskOK, Downloading
  <2>9. InvTask'
    BY <1>0, <1>3, <2>1, <2>8, TaskStays, SetTask
  <2>10. QED  BY <1>3, <1>4, <2>4, <2>5, <2>9, InvPartsNext, SMTT(30) DEF Grown
<1>7. QED  BY <1>5, <1>6

LEMMA StoreSyncedKeeps ==
    ASSUME Inv, NEW d \in Device, NEW w \in Worker, StoreSynced(d, w)
    PROVE  Grown /\ Inv'
<1> DEFINE t == task[d][w]
           f == t.snap[t.pos]
           row == Synced(f)
           fit == VersionsFit(files[d], t.pos, row)
           n == [t EXCEPT !.at = "next", !.pos = t.pos + 1]
           m == CASE ~fit -> IdleTask(d)
                  [] fit /\ t.blk < Len(row.blocks) -> Asking(d, t, t.blk + 1)
                  [] OTHER -> n
<1>0. InvRest /\ InvFiles /\ InvTask
  BY InvParts
<1>1. TaskOK(t, files[d]) /\ files[d] \in Seq(File) /\ t.at = "store"
  BY <1>0 DEF InvTask, InvFiles, StoreSynced
<1>2. /\ t \in Task /\ t.pos \in 1..Len(t.snap) /\ RowOK(f)
      /\ Len(f.blocks) \in Nat /\ t.blk \in 1..Len(f.blocks)
  BY <1>1, WantedBlockOK DEF Downloading
<1>3. RowOK(row) /\ row.name = f.name /\ row.blocks = f.blocks
  BY <1>2, SyncedOK
<1>4. /\ files' = [files EXCEPT ![d] = UpdateSyncFile(@, t.pos, row)]
      /\ overrun' = IF fit THEN overrun ELSE overrun \cup {d}
      /\ task' = [task EXCEPT ![d][w] = m]
      /\ UNCHANGED <<disk, watch, sends, idx, up, written, faults>>
  BY DEF StoreSynced
<1>5. overrun' \subseteq Device
  BY <1>0, <1>4 DEF InvRest
<1> HIDE DEF fit, row
<1>6. TaskOK(m, files[d])
  <2>1. TaskOK(IdleTask(d), files[d]) /\ TaskOK(n, files[d])
    BY <1>1, IdleTaskOK, NextFileOK
  <2>2. CASE fit /\ t.blk < Len(row.blocks)
    <3>1. t.blk + 1 \in 1..Len(f.blocks)
      <4>1. Len(row.blocks) = Len(f.blocks)
        BY <1>3
      <4> HIDE DEF f
      <4>2. t.blk \in 1..Len(f.blocks) /\ t.blk < Len(f.blocks)
        BY <1>2, <2>2, <4>1
      <4>3. QED  BY <1>2, <4>2
    <3>2. TaskOK(Asking(d, t, t.blk + 1), files[d])
      BY <1>1, <1>2, <3>1, AskingOK
    <3>3. QED  BY <2>2, <3>2
  <2>3. QED
    <3> HIDE DEF n
    <3>1. QED  BY <2>1, <2>2
<1>7. t.pos \in 0..Len(t.snap) /\ t.pos # 0
  BY <1>2
<1> HIDE DEF m
<1>8. QED  BY <1>3, <1>4, <1>5, <1>6, <1>7, HandlerStores

LEMMA GetDirectoryEndKeeps ==
    ASSUME Inv, NEW d \in Device, NEW w \in Worker, GetDirectoryEnd(d, w)
    PROVE  Grown /\ Inv'
<1>0. InvRest /\ InvFiles /\ InvIdx
  BY InvParts
<1>1. sends' \in [Link -> Nat] /\ InvIdx'
  BY <1>0, DirectoryChangedIsCount DEF GetDirectoryEnd, InvIdx
<1>2. TaskOK(IdleTask(d), files[d])
  BY <1>0, IdleTaskOK DEF InvFiles
<1>3. /\ task' = [task EXCEPT ![d][w] = IdleTask(d)]
      /\ UNCHANGED <<disk, files, watch, up, written, overrun, faults>>
  BY DEF GetDirectoryEnd
<1>4. QED  BY <1>1, <1>2, <1>3, HandlerKeeps
-----------------------------------------------------------------------------
(***************************************************************************)
(* Faults and new connections.                                             *)
(***************************************************************************)

\* Every watcher and every task is as it was, cut off, or gone.
LEMMA FaultKeeps ==
    ASSUME Inv, NEW S,
           watch' = [l \in Link |-> watch'[l]],
           \A l \in Link : watch'[l] \in {watch[l], WatchOff,
                                          [watch[l] EXCEPT !.live = FALSE]},
           task' = [d \in Device |-> [w \in Worker |-> task'[d][w]]],
           \A d \in Device, w \in Worker :
                task'[d][w] \in {task[d][w], IdleTask(d),
                                 [task[d][w] EXCEPT !.live = FALSE]},
           sends' = [m \in Link |-> IF m \in S THEN 0 ELSE sends[m]],
           idx' = [m \in Link |-> IF m \in S THEN <<>> ELSE idx[m]],
           up' \subseteq up, faults' = faults + 1,
           UNCHANGED <<disk, files, written, overrun>>
    PROVE  Grown /\ Inv'
<1>0. InvRest /\ InvFiles /\ InvWatch /\ InvTask /\ InvIdx
  BY InvParts
<1>1. Grown
  BY <1>0, SameFiles
<1>2. InvRest'
  BY <1>0 DEF InvRest
<1>3. InvIdx'
  BY <1>0 DEF InvIdx
<1>4. ASSUME NEW l \in Link PROVE WatchOK(watch'[l], files'[l[1]])
  <2> DEFINE k == watch[l]
             n == [k EXCEPT !.live = FALSE]
  <2>1. /\ k \in Watch /\ WatchOK(k, files[l[1]]) /\ l[1] \in Device
        /\ files[l[1]] \in Seq(File) /\ files' = files
    BY <1>0, LinkEnds DEF InvWatch, InvFiles
  <2>2. n \in Watch
    BY <2>1 DEF Watch
  <2>3. n.at = k.at /\ n.snap = k.snap /\ n.pend = k.pend
    BY <2>1 DEF Watch
  <2>4. watch'[l] = k \/ watch'[l] = WatchOff \/ watch'[l] = n
    OBVIOUS
  <2> HIDE DEF n
  <2>5. WatchOK(n, files[l[1]])
    BY <2>1, <2>2, <2>3 DEF WatchOK
  <2>6. QED  BY <2>1, <2>4, <2>5, WatchOffOK
<1>5. InvWatch'
  BY <1>4 DEF InvWatch, WatchOK
<1>6. ASSUME NEW d \in Device, NEW w \in Worker PROVE TaskOK(task'[d][w], files'[d])
  <2> DEFINE t == task[d][w]
             n == [t EXCEPT !.live = FALSE]
  <2>1. /\ t \in Task /\ TaskOK(t, files[d]) /\ files[d] \in Seq(File)
        /\ files' = files
    BY <1>0 DEF InvTask, InvFiles
  <2>2. n \in Task
    BY <2>1 DEF Task
  <2>3. /\ n.at = t.at /\ n.snap = t.snap /\ n.msg = t.msg /\ n.pos = t.pos
        /\ n.blk = t.blk
    BY <2>1 DEF Task
  <2>4. task'[d][w] = t \/ task'[d][w] = IdleTask(d) \/ task'[d][w] = n
    OBVIOUS
  <2> HIDE DEF n
  <2>5. TaskOK(n, files[d])
    BY <2>1, <2>2, <2>3 DEF TaskOK, Downloading
  <2>6. QED  BY <2>1, <2>4, <2>5, IdleTaskOK
<1>7. InvTask'
  <2>1. \A d \in Device, w \in Worker : task'[d][w] \in Task
    BY <1>6 DEF TaskOK
  <2>2. task' \in [Device -> [Worker -> Task]]
    BY <2>1
  <2>3. QED  BY <1>6, <2>2 DEF InvTask
<1>8. QED  BY <1>1, <1>2, <1>3, <1>5, <1>7, InvPartsNext DEF Grown

LEMMA DisconnectKeeps ==
    ASSUME Inv, NEW l \in Link, Disconnect(l)
    PROVE  Grown /\ Inv'
<1> DEFINE S == {l, Reverse(l)}
<1>1. /\ watch' = [m \in Link |-> CutWatch(m, S)]
      /\ task' = [d \in Device |-> [w \in Worker |-> CutTask(d, w, S)]]
  BY DEF Disconnect
<1>2. /\ sends' = [m \in Link |-> IF m \in S THEN 0 ELSE sends[m]]
      /\ idx' = [m \in Link |-> IF m \in S THEN <<>> ELSE idx[m]]
      /\ up' \subseteq up /\ faults' = faults + 1
      /\ UNCHANGED <<disk, files, written, overrun>>
  BY DEF Disconnect
<1> HIDE DEF S
<1>3. \A m \in Link : watch'[m] \in {watch[m], WatchOff,
                                     [watch[m] EXCEPT !.live = FALSE]}
  BY <1>1 DEF CutWatch
<1>4. \A d \in Device, w \in Worker :
          task'[d][w] \in {task[d][w], IdleTask(d),
                           [task[d][w] EXCEPT !.live = FALSE]}
  BY <1>1 DEF CutTask
<1>5. /\ watch' = [m \in Link |-> watch'[m]]
      /\ task' = [d \in Device |-> [w \in Worker |-> task'[d][w]]]
  BY <1>1
<1>6. QED  BY <1>2, <1>3, <1>4, <1>5, FaultKeeps

LEMMA CrashKeeps ==
    ASSUME Inv, NEW d \in Device, Crash(d)
    PROVE  Grown /\ Inv'
<1> DEFINE S == {l \in Link : l[1] = d \/ l[2] = d}
<1>1. /\ watch' = [m \in Link |-> IF m[1] = d THEN WatchOff ELSE CutWatch(m, S)]
      /\ task' = [e \in Device |-> [w \in Worker |->
                    IF e = d THEN IdleTask(d) ELSE CutTask(e, w, S)]]
  BY DEF Crash
<1>2. /\ sends' = [m \in Link |-> IF m \in S THEN 0 ELSE sends[m]]
      /\ idx' = [m \in Link |-> IF m \in S THEN <<>> ELSE idx[m]]
      /\ up' \subseteq up /\ faults' = faults + 1
      /\ UNCHANGED <<disk, files, written, overrun>>
  BY DEF Crash
<1> HIDE DEF S
<1>3. \A m \in Link : watch'[m] \in {watch[m], WatchOff,
                                     [watch[m] EXCEPT !.live = FALSE]}
  BY <1>1 DEF CutWatch
<1>4. \A e \in Device, w \in Worker :
          task'[e][w] \in {task[e][w], IdleTask(e),
                           [task[e][w] EXCEPT !.live = FALSE]}
  BY <1>1 DEF CutTask
<1>5. /\ watch' = [m \in Link |-> watch'[m]]
      /\ task' = [e \in Device |-> [w \in Worker |-> task'[e][w]]]
  BY <1>1
<1>6. QED  BY <1>2, <1>3, <1>4, <1>5, FaultKeeps

LEMMA ConnectKeeps ==
    ASSUME Inv, NEW l \in Link, Connect(l)
    PROVE  Grown /\ Inv'
<1> DEFINE S == {l, Reverse(l)}
<1>0. InvRest /\ InvFiles /\ InvWatch /\ InvTask /\ InvIdx
  BY InvParts
<1>1. Grown
  BY <1>0, SameFiles DEF Connect
<1>2. InvWatch' /\ InvTask'
  BY <1>0, <1>1, KeepWatch, KeepTask DEF Connect
<1>3. S \subseteq Link /\ \A m \in S : m[1] \in Device /\ CanSendIndex(m[1])
  BY LinkEnds DEF Reverse, Connect
<1>4. InvRest'
  BY <1>0, <1>3 DEF InvRest, Connect
<1>5. InvIdx'
  <2>1. idx' = [m \in Link |-> IF m \in S THEN <<IndexOf(m[1])>> ELSE idx[m]]
    BY DEF Connect
  <2>2. ASSUME NEW m \in Link
        PROVE  /\ idx'[m] \in Seq(Seq(FileInfo))
               /\ \A k \in 1..Len(idx'[m]) : InfosOK(idx'[m][k])
    <3> DEFINE i == IndexOf(m[1])
    <3>1. CASE m \notin S
      BY <1>0, <2>1, <3>1 DEF InvIdx
    <3>2. CASE m \in S
      <4>1. InfosOK(i) /\ i \in Seq(FileInfo)
        BY <1>0, <1>3, <3>2, IndexOfOK DEF InfosOK
      <4>2. idx'[m] = <<i>>
        BY <2>1, <3>2
      <4> HIDE DEF i
      <4>3. QED  BY <4>1, <4>2
    <3>3. QED  BY <3>1, <3>2
  <2>3. QED  BY <2>1, <2>2 DEF InvIdx
<1>6. QED  BY <1>1, <1>2, <1>4, <1>5, InvPartsNext DEF Grown
-----------------------------------------------------------------------------
(***************************************************************************)
(* Initially nothing is stored, queued or running.                         *)
(***************************************************************************)
LEMMA InitInv == Init => Inv
<1> SUFFICES ASSUME Init PROVE Inv
  OBVIOUS
<1>1. InvRest
  BY DEF Init, InvRest, Content, Absent
<1>2. InvFiles
  BY DEF Init, InvFiles, RowsOK
<1>3. InvWatch
  <2>1. \A l \in Link : WatchOK(watch[l], files[l[1]]) /\ watch[l] = WatchOff
    BY <1>2, LinkEnds, WatchOffOK DEF Init, InvFiles
  <2>2. QED  BY <2>1 DEF Init, InvWatch, WatchOK
<1>4. InvTask
  <2>1. \A d \in Device, w \in Worker : TaskOK(task[d][w], files[d])
    BY <1>2, IdleTaskOK DEF Init, InvFiles
  <2>2. \A d \in Device, w \in Worker : task[d][w] \in Task
    BY <2>1 DEF TaskOK
  <2>3. QED  BY <2>1, <2>2 DEF Init, InvTask
<1>5. InvIdx
  BY DEF Init, InvIdx
<1>6. QED  BY <1>1, <1>2, <1>3, <1>4, <1>5, InvParts

(***************************************************************************)
(* Every step keeps Inv, and every table grows.                            *)
(***************************************************************************)
LEMMA NextInv == Inv /\ [Next]_vars => Inv' /\ HistoryOnlyGrows
<1> SUFFICES ASSUME Inv, [Next]_vars PROVE Grown /\ Inv'
  BY DEF Grown
<1>1. ASSUME NEW d \in Editor, NEW n \in Name, NEW c \in UserContent,
             UserWrite(d, n, c)
      PROVE  Grown /\ Inv'
  BY <1>1, UserWriteKeeps
<1>2. ASSUME NEW l \in Link, WatchStep(l) PROVE Grown /\ Inv'
  BY <1>2, WatchStartKeeps, GenerateIndexKeeps, ScanFileKeeps, ScanStoreKeeps,
     ScanEndKeeps DEF WatchStep
<1>3. ASSUME NEW l \in Link, SendIndex(l) PROVE Grown /\ Inv'
  BY <1>3, SendIndexKeeps
<1>4. ASSUME NEW l \in Link, HandleSomeIndex(l[2], l[1]) PROVE Grown /\ Inv'
  BY <1>4, LinkEnds, HandleIndexKeeps DEF HandleSomeIndex
<1>5. ASSUME NEW d \in Device, NEW w \in Worker, TaskStep(d, w)
      PROVE  Grown /\ Inv'
  BY <1>5, IndexFileKeeps, IndexEndKeeps, GetDirectoryKeeps, GetFileKeeps,
     HandleRequestKeeps, GotBlockKeeps, StoreSyncedKeeps, GetDirectoryEndKeeps
     DEF TaskStep
<1>6. ASSUME NEW l \in Link, Disconnect(l) \/ Connect(l) PROVE Grown /\ Inv'
  BY <1>6, DisconnectKeeps, ConnectKeeps
<1>7. ASSUME NEW d \in Device, Crash(d) PROVE Grown /\ Inv'
  BY <1>7, CrashKeeps
<1>8. CASE UNCHANGED vars
  <2>1. InvRest /\ InvFiles /\ InvWatch /\ InvTask /\ InvIdx
    BY InvParts
  <2>2. Grown
    BY <1>8, <2>1, SameFiles DEF vars
  <2>3. InvWatch' /\ InvTask'
    BY <1>8, <2>1, <2>2, KeepWatch, KeepTask DEF vars
  <2>4. InvRest' /\ InvIdx'
    BY <1>8, <2>1 DEF vars, InvRest, InvIdx
  <2>5. QED  BY <2>2, <2>3, <2>4, InvPartsNext DEF Grown
<1>9. QED  BY <1>1, <1>2, <1>3, <1>4, <1>5, <1>6, <1>7, <1>8 DEF Next

(***************************************************************************)
(* For any number of devices, files, handlers, edits and faults: whatever  *)
(* snapshot a watcher, an Index handler or a download works on, and however*)
(* late it stores, its ids are still those of the table and what it stores *)
(* is a row with a well-formed history.                                    *)
(***************************************************************************)
THEOREM SnapshotsStayValid == Spec => []Inv
<1>1. Init => Inv
  BY InitInv
<1>2. Inv /\ [Next]_vars => Inv'
  BY NextInv
<1>3. QED  BY <1>1, <1>2, PTL DEF Spec

(***************************************************************************)
(* Type correctness of the folder and its protocol.                        *)
(***************************************************************************)
THEOREM TypeCorrect == Spec => []TypeOK
<1>1. Inv => TypeOK
  BY DEF Inv
<1>2. QED  BY <1>1, SnapshotsStayValid, PTL

(***************************************************************************)
(* Histories in tables and in Index messages are the counters 0, 1, 2, ... *)
(* whatever update_sync_file has merged, and synced never runs ahead.      *)
(***************************************************************************)
THEOREM HistoriesStayWellFormed == Spec => []HistoriesWellFormed
<1>1. Inv => HistoriesWellFormed
  <2> SUFFICES ASSUME Inv PROVE HistoriesWellFormed
    OBVIOUS
  <2>1. InvFiles /\ InvIdx
    BY InvParts
  <2>2. ASSUME NEW d \in Device, NEW i \in 1..Len(files[d])
        PROVE  /\ Consecutive(files[d][i].versions)
               /\ files[d][i].synced <= IndexVersion(files[d][i])
    <3> DEFINE f == files[d][i]
    <3>1. RowOK(f)
      BY <2>1 DEF InvFiles, RowsOK
    <3> HIDE DEF f
    <3>2. /\ f.versions \in Seq(Version) /\ Consecutive(f.versions)
          /\ f.synced \in Nat /\ f.synced < Len(f.versions)
      BY <3>1 DEF RowOK, File
    <3>3. IndexVersion(f) = Len(f.versions) - 1 /\ Len(f.versions) \in Nat
      BY <3>2, IndexVersionIsLast
    <3>4. f.synced <= IndexVersion(f)
      BY <3>2, <3>3
    <3>5. QED  BY <3>2, <3>4 DEF f
  <2>3. ASSUME NEW l \in Link, NEW k \in 1..Len(idx[l]), NEW i \in 1..Len(idx[l][k])
        PROVE  Consecutive(idx[l][k][i].versions)
    BY <2>1 DEF InvIdx, InfosOK, InfoOK
  <2>4. QED  BY <2>2, <2>3 DEF HistoriesWellFormed
<1>2. QED  BY <1>1, SnapshotsStayValid, PTL

(***************************************************************************)
(* No step of any task removes or renames a row, or drops or changes a     *)
(* version that is in a table: a stale snapshot can add, never undo.       *)
(***************************************************************************)
THEOREM HistoriesOnlyGrow == Spec => HistoryAppendOnly
<1>1. Inv /\ [Next]_vars => [HistoryOnlyGrows]_vars
  BY NextInv
<1>2. QED  BY <1>1, SnapshotsStayValid, PTL DEF Spec, HistoryAppendOnly
-----------------------------------------------------------------------------
(***************************************************************************)
(* Authors.  A version is known to its author from the moment it leaves    *)
(* the author's table, and for good, since tables only grow.  The one who  *)
(* may hold a version that is not in the table is a watcher of the author, *)
(* before it stores it or if it was dropped when it was stored.            *)
(***************************************************************************)

\* In the tables F, the author of v has it at place k of a history of file n.
Has(F, n, k, v) ==
    /\ v.user \in Device
    /\ \E i \in 1..Len(F[v.user]) :
          /\ F[v.user][i].name = n
          /\ k <= Len(F[v.user][i].versions) /\ F[v.user][i].versions[k] = v

\* ... or it is one of the devices in S.
Said(F, S, n, vs) == \A k \in 1..Len(vs) : vs[k].user \in S \/ Has(F, n, k, vs[k])
RowsSaid(F, S, rows) ==
    \A i \in 1..Len(rows) : Said(F, S, rows[i].name, rows[i].versions)
WatchSaid(F, d, k) ==
    /\ RowsSaid(F, {d}, k.snap)
    /\ \A i \in 1..Len(k.pend) : Said(F, {d}, k.pend[i].row.name, k.pend[i].row.versions)
TaskSaid(F, t) == RowsSaid(F, {}, t.snap) /\ RowsSaid(F, {}, t.msg)

FilesSaid(F)    == \A d \in Device : RowsSaid(F, {}, F[d])
IdxSaid(F, I)   == \A l \in Link : \A k \in 1..Len(I[l]) : RowsSaid(F, {}, I[l][k])
WatchesSaid(F, W) == \A l \in Link : WatchSaid(F, l[1], W[l])
TasksSaid(F, T) == \A d \in Device, w \in Worker : TaskSaid(F, T[d][w])

AuthorInv == /\ FilesSaid(files) /\ IdxSaid(files, idx)
             /\ WatchesSaid(files, watch) /\ TasksSaid(files, task)

Tables == [Device -> Seq(File)]

LEMMA HasStays ==
    ASSUME NEW F \in Tables, NEW G \in Tables, \A d \in Device : Extends(F[d], G[d]),
           NEW n, NEW k \in Nat \ {0}, NEW v, Has(F, n, k, v)
    PROVE  Has(G, n, k, v)
<1> DEFINE u == v.user
<1>1. u \in Device
  BY DEF Has
<1>2. PICK i \in 1..Len(F[u]) : /\ F[u][i].name = n
                                /\ k <= Len(F[u][i].versions) /\ F[u][i].versions[k] = v
  BY DEF Has
<1>3. F[u] \in Seq(File) /\ G[u] \in Seq(File)
  BY <1>1 DEF Tables
<1>4. Len(F[u]) <= Len(G[u]) /\ Len(F[u]) \in Nat /\ Len(G[u]) \in Nat
  BY <1>1, <1>3 DEF Extends
<1>5. i \in 1..Len(G[u])
  BY <1>4
<1>6. F[u][i].versions \in Seq(Version) /\ G[u][i].versions \in Seq(Version)
  <2>1. F[u][i] \in File /\ G[u][i] \in File
    BY <1>3, <1>5, ElementOfSeq
  <2>2. QED  BY <2>1 DEF File
<1>7. /\ G[u][i].name = F[u][i].name
      /\ Len(F[u][i].versions) <= Len(G[u][i].versions)
      /\ \A j \in 1..Len(F[u][i].versions) : G[u][i].versions[j] = F[u][i].versions[j]
  BY <1>1 DEF Extends
<1>8. k \in 1..Len(F[u][i].versions) /\ k <= Len(G[u][i].versions)
  BY <1>2, <1>6, <1>7
<1>9. QED  BY <1>1, <1>2, <1>5, <1>7, <1>8 DEF Has

LEMMA SaidStays ==
    ASSUME NEW F \in Tables, NEW G \in Tables, \A d \in Device : Extends(F[d], G[d])
    PROVE  /\ \A S, n, vs : Said(F, S, n, vs) => Said(G, S, n, vs)
           /\ \A S, rows : RowsSaid(F, S, rows) => RowsSaid(G, S, rows)
           /\ \A d, k : WatchSaid(F, d, k) => WatchSaid(G, d, k)
           /\ \A t : TaskSaid(F, t) => TaskSaid(G, t)
<1>1. ASSUME NEW S, NEW n, NEW vs, Said(F, S, n, vs) PROVE Said(G, S, n, vs)
  <2>1. ASSUME NEW k \in 1..Len(vs) PROVE vs[k].user \in S \/ Has(G, n, k, vs[k])
    <3>1. vs[k].user \in S \/ Has(F, n, k, vs[k])
      BY <1>1 DEF Said
    <3>2. k \in Nat \ {0}
      OBVIOUS
    <3>3. QED  BY <3>1, <3>2, HasStays
  <2>2. QED  BY <2>1 DEF Said
<1>2. \A S, rows : RowsSaid(F, S, rows) => RowsSaid(G, S, rows)
  BY <1>1, Zenon DEF RowsSaid
<1>3. \A d, k : WatchSaid(F, d, k) => WatchSaid(G, d, k)
  BY <1>1, <1>2, Zenon DEF WatchSaid
<1>4. \A t : TaskSaid(F, t) => TaskSaid(G, t)
  BY <1>2, Zenon DEF TaskSaid
<1>5. QED  BY <1>1, <1>2, <1>3, <1>4

\* What all have said, all others than d have.
LEMMA SaidMore ==
    ASSUME NEW F, NEW d, NEW rows, RowsSaid(F, {}, rows)
    PROVE  RowsSaid(F, {d}, rows)
  BY DEF RowsSaid, Said

LEMMA NothingSaid ==
    ASSUME NEW F
    PROVE  /\ \A S : RowsSaid(F, S, <<>>)
           /\ \A d \in Device : TaskSaid(F, IdleTask(d))
           /\ \A d, k : (k.snap = <<>> /\ k.pend = <<>>) => WatchSaid(F, d, k)
<1>1. \A S : RowsSaid(F, S, <<>>)
  BY DEF RowsSaid
<1>2. \A d \in Device : TaskSaid(F, IdleTask(d))
  BY <1>1 DEF TaskSaid, IdleTask
<1>3. \A d, k : (k.snap = <<>> /\ k.pend = <<>>) => WatchSaid(F, d, k)
  BY <1>1 DEF WatchSaid
<1>4. QED  BY <1>1, <1>2, <1>3

\* update_sync_file with versions that all authors but d have said.
LEMMA StoreSaid ==
    ASSUME NEW F \in Tables, NEW G \in Tables, \A e \in Device : Extends(F[e], G[e]),
           NEW d \in Device, NEW id \in 0..Len(F[d]), NEW row, RowOK(row),
           id # 0 => row.name = F[d][id].name,
           G = [F EXCEPT ![d] = UpdateSyncFile(@, id, row)],
           FilesSaid(F), Said(F, {d}, row.name, row.versions)
    PROVE  FilesSaid(G)
<1> DEFINE old == F[d]
           new == G[d]
<1>1. new = UpdateSyncFile(old, id, row) /\ \A e \in Device : e # d => G[e] = F[e]
  BY DEF Tables
<1>2. old \in Seq(File) /\ new \in Seq(File) /\ Len(old) \in Nat /\ Len(new) \in Nat
  BY DEF Tables
<1>3. \A e \in Device : RowsSaid(G, {}, F[e])
  BY SaidStays DEF FilesSaid
<1>4. Said(G, {d}, row.name, row.versions)
  BY SaidStays
<1>5. ASSUME NEW i \in 1..Len(new), NEW k \in 1..Len(new[i].versions)
      PROVE  new[i].versions[k].user = d \/ Has(G, new[i].name, k, new[i].versions[k])
  <2>1. ASSUME NEW j \in 1..Len(old), j = i, NEW vs, vs = old[j].versions,
               new[i].name = old[j].name, k \in 1..Len(vs), new[i].versions[k] = vs[k]
        PROVE  Has(G, new[i].name, k, new[i].versions[k])
    <3>1. Said(G, {}, old[j].name, old[j].versions)
      BY <1>3 DEF RowsSaid
    <3>2. QED  BY <2>1, <3>1 DEF Said
  <2>2. ASSUME new[i].name = row.name, k \in 1..Len(row.versions),
               new[i].versions[k] = row.versions[k]
        PROVE  new[i].versions[k].user = d \/ Has(G, new[i].name, k, new[i].versions[k])
    BY <1>4, <2>2 DEF Said
  <2>3. CASE id = 0
    <3>1. new = Append(old, row)
      BY <1>1, <2>3 DEF UpdateSyncFile
    <3>2. row \in File
      BY DEF RowOK
    <3>3. /\ Len(new) = Len(old) + 1 /\ new[Len(old) + 1] = row
          /\ \A j \in 1..Len(old) : new[j] = old[j]
      BY <1>2, <3>1, <3>2, AppendProperties
    <3> HIDE DEF old, new
    <3>4. CASE i \in 1..Len(old)
      BY <2>1, <3>3, <3>4
    <3>5. CASE i = Len(old) + 1
      BY <2>2, <3>3, <3>5
    <3>6. QED  BY <1>2, <3>3, <3>4, <3>5
  <2>4. CASE id # 0
    <3> DEFINE o == old[id]
               fit == VersionsFit(old, id, row)
               vs == IF fit THEN MergeVersions(o.versions, row.versions) ELSE o.versions
               bs == IF fit /\ row.blocks # <<>> THEN row.blocks ELSE o.blocks
    <3>1. new = [old EXCEPT ![id] = [name |-> row.name, hash |-> row.hash,
                                     synced |-> row.synced, versions |-> vs,
                                     blocks |-> bs]]
      BY <1>1, <2>4 DEF UpdateSyncFile
    <3>2. id \in 1..Len(old)
      BY <1>2, <2>4
    <3> HIDE DEF vs, bs, fit
    <3>3. /\ Len(new) = Len(old) /\ new[id].name = row.name /\ new[id].versions = vs
          /\ \A j \in 1..Len(old) : j # id => new[j] = old[j]
      BY <1>2, <3>1, <3>2
    <3>4. /\ row.versions \in Seq(Version) /\ o.versions \in Seq(Version)
          /\ row.name = o.name
      <4>1. o \in File
        BY <1>2, <3>2, ElementOfSeq
      <4>2. QED  BY <2>4, <4>1 DEF RowOK, File
    <3>5. CASE i # id
      <4> HIDE DEF old, new
      <4>1. i \in 1..Len(old) /\ new[i] = old[i]
        BY <3>3, <3>5
      <4>2. QED  BY <2>1, <4>1
    <3>6. CASE i = id
      <4>1. \/ k \in 1..Len(o.versions) /\ vs[k] = o.versions[k]
            \/ k \in 1..Len(row.versions) /\ vs[k] = row.versions[k]
        <5>1. k \in 1..Len(vs)
          BY <3>3, <3>6
        <5>2. CASE ~fit
          BY <5>1, <5>2 DEF vs
        <5>3. CASE fit
          BY <3>4, <5>1, <5>3 DEF vs, MergeVersions
        <5>4. QED  BY <5>2, <5>3
      <4> HIDE DEF old, new
      <4>2. CASE k \in 1..Len(o.versions) /\ vs[k] = o.versions[k]
        BY <2>1, <3>2, <3>3, <3>4, <3>6, <4>2
      <4>3. CASE k \in 1..Len(row.versions) /\ vs[k] = row.versions[k]
        BY <2>2, <3>3, <3>6, <4>3
      <4>4. QED  BY <4>1, <4>2, <4>3
    <3>7. QED  BY <3>5, <3>6
  <2>5. QED  BY <2>3, <2>4
<1>6. ASSUME NEW i \in 1..Len(new), NEW k \in 1..Len(new[i].versions)
      PROVE  Has(G, new[i].name, k, new[i].versions[k])
  <2>1. CASE new[i].versions[k].user = d
    <3>1. new[i].versions \in Seq(Version)
      <4>1. new[i] \in File
        BY <1>2, ElementOfSeq
      <4>2. QED  BY <4>1 DEF File
    <3>2. k <= Len(new[i].versions)
      BY <3>1
    <3>3. QED  BY <2>1, <3>2, Zenon DEF Has
  <2>2. QED  BY <1>5, <2>1
<1>7. RowsSaid(G, {}, new)
  BY <1>6 DEF RowsSaid, Said
<1>8. QED  BY <1>1, <1>3, <1>7 DEF FilesSaid

(***************************************************************************)
(* What a step has to show: the tables after it, and the rest with regard  *)
(* to the tables before it.                                                *)
(***************************************************************************)
LEMMA TablesGrow ==
    ASSUME Inv, Inv', HistoryOnlyGrows
    PROVE  /\ files \in Tables /\ files' \in Tables
           /\ \A d \in Device : Extends(files[d], files'[d])
<1>1. InvFiles /\ InvFiles'
  BY InvParts, InvPartsNext
<1>2. QED  BY <1>1 DEF InvFiles, Tables, HistoryOnlyGrows

LEMMA AuthorStep ==
    ASSUME Inv, Inv', HistoryOnlyGrows, FilesSaid(files'), IdxSaid(files, idx'),
           WatchesSaid(files, watch'), TasksSaid(files, task')
    PROVE  AuthorInv'
<1>1. PICK F \in Tables, G \in Tables :
         F = files /\ G = files' /\ \A d \in Device : Extends(F[d], G[d])
  BY TablesGrow
<1>2. /\ \A S, rows : RowsSaid(F, S, rows) => RowsSaid(G, S, rows)
      /\ \A d, k : WatchSaid(F, d, k) => WatchSaid(G, d, k)
      /\ \A t : TaskSaid(F, t) => TaskSaid(G, t)
  BY <1>1, SaidStays
<1>3. IdxSaid(files', idx')
  BY <1>1, <1>2, Zenon DEF IdxSaid
<1>4. WatchesSaid(files', watch')
  BY <1>1, <1>2, Zenon DEF WatchesSaid
<1>5. TasksSaid(files', task')
  BY <1>1, <1>2, Zenon DEF TasksSaid
<1>6. QED  BY <1>3, <1>4, <1>5 DEF AuthorInv

LEMMA OneWatch ==
    ASSUME AuthorInv, InvWatch, NEW l \in Link, NEW k, WatchSaid(files, l[1], k),
           watch' = [watch EXCEPT ![l] = k]
    PROVE  WatchesSaid(files, watch')
<1>1. ASSUME NEW m \in Link PROVE WatchSaid(files, m[1], watch'[m])
  <2>1. CASE m = l
    BY <2>1 DEF InvWatch
  <2>2. CASE m # l
    <3>1. watch'[m] = watch[m]
      BY <2>2 DEF InvWatch
    <3>2. QED  BY <3>1 DEF AuthorInv, WatchesSaid
  <2>3. QED  BY <2>1, <2>2
<1>2. QED  BY <1>1 DEF WatchesSaid

LEMMA OneTask ==
    ASSUME AuthorInv, InvTask, NEW d \in Device, NEW w \in Worker, NEW t,
           TaskSaid(files, t), task' = [task EXCEPT ![d][w] = t]
    PROVE  TasksSaid(files, task')
<1>1. ASSUME NEW e \in Device, NEW v \in Worker PROVE TaskSaid(files, task'[e][v])
  <2>1. CASE e = d /\ v = w
    BY <2>1 DEF InvTask
  <2>2. CASE ~(e = d /\ v = w)
    <3>1. task'[e][v] = task[e][v]
      BY <2>2 DEF InvTask
    <3>2. QED  BY <3>1 DEF AuthorInv, TasksSaid
  <2>3. QED  BY <2>1, <2>2
<1>2. QED  BY <1>1 DEF TasksSaid

\* A watcher or a task that holds the same rows has said the same.
LEMMA SameSaid ==
    ASSUME NEW F
    PROVE  /\ \A d, k, m : (WatchSaid(F, d, k) /\ m.snap = k.snap /\ m.pend = k.pend)
                              => WatchSaid(F, d, m)
           /\ \A t, u : (TaskSaid(F, t) /\ u.snap = t.snap /\ u.msg = t.msg)
                              => TaskSaid(F, u)
  BY DEF WatchSaid, TaskSaid

LEMMA NotifiedSaid ==
    ASSUME AuthorInv, InvWatch, NEW d \in Device, watch' = Notified(d)
    PROVE  WatchesSaid(files, watch')
<1>1. ASSUME NEW l \in Link PROVE WatchSaid(files, l[1], watch'[l])
  <2> DEFINE k == watch[l]
             n == [k EXCEPT !.event = TRUE]
  <2>1. k \in Watch /\ WatchSaid(files, l[1], k)
    BY DEF InvWatch, AuthorInv, WatchesSaid
  <2>2. n.snap = k.snap /\ n.pend = k.pend
    BY <2>1 DEF Watch
  <2>3. watch'[l] = k \/ watch'[l] = n
    BY DEF Notified
  <2> HIDE DEF n
  <2>4. WatchSaid(files, l[1], n)
    BY <2>1, <2>2, SameSaid
  <2>5. QED  BY <2>1, <2>3, <2>4
<1>2. QED  BY <1>1 DEF WatchesSaid

LEMMA IndexOfSaid ==
    ASSUME AuthorInv, InvFiles, NEW d \in Device
    PROVE  RowsSaid(files, {}, IndexOf(d))
<1> DEFINE m == IndexOf(d)
<1>1. files[d] \in Seq(File) /\ Len(files[d]) \in Nat
  BY DEF InvFiles
<1>2. /\ Len(m) = Len(files[d])
      /\ \A i \in 1..Len(files[d]) : /\ m[i].name = files[d][i].name
                                     /\ m[i].versions = files[d][i].versions
  BY <1>1 DEF IndexOf
<1> HIDE DEF m
<1>3. RowsSaid(files, {}, files[d])
  BY DEF AuthorInv, FilesSaid
<1>4. RowsSaid(files, {}, m)
  BY <1>2, <1>3 DEF RowsSaid
<1>5. QED  BY <1>4 DEF m

\* What is known before a step, and what every step keeps anyway.
Authored == Inv /\ Inv' /\ HistoryOnlyGrows /\ AuthorInv

LEMMA AuthoredParts ==
    ASSUME Authored
    PROVE  /\ InvRest /\ InvFiles /\ InvWatch /\ InvTask /\ InvIdx
           /\ Inv /\ Inv' /\ HistoryOnlyGrows /\ AuthorInv
           /\ FilesSaid(files) /\ IdxSaid(files, idx)
           /\ WatchesSaid(files, watch) /\ TasksSaid(files, task)
  BY InvParts DEF Authored, AuthorInv

\* A step that changes nothing but the watcher of l.
LEMMA WatcherSaid ==
    ASSUME Authored, NEW l \in Link, NEW k, WatchSaid(files, l[1], k),
           watch' = [watch EXCEPT ![l] = k], UNCHANGED <<files, task, idx>>
    PROVE  AuthorInv'
<1>1. WatchesSaid(files, watch')
  BY AuthoredParts, OneWatch
<1>2. FilesSaid(files') /\ IdxSaid(files, idx') /\ TasksSaid(files, task')
  BY AuthoredParts
<1>3. QED  BY <1>1, <1>2, AuthoredParts, AuthorStep

\* A step that changes nothing but d's handler w.
LEMMA HandlerSaid ==
    ASSUME Authored, NEW d \in Device, NEW w \in Worker, NEW t, TaskSaid(files, t),
           task' = [task EXCEPT ![d][w] = t], UNCHANGED <<files, watch, idx>>
    PROVE  AuthorInv'
<1>1. TasksSaid(files, task')
  BY AuthoredParts, OneTask
<1>2. FilesSaid(files') /\ IdxSaid(files, idx') /\ WatchesSaid(files, watch')
  BY AuthoredParts
<1>3. QED  BY <1>1, <1>2, AuthoredParts, AuthorStep

LEMMA UserWriteSaid ==
    ASSUME Authored, NEW d \in Editor, NEW n \in Name, NEW c \in UserContent,
           UserWrite(d, n, c)
    PROVE  AuthorInv'
<1>1. d \in Device /\ watch' = Notified(d) /\ UNCHANGED <<files, task, idx>>
  BY UserAssumption DEF UserWrite
<1>2. WatchesSaid(files, watch')
  BY <1>1, AuthoredParts, NotifiedSaid
<1>3. FilesSaid(files') /\ IdxSaid(files, idx') /\ TasksSaid(files, task')
  BY <1>1, AuthoredParts
<1>4. QED  BY <1>2, <1>3, AuthoredParts, AuthorStep

LEMMA WatchOffSaid ==
    ASSUME NEW F, NEW d
    PROVE  /\ WatchSaid(F, d, WatchOff)
           /\ WatchSaid(F, d, [WatchOff EXCEPT !.at = "dead"])
           /\ WatchSaid(F, d, [WatchOff EXCEPT !.at = "idle", !.live = TRUE])
           /\ \A e : WatchSaid(F, d, [WatchOff EXCEPT !.at = "idle", !.live = TRUE,
                                                      !.event = e])
<1> DEFINE dead == [WatchOff EXCEPT !.at = "dead"]
           new == [WatchOff EXCEPT !.at = "idle", !.live = TRUE]
           idle(e) == [WatchOff EXCEPT !.at = "idle", !.live = TRUE, !.event = e]
<1>1. /\ WatchOff.snap = <<>> /\ WatchOff.pend = <<>>
      /\ dead.snap = <<>> /\ dead.pend = <<>> /\ new.snap = <<>> /\ new.pend = <<>>
      /\ \A e : idle(e).snap = <<>> /\ idle(e).pend = <<>>
  BY DEF WatchOff
<1> HIDE DEF dead, new, idle
<1>2. /\ WatchSaid(F, d, WatchOff) /\ WatchSaid(F, d, dead) /\ WatchSaid(F, d, new)
      /\ \A e : WatchSaid(F, d, idle(e))
  BY <1>1, NothingSaid
<1>3. QED  BY <1>2 DEF dead, new, idle

LEMMA WatchStartSaid ==
    ASSUME Authored, NEW l \in Link, WatchStart(l)
    PROVE  AuthorInv'
<1> DEFINE k == [WatchOff EXCEPT !.at = "idle", !.live = TRUE]
<1>1. watch' = [watch EXCEPT ![l] = k] /\ UNCHANGED <<files, task, idx>>
  BY DEF WatchStart
<1>2. WatchSaid(files, l[1], k)
  BY WatchOffSaid
<1> HIDE DEF k
<1>3. QED  BY <1>1, <1>2, WatcherSaid

LEMMA GenerateIndexSaid ==
    ASSUME Authored, NEW l \in Link, GenerateIndex(l)
    PROVE  AuthorInv'
<1> DEFINE L == {n \in Name : disk[l[1]][n] # Absent}
           k == [watch[l] EXCEPT !.at = "scan", !.event = FALSE,
                                 !.snap = files[l[1]], !.changed = FALSE,
                                 !.left = L]
<1>1. watch' = [watch EXCEPT ![l] = k] /\ UNCHANGED <<files, task, idx>>
  BY DEF GenerateIndex, GetSyncFiles
<1>2. watch[l] \in Watch /\ l[1] \in Device /\ WatchSaid(files, l[1], watch[l])
  BY AuthoredParts, LinkEnds DEF InvWatch, WatchesSaid
<1>3. k.snap = files[l[1]] /\ k.pend = watch[l].pend
  BY <1>2 DEF Watch
<1>4. RowsSaid(files, {l[1]}, files[l[1]])
  BY <1>2, AuthoredParts, SaidMore DEF FilesSaid
<1> HIDE DEF k
<1>5. WatchSaid(files, l[1], k)
  BY <1>2, <1>3, <1>4 DEF WatchSaid
<1>6. QED  BY <1>1, <1>5, WatcherSaid

\* A new version is the author's own: the watcher of its device may hold it.
LEMMA NewVersionSaid ==
    ASSUME NEW F, NEW d \in Device, NEW f, RowOK(f), NEW c,
           Said(F, {d}, f.name, f.versions)
    PROVE  Said(F, {d}, NewVersion(d, f, c).name, NewVersion(d, f, c).versions)
<1> DEFINE v == [user |-> d, val |-> IndexVersion(f) + 1]
           vs == Append(f.versions, v)
<1>1. f.versions \in Seq(Version) /\ Consecutive(f.versions)
  BY DEF RowOK, File
<1>2. IndexVersion(f) = Len(f.versions) - 1 /\ Len(f.versions) \in Nat \ {0}
  BY <1>1, IndexVersionIsLast
<1>3. v \in Version /\ v.user = d
  BY <1>2 DEF Version
<1>4. NewVersion(d, f, c).name = f.name /\ NewVersion(d, f, c).versions = vs
  BY DEF NewVersion
<1> HIDE DEF v
<1>5. /\ Len(vs) = Len(f.versions) + 1 /\ vs[Len(f.versions) + 1] = v
      /\ \A k \in 1..Len(f.versions) : vs[k] = f.versions[k]
  BY <1>1, <1>3, AppendProperties
<1> HIDE DEF vs
<1>6. ASSUME NEW k \in 1..Len(vs) PROVE vs[k].user \in {d} \/ Has(F, f.name, k, vs[k])
  <2>1. CASE k = Len(f.versions) + 1
    BY <1>3, <1>5, <2>1
  <2>2. CASE k \in 1..Len(f.versions)
    BY <1>5, <2>2 DEF Said
  <2>3. QED  BY <1>2, <1>5, <2>1, <2>2
<1>7. QED  BY <1>4, <1>6 DEF Said

LEMMA NewFileSaid ==
    ASSUME NEW F, NEW d \in Device, NEW n, NEW c
    PROVE  Said(F, {d}, NewFile(d, n, c).name, NewFile(d, n, c).versions)
<1> DEFINE vs == NewFile(d, n, c).versions
<1>1. Len(vs) = 1 /\ vs[1].user = d
  BY DEF NewFile
<1> HIDE DEF vs
<1>2. \A k \in 1..Len(vs) : vs[k].user = d
  BY <1>1
<1>3. QED  BY <1>2 DEF Said, vs

LEMMA ScanFileSaid ==
    ASSUME Authored, NEW l \in Link, NEW n \in Name, ScanFile(l, n)
    PROVE  AuthorInv'
<1> DEFINE d == l[1]
           c == disk[d][n]
           k == watch[l]
           i == FindFile(k.snap, n)
<1>1. d \in Device /\ k \in Watch /\ WatchOK(k, files[d]) /\ WatchSaid(files, d, k)
  BY AuthoredParts, LinkEnds DEF InvWatch, WatchesSaid
<1>2. UNCHANGED <<files, task, idx>>
  BY DEF ScanFile
<1>3. /\ i \in 0..Len(k.snap) /\ k.snap \in Seq(File)
      /\ i # 0 => k.snap[i].name = n /\ RowOK(k.snap[i])
  BY <1>1, FindFileFinds DEF WatchOK, SnapOf, RowsOK
<1>4. ASSUME NEW m, WatchSaid(files, d, m), watch' = [watch EXCEPT ![l] = m]
      PROVE  AuthorInv'
  BY <1>2, <1>4, WatcherSaid
<1>5. ASSUME NEW row, Said(files, {d}, row.name, row.versions),
             watch' = [watch EXCEPT ![l] =
                         [k EXCEPT !.at = "store", !.left = @ \ {n},
                                   !.pend = <<[id |-> i, row |-> row]>>]]
      PROVE  AuthorInv'
  <2> DEFINE q == <<[id |-> i, row |-> row]>>
             m == [k EXCEPT !.at = "store", !.left = @ \ {n}, !.pend = q]
  <2>1. Len(q) = 1 /\ q[1].row = row
    OBVIOUS
  <2> HIDE DEF q
  <2>2. m.snap = k.snap /\ m.pend = q
    BY <1>1 DEF Watch
  <2>3. watch' = [watch EXCEPT ![l] = m]
    BY <1>5 DEF q
  <2> HIDE DEF m
  <2>4. ASSUME NEW j \in 1..Len(m.pend) PROVE m.pend[j].row = row
    <3>1. Len(m.pend) = 1
      BY <2>1, <2>2
    <3>2. j = 1
      BY <3>1
    <3>3. QED  BY <2>1, <2>2, <3>2
  <2>5. WatchSaid(files, d, m)
    BY <1>1, <1>5, <2>2, <2>4 DEF WatchSaid
  <2>6. QED  BY <1>4, <2>3, <2>5
<1>6. CASE c = Absent
  BY <1>4, <1>6, WatchOffSaid DEF ScanFile
<1>7. CASE c # Absent /\ i # 0 /\ ~Modified(k.snap[i], c)
  <2> DEFINE m == [k EXCEPT !.left = @ \ {n}]
  <2>1. m.snap = k.snap /\ m.pend = k.pend
    BY <1>1 DEF Watch
  <2>2. watch' = [watch EXCEPT ![l] = m]
    BY <1>7 DEF ScanFile
  <2> HIDE DEF m
  <2>3. WatchSaid(files, d, m)
    BY <1>1, <2>1, SameSaid
  <2>4. QED  BY <1>4, <2>2, <2>3
<1>8. CASE c # Absent /\ i # 0 /\ Modified(k.snap[i], c)
  <2> DEFINE row == NewVersion(d, k.snap[i], c)
  <2>1. Said(files, {d}, k.snap[i].name, k.snap[i].versions)
    <3>1. i \in 1..Len(k.snap)
      BY <1>3, <1>8
    <3>2. QED  BY <1>1, <3>1 DEF WatchSaid, RowsSaid
  <2>2. Said(files, {d}, row.name, row.versions)
    BY <1>1, <1>3, <1>8, <2>1, NewVersionSaid
  <2>3. watch' = [watch EXCEPT ![l] =
                    [k EXCEPT !.at = "store", !.left = @ \ {n},
                              !.pend = <<[id |-> i, row |-> row]>>]]
    BY <1>8 DEF ScanFile
  <2> HIDE DEF row
  <2>4. QED  BY <1>5, <2>2, <2>3
<1>9. CASE c # Absent /\ i = 0
  <2> DEFINE row == NewFile(d, n, c)
  <2>1. Said(files, {d}, row.name, row.versions)
    BY <1>1, NewFileSaid
  <2>2. watch' = [watch EXCEPT ![l] =
                    [k EXCEPT !.at = "store", !.left = @ \ {n},
                              !.pend = <<[id |-> i, row |-> row]>>]]
    BY <1>9 DEF ScanFile
  <2> HIDE DEF row
  <2>3. QED  BY <1>5, <2>1, <2>2
<1>10. QED  BY <1>6, <1>7, <1>8, <1>9

\* A row of a snapshot is replaced.
LEMMA SnapSaid ==
    ASSUME NEW F, NEW S, NEW snap \in Seq(File), RowsSaid(F, S, snap),
           NEW i \in 1..Len(snap), NEW row, RowOK(row),
           Said(F, S, row.name, row.versions)
    PROVE  RowsSaid(F, S, [snap EXCEPT ![i] = row])
<1> DEFINE new == [snap EXCEPT ![i] = row]
<1>1. row \in File
  BY DEF RowOK
<1>2. /\ Len(new) = Len(snap)
      /\ \A j \in 1..Len(snap) : new[j] = IF j = i THEN row ELSE snap[j]
  BY <1>1, ExceptSeq
<1> HIDE DEF new
<1>3. RowsSaid(F, S, new)
  BY <1>2 DEF RowsSaid
<1>4. QED  BY <1>3 DEF new

\* The row that a watcher stores: what it lost of its own versions is dropped.
LEMMA ScanStoreSaid ==
    ASSUME Authored, NEW l \in Link, ScanStore(l)
    PROVE  AuthorInv'
<1> DEFINE d == l[1]
           k == watch[l]
           id == k.pend[1].id
           row == k.pend[1].row
           fit == VersionsFit(files[d], id, row)
           snap == IF id = 0 THEN k.snap ELSE [k.snap EXCEPT ![id] = row]
           m == [k EXCEPT !.at = "scan", !.pend = <<>>, !.changed = TRUE,
                          !.snap = snap]
           dead == [WatchOff EXCEPT !.at = "dead"]
<1>1. /\ d \in Device /\ k \in Watch /\ WatchOK(k, files[d])
      /\ WatchSaid(files, d, k) /\ files[d] \in Seq(File)
  BY AuthoredParts, LinkEnds DEF InvWatch, InvFiles, WatchesSaid
<1>2. 1 \in 1..Len(k.pend)
  BY <1>1 DEF WatchOK, ScanStore
<1>3. /\ RowOK(row) /\ id \in 0..Len(k.snap) /\ SnapOf(k.snap, files[d])
      /\ id # 0 => row.name = k.snap[id].name
  BY <1>1, <1>2 DEF WatchOK
<1>4. Said(files, {d}, row.name, row.versions) /\ RowsSaid(files, {d}, k.snap)
  BY <1>1, <1>2 DEF WatchSaid
<1>5. /\ files' = [files EXCEPT ![d] = UpdateSyncFile(@, id, row)]
      /\ watch' = [watch EXCEPT ![l] = IF fit THEN m ELSE dead]
      /\ UNCHANGED <<task, idx>>
  BY DEF ScanStore
<1> HIDE DEF id, row, fit
<1>6. /\ id \in 0..Len(files[d]) /\ k.snap \in Seq(File) /\ Len(k.snap) \in Nat
      /\ id # 0 => row.name = files[d][id].name
  <2>1. Len(k.snap) \in Nat /\ Len(files[d]) \in Nat /\ k.snap \in Seq(File)
    BY <1>1, <1>3 DEF SnapOf, RowsOK
  <2>2. Len(k.snap) <= Len(files[d])
    BY <1>3 DEF SnapOf
  <2>3. id # 0 => id \in 1..Len(k.snap)
    BY <1>3, <2>1
  <2>4. QED  BY <1>3, <2>1, <2>2, <2>3 DEF SnapOf
<1>7. FilesSaid(files')
  <2>1. FilesSaid(files)
    BY AuthoredParts
  <2>2. /\ files \in Tables /\ files' \in Tables
        /\ \A e \in Device : Extends(files[e], files'[e])
    BY AuthoredParts, TablesGrow
  <2>3. QED  BY <1>1, <1>3, <1>4, <1>5, <1>6, <2>1, <2>2, StoreSaid
<1>8. RowsSaid(files, {d}, snap)
  <2>1. CASE id = 0
    BY <1>4, <2>1
  <2>2. CASE id # 0
    BY <1>3, <1>4, <1>6, <2>2, SnapSaid
  <2>3. QED  BY <2>1, <2>2
<1>9. WatchSaid(files, d, m)
  <2> HIDE DEF snap
  <2>1. m.pend = <<>> /\ m.snap = snap
    BY <1>1 DEF Watch
  <2> HIDE DEF m
  <2>2. QED  BY <1>8, <2>1 DEF WatchSaid
<1>10. WatchSaid(files, d, dead)
  BY WatchOffSaid
<1> HIDE DEF m, dead
<1>11. WatchesSaid(files, watch')
  <2>1. WatchSaid(files, d, IF fit THEN m ELSE dead)
    BY <1>9, <1>10
  <2>2. QED  BY <1>5, <2>1, AuthoredParts, OneWatch
<1>12. IdxSaid(files, idx') /\ TasksSaid(files, task')
  BY <1>5, AuthoredParts
<1>13. QED  BY <1>7, <1>11, <1>12, AuthoredParts, AuthorStep

LEMMA ScanEndSaid ==
    ASSUME Authored, NEW l \in Link, ScanEnd(l)
    PROVE  AuthorInv'
<1> DEFINE e == watch[l].event
           k == IF watch[l].live
                THEN [WatchOff EXCEPT !.at = "idle", !.live = TRUE, !.event = e]
                ELSE WatchOff
<1>1. watch' = [watch EXCEPT ![l] = k] /\ UNCHANGED <<files, task, idx>>
  BY DEF ScanEnd
<1>2. WatchSaid(files, l[1], k)
  BY WatchOffSaid
<1> HIDE DEF k
<1>3. QED  BY <1>1, <1>2, WatcherSaid

LEMMA SendIndexSaid ==
    ASSUME Authored, NEW l \in Link, SendIndex(l)
    PROVE  AuthorInv'
<1> DEFINE m == IndexOf(l[1])
<1>1. UNCHANGED <<files, watch, task>>
  BY DEF SendIndex
<1>2. idx' = idx \/ idx' = [idx EXCEPT ![l] = Append(@, m)]
  BY DEF SendIndex
<1>3. RowsSaid(files, {}, m)
  BY AuthoredParts, LinkEnds, IndexOfSaid
<1> HIDE DEF m
<1>4. IdxSaid(files, idx')
  <2>1. CASE idx' = idx
    BY <2>1, AuthoredParts
  <2>2. CASE idx' = [idx EXCEPT ![l] = Append(@, m)]
    <3>1. ASSUME NEW j \in Link, NEW k \in 1..Len(idx'[j])
          PROVE  RowsSaid(files, {}, idx'[j][k])
      <4>0. idx[j] \in Seq(Seq(FileInfo)) /\ idx \in [Link -> Seq(Seq(FileInfo))]
        BY AuthoredParts DEF InvIdx
      <4>1. CASE j # l
        <5>1. idx'[j] = idx[j]
          BY <2>2, <4>0, <4>1
        <5>2. QED  BY <5>1, AuthoredParts DEF IdxSaid
      <4>2. CASE j = l
        <5>1. idx'[j] = Append(idx[l], m)
          BY <2>2, <4>0, <4>2
        <5>2. idx'[j][k] = m \/ (k \in 1..Len(idx[l]) /\ idx'[j][k] = idx[l][k])
          BY <4>0, <4>2, <5>1
        <5>3. QED  BY <1>3, <4>2, <5>2, AuthoredParts DEF IdxSaid
      <4>3. QED  BY <4>1, <4>2
    <3>2. QED  BY <3>1 DEF IdxSaid
  <2>3. QED  BY <1>2, <2>1, <2>2
<1>5. FilesSaid(files') /\ WatchesSaid(files, watch') /\ TasksSaid(files, task')
  BY <1>1, AuthoredParts
<1>6. QED  BY <1>4, <1>5, AuthoredParts, AuthorStep

LEMMA HandleIndexSaid ==
    ASSUME Authored, NEW d \in Device, NEW w \in Worker, NEW p \in Device, NEW k,
           HandleIndex(d, w, p, k)
    PROVE  AuthorInv'
<1> DEFINE q == idx[<<p, d>>]
           r == RemoveIndexAt(q, k)
           t == task[d][w]
           n == [t EXCEPT !.at = "index", !.peer = p, !.live = TRUE,
                          !.snap = files[d], !.pos = 1, !.msg = q[k]]
<1>1. /\ <<p, d>> \in Link /\ k \in 1..Len(q)
      /\ idx' = [idx EXCEPT ![<<p, d>>] = r] /\ task' = [task EXCEPT ![d][w] = n]
      /\ UNCHANGED <<files, watch>>
  BY DEF HandleIndex, GetSyncFiles
<1>2. q \in Seq(Seq(FileInfo)) /\ \A i \in 1..Len(q) : RowsSaid(files, {}, q[i])
  BY <1>1, AuthoredParts DEF InvIdx, IdxSaid
<1>3. RowsSaid(files, {}, files[d]) /\ t \in Task
  BY AuthoredParts DEF FilesSaid, InvTask
<1>4. TaskSaid(files, n)
  <2> HIDE DEF q
  <2>1. n.snap = files[d] /\ n.msg = q[k]
    BY <1>3 DEF Task
  <2> HIDE DEF n
  <2>2. QED  BY <1>1, <1>2, <1>3, <2>1 DEF TaskSaid
<1>5. \A i \in 1..Len(r) : RowsSaid(files, {}, r[i])
  <2> HIDE DEF q
  <2>1. Len(q) - 1 \in Nat /\ Len(q) \in Nat
    BY <1>1, <1>2
  <2>2. Len(r) = Len(q) - 1
    BY <2>1 DEF RemoveIndexAt
  <2>3. \A i \in 1..(Len(q) - 1) : \E j \in 1..Len(q) : r[i] = q[j]
    BY <1>1, <2>1 DEF RemoveIndexAt
  <2> HIDE DEF r
  <2>4. QED  BY <1>2, <2>2, <2>3
<1> HIDE DEF n, r
<1>6. TasksSaid(files, task')
  BY <1>1, <1>4, AuthoredParts, OneTask
<1>7. IdxSaid(files, idx')
  <2>1. ASSUME NEW j \in Link PROVE \A i \in 1..Len(idx'[j]) : RowsSaid(files, {}, idx'[j][i])
    <3>0. idx \in [Link -> Seq(Seq(FileInfo))]
      BY AuthoredParts DEF InvIdx
    <3>1. CASE j = <<p, d>>
      <4>1. idx'[j] = r
        BY <1>1, <3>0, <3>1
      <4>2. QED  BY <1>5, <4>1
    <3>2. CASE j # <<p, d>>
      <4>1. idx'[j] = idx[j]
        BY <1>1, <3>0, <3>2
      <4>2. QED  BY <4>1, AuthoredParts DEF IdxSaid
    <3>3. QED  BY <3>1, <3>2
  <2>2. QED  BY <2>1 DEF IdxSaid
<1>8. FilesSaid(files') /\ WatchesSaid(files, watch')
  BY <1>1, AuthoredParts
<1>9. QED  BY <1>6, <1>7, <1>8, AuthoredParts, AuthorStep

\* A step of d's handler w that stores a row of the snapshot, or a new one, with
\* versions that their authors have.
LEMMA HandlerStoresSaid ==
    ASSUME Authored, NEW d \in Device, NEW w \in Worker, NEW id, NEW row, NEW t, NEW u,
           task[d][w] = u, RowOK(row), id \in 0..Len(u.snap),
           id # 0 => row.name = u.snap[id].name,
           Said(files, {}, row.name, row.versions), TaskSaid(files, t),
           files' = [files EXCEPT ![d] = UpdateSyncFile(@, id, row)],
           task' = [task EXCEPT ![d][w] = t], UNCHANGED <<watch, idx>>
    PROVE  AuthorInv'
<1>1. TaskOK(u, files[d]) /\ files[d] \in Seq(File)
  BY AuthoredParts DEF InvTask, InvFiles
<1>2. /\ Len(u.snap) \in Nat /\ Len(files[d]) \in Nat
      /\ Len(u.snap) <= Len(files[d])
  BY <1>1 DEF TaskOK, SnapOf, RowsOK
<1>3. id \in 0..Len(files[d]) /\ (id # 0 => row.name = files[d][id].name)
  <2>1. id # 0 => id \in 1..Len(u.snap)
    BY <1>2
  <2>2. QED  BY <1>1, <1>2, <2>1 DEF TaskOK, SnapOf
<1>4. FilesSaid(files')
  <2>1. FilesSaid(files)
    BY AuthoredParts
  <2>2. /\ files \in Tables /\ files' \in Tables
        /\ \A e \in Device : Extends(files[e], files'[e])
    BY AuthoredParts, TablesGrow
  <2>3. Said(files, {d}, row.name, row.versions)
    BY DEF Said
  <2>4. QED  BY <1>3, <2>1, <2>2, <2>3, StoreSaid
<1>5. TasksSaid(files, task')
  BY AuthoredParts, OneTask
<1>6. IdxSaid(files, idx') /\ WatchesSaid(files, watch')
  BY AuthoredParts
<1>7. QED  BY <1>4, <1>5, <1>6, AuthoredParts, AuthorStep

LEMMA IndexFileSaid ==
    ASSUME Authored, NEW d \in Device, NEW w \in Worker, IndexFile(d, w)
    PROVE  AuthorInv'
<1> DEFINE t == task[d][w]
           info == t.msg[t.pos]
           i == FindFile(t.snap, info.name)
           row == IF i = 0 THEN AnnouncedNew(info) ELSE Announced(t.snap[i], info)
           fit == VersionsFit(files[d], i, row)
           snap == IF i = 0 THEN t.snap ELSE [t.snap EXCEPT ![i] = row]
<1>1. t \in Task /\ TaskOK(t, files[d]) /\ TaskSaid(files, t)
  BY AuthoredParts DEF InvTask, TasksSaid
<1>2. t.pos \in 1..Len(t.msg)
  <2>1. t.at = "index" /\ t.pos <= Len(t.msg)
    BY DEF IndexFile
  <2>2. QED  BY <1>1, <2>1 DEF TaskOK, Task
<1>3. /\ InfoOK(info) /\ info.name \in Name
      /\ Said(files, {}, info.name, info.versions)
  BY <1>1, <1>2, InfoFields DEF TaskOK, InfosOK, TaskSaid, RowsSaid
<1>4. /\ t.snap \in Seq(File) /\ RowsOK(t.snap) /\ Len(t.snap) \in Nat
      /\ RowsSaid(files, {}, t.snap)
  BY <1>1 DEF TaskOK, SnapOf, RowsOK, TaskSaid
<1>5. /\ i \in 0..Len(t.snap)
      /\ (i # 0) <=> HasRow(t.snap, info.name)
      /\ i # 0 => t.snap[i].name = info.name
  BY <1>3, <1>4, FindFileFinds, Zenon
<1>6. CASE UpToDate(t.snap, info)
  <2> DEFINE n == [t EXCEPT !.pos = t.pos + 1]
  <2>1. n.snap = t.snap /\ n.msg = t.msg
    BY <1>1 DEF Task
  <2>2. task' = [task EXCEPT ![d][w] = n] /\ UNCHANGED <<files, watch, idx>>
    BY <1>6 DEF IndexFile
  <2> HIDE DEF n
  <2>3. TaskSaid(files, n)
    BY <1>1, <2>1, SameSaid
  <2>4. QED  BY <2>2, <2>3, HandlerSaid
<1>7. CASE ~UpToDate(t.snap, info)
  <2>1. /\ RowOK(row) /\ (i # 0 => row.name = t.snap[i].name)
        /\ row.name = info.name /\ row.versions = info.versions
    <3>1. CASE i = 0
      BY <1>3, <3>1, AnnouncedNewOK, Zenon DEF AnnouncedNew
    <3>2. CASE i # 0
      <4> DEFINE f == t.snap[i]
      <4>1. RowOK(f)
        BY <1>4, <1>5, <3>2 DEF RowsOK
      <4>2. ~(Len(f.versions) >= Len(info.versions))
        BY <1>5, <1>7, <3>2, Zenon DEF UpToDate
      <4>3. f.name = info.name
        BY <1>5, <3>2
      <4> HIDE DEF f, info
      <4>4. f.versions \in Seq(Version) /\ info.versions \in Seq(Version)
        BY <1>3, <4>1, InfoFields DEF RowOK, File
      <4>5. Len(f.versions) < Len(info.versions)
        BY <4>2, <4>4, LenProperties
      <4>6. RowOK(Announced(f, info)) /\ Announced(f, info).name = f.name
        BY <1>3, <4>1, <4>5, AnnouncedOK
      <4>7. Announced(f, info).versions = info.versions
        BY DEF Announced
      <4>8. QED  BY <3>2, <4>3, <4>6, <4>7, SMTT(30) DEF f
    <3>3. QED  BY <3>1, <3>2, Zenon
  <2>2. Said(files, {}, row.name, row.versions)
    BY <1>3, <2>1, Zenon
  <2> HIDE DEF row
  <2>3. RowsSaid(files, {}, snap)
    <3>1. CASE i = 0
      BY <1>4, <3>1
    <3>2. CASE i # 0
      <4>1. i \in 1..Len(t.snap)
        BY <1>4, <1>5, <3>2
      <4>2. QED  BY <1>4, <2>1, <2>2, <3>2, <4>1, SnapSaid, Zenon
    <3>3. QED  BY <3>1, <3>2
  <2> DEFINE n == [t EXCEPT !.pos = t.pos + 1, !.changed = TRUE, !.snap = snap]
             u == IF fit THEN n ELSE IdleTask(d)
  <2> HIDE DEF snap
  <2>4. n.snap = snap /\ n.msg = t.msg
    BY <1>1 DEF Task
  <2>5. TaskSaid(files, u)
    <3> HIDE DEF n, fit
    <3>1. TaskSaid(files, n)
      BY <1>1, <2>3, <2>4 DEF TaskSaid
    <3>2. QED  BY <3>1, NothingSaid
  <2>6. /\ files' = [files EXCEPT ![d] = UpdateSyncFile(@, i, row)]
        /\ task' = [task EXCEPT ![d][w] = u]
        /\ UNCHANGED <<watch, idx>>
    BY <1>7, Zenon DEF IndexFile, row, snap
  <2> HIDE DEF u, i, fit
  <2>7. QED  BY <1>5, <2>1, <2>2, <2>5, <2>6, HandlerStoresSaid, Zenon
<1>8. QED  BY <1>6, <1>7

LEMMA IndexEndSaid ==
    ASSUME Authored, NEW d \in Device, NEW w \in Worker, IndexEnd(d, w)
    PROVE  AuthorInv'
<1> DEFINE t == task[d][w]
           i == IdleTask(d)
           n == [i EXCEPT !.at = "begin", !.peer = t.peer, !.live = t.live]
           u == IF t.changed THEN n ELSE i
<1>1. task' = [task EXCEPT ![d][w] = u] /\ UNCHANGED <<files, watch, idx>>
  BY DEF IndexEnd
<1>2. n.snap = i.snap /\ n.msg = i.msg
  BY DEF IdleTask
<1>3. TaskSaid(files, i)
  BY NothingSaid
<1> HIDE DEF n, i
<1>4. TaskSaid(files, u)
  BY <1>2, <1>3, SameSaid
<1> HIDE DEF u
<1>5. QED  BY <1>1, <1>4, HandlerSaid

LEMMA GetDirectorySaid ==
    ASSUME Authored, NEW d \in Device, NEW w \in Worker, GetDirectory(d, w)
    PROVE  AuthorInv'
<1> DEFINE t == task[d][w]
           n == [t EXCEPT !.at = "next", !.pos = 1, !.snap = files[d]]
<1>1. task' = [task EXCEPT ![d][w] = n] /\ UNCHANGED <<files, watch, idx>>
  BY DEF GetDirectory, GetSyncFiles
<1>2. t \in Task /\ TaskSaid(files, t) /\ RowsSaid(files, {}, files[d])
  BY AuthoredParts DEF InvTask, TasksSaid, FilesSaid
<1>3. n.snap = files[d] /\ n.msg = t.msg
  BY <1>2 DEF Task
<1> HIDE DEF n
<1>4. TaskSaid(files, n)
  BY <1>2, <1>3 DEF TaskSaid
<1>5. QED  BY <1>1, <1>4, HandlerSaid

\* A task that goes on with the same rows, or ends.
SameRows(d, t, n) == n = IdleTask(d) \/ (n.snap = t.snap /\ n.msg = t.msg)

LEMMA AskingSame ==
    ASSUME NEW d, NEW t \in Task, NEW k
    PROVE  SameRows(d, t, Asking(d, t, k))
<1> DEFINE n == [t EXCEPT !.at = "asked", !.blk = k, !.ans = <<>>]
<1>1. n.snap = t.snap /\ n.msg = t.msg
  BY DEF Task
<1>2. Asking(d, t, k) = n \/ Asking(d, t, k) = IdleTask(d)
  BY DEF Asking
<1> HIDE DEF n
<1>3. QED  BY <1>1, <1>2 DEF SameRows

LEMMA SameRowsSaid ==
    ASSUME NEW F, NEW d \in Device, NEW t, NEW n, TaskSaid(F, t), SameRows(d, t, n)
    PROVE  TaskSaid(F, n)
  BY NothingSaid, SameSaid DEF SameRows

LEMMA GetFileSame ==
    ASSUME Inv, NEW d \in Device, NEW w \in Worker, GetFile(d, w)
    PROVE  \E n : /\ task' = [task EXCEPT ![d][w] = n]
                  /\ SameRows(d, task[d][w], n)
<1> DEFINE t == task[d][w]
           f == t.snap[t.pos]
           n == [t EXCEPT !.pos = t.pos + 1]
           a == Asking(d, t, 1)
           m == CASE ~Wanted(d, f)                   -> n
                  [] Wanted(d, f) /\ f.blocks # <<>> -> a
                  [] OTHER                           -> IdleTask(d)
<1>1. task' = [task EXCEPT ![d][w] = m]
  BY DEF GetFile
<1>2. t \in Task
  BY InvParts DEF InvTask
<1>3. n.snap = t.snap /\ n.msg = t.msg
  BY <1>2 DEF Task
<1> HIDE DEF n
<1>4. SameRows(d, t, n) /\ SameRows(d, t, a) /\ SameRows(d, t, IdleTask(d))
  BY <1>2, <1>3, AskingSame DEF SameRows
<1> HIDE DEF a, f, t
<1>5. SameRows(d, t, m)
  BY <1>4
<1> HIDE DEF m
<1>6. QED  BY <1>1, <1>5 DEF t

LEMMA GetFileSaid ==
    ASSUME Authored, NEW d \in Device, NEW w \in Worker, GetFile(d, w)
    PROVE  AuthorInv'
<1>1. PICK n : task' = [task EXCEPT ![d][w] = n] /\ SameRows(d, task[d][w], n)
  BY AuthoredParts, GetFileSame
<1>2. TaskSaid(files, n)
  BY <1>1, AuthoredParts, SameRowsSaid DEF TasksSaid
<1>3. UNCHANGED <<files, watch, idx>>
  BY DEF GetFile
<1>4. QED  BY <1>1, <1>2, <1>3, HandlerSaid

LEMMA HandleRequestSaid ==
    ASSUME Authored, NEW d \in Device, NEW w \in Worker, HandleRequest(d, w)
    PROVE  AuthorInv'
<1> DEFINE t == task[d][w]
           c == disk[t.peer][t.snap[t.pos].name]
           o == WantedBlock(t).offset
           ok == /\ CanReadBlock(c, o)
                 /\ BlockHash(ReadBlock(c, o)) = WantedBlock(t).hash
           a == IF ok THEN <<ReadBlock(c, o)>> ELSE <<>>
           n == [t EXCEPT !.at = "answered", !.ans = a]
<1>1. task' = [task EXCEPT ![d][w] = n] /\ UNCHANGED <<files, watch, idx>>
  BY SMTT(30) DEF HandleRequest
<1>2. t \in Task /\ TaskSaid(files, t)
  BY AuthoredParts DEF InvTask, TasksSaid
<1> HIDE DEF a
<1>3. n.snap = t.snap /\ n.msg = t.msg
  BY <1>2 DEF Task
<1> HIDE DEF n
<1>4. TaskSaid(files, n)
  BY <1>2, <1>3, SameSaid
<1>5. QED  BY <1>1, <1>4, HandlerSaid

LEMMA GotBlockSaid ==
    ASSUME Authored, NEW d \in Device, NEW w \in Worker, GotBlock(d, w)
    PROVE  AuthorInv'
<1> DEFINE t == task[d][w]
           n == [t EXCEPT !.at = "store"]
<1>1. /\ task' = [task EXCEPT ![d][w] = n] \/ task' = [task EXCEPT ![d][w] = IdleTask(d)]
      /\ watch' = watch \/ watch' = Notified(d)
      /\ UNCHANGED <<files, idx>>
  BY DEF GotBlock
<1>2. t \in Task /\ TaskSaid(files, t)
  BY AuthoredParts DEF InvTask, TasksSaid
<1>3. n.snap = t.snap /\ n.msg = t.msg
  BY <1>2 DEF Task
<1> HIDE DEF n
<1>4. TaskSaid(files, n) /\ TaskSaid(files, IdleTask(d))
  BY <1>2, <1>3, SameSaid, NothingSaid
<1>5. TasksSaid(files, task')
  BY <1>1, <1>4, AuthoredParts, OneTask
<1>6. WatchesSaid(files, watch')
  BY <1>1, AuthoredParts, NotifiedSaid
<1>7. FilesSaid(files') /\ IdxSaid(files, idx')
  BY <1>1, AuthoredParts
<1>8. QED  BY <1>5, <1>6, <1>7, AuthoredParts, AuthorStep

LEMMA StoreSyncedSaid ==
    ASSUME Authored, NEW d \in Device, NEW w \in Worker, StoreSynced(d, w)
    PROVE  AuthorInv'
<1> DEFINE t == task[d][w]
           f == t.snap[t.pos]
           row == Synced(f)
           fit == VersionsFit(files[d], t.pos, row)
           n == [t EXCEPT !.at = "next", !.pos = t.pos + 1]
           a == Asking(d, t, t.blk + 1)
           m == CASE ~fit -> IdleTask(d)
                  [] fit /\ t.blk < Len(row.blocks) -> a
                  [] OTHER -> n
<1>1. /\ TaskOK(t, files[d]) /\ files[d] \in Seq(File) /\ t.at = "store"
      /\ TaskSaid(files, t)
  BY AuthoredParts DEF InvTask, InvFiles, StoreSynced, TasksSaid
<1>2. t \in Task /\ t.pos \in 1..Len(t.snap) /\ RowOK(f)
  BY <1>1, WantedBlockOK DEF Downloading
<1>3. RowOK(row) /\ row.name = f.name /\ row.versions = f.versions
  <2>1. f \in File
    BY <1>2 DEF RowOK
  <2> HIDE DEF f
  <2>2. row.versions = f.versions
    BY <2>1, SMTT(30) DEF Synced, File
  <2>3. QED  BY <1>2, <2>2, SyncedOK
<1>4. Said(files, {}, row.name, row.versions)
  BY <1>1, <1>2, <1>3 DEF TaskSaid, RowsSaid
<1>5. /\ files' = [files EXCEPT ![d] = UpdateSyncFile(@, t.pos, row)]
      /\ task' = [task EXCEPT ![d][w] = m] /\ UNCHANGED <<watch, idx>>
  BY DEF StoreSynced
<1>6. n.snap = t.snap /\ n.msg = t.msg
  BY <1>2 DEF Task
<1> HIDE DEF n
<1>7. SameRows(d, t, n) /\ SameRows(d, t, a) /\ SameRows(d, t, IdleTask(d))
  BY <1>2, <1>6, AskingSame DEF SameRows
<1> HIDE DEF fit, row, a
<1>8. SameRows(d, t, m)
  BY <1>7
<1>9. TaskSaid(files, m)
  BY <1>1, <1>8, SameRowsSaid
<1>10. t.pos \in 0..Len(t.snap) /\ t.pos # 0
  BY <1>2
<1> HIDE DEF m
<1>11. QED  BY <1>3, <1>4, <1>5, <1>9, <1>10, HandlerStoresSaid

LEMMA GetDirectoryEndSaid ==
    ASSUME Authored, NEW d \in Device, NEW w \in Worker, GetDirectoryEnd(d, w)
    PROVE  AuthorInv'
<1>1. task' = [task EXCEPT ![d][w] = IdleTask(d)] /\ UNCHANGED <<files, watch, idx>>
  BY DEF GetDirectoryEnd
<1>2. QED  BY <1>1, NothingSaid, HandlerSaid

LEMMA FaultSaid ==
    ASSUME Authored, files' = files,
           \A l \in Link : watch'[l] \in {watch[l], WatchOff,
                                          [watch[l] EXCEPT !.live = FALSE]},
           \A d \in Device, w \in Worker :
                task'[d][w] \in {task[d][w], IdleTask(d),
                                 [task[d][w] EXCEPT !.live = FALSE]},
           \A l \in Link : idx'[l] = <<>> \/ idx'[l] = idx[l]
    PROVE  AuthorInv'
<1>1. ASSUME NEW l \in Link PROVE WatchSaid(files, l[1], watch'[l])
  <2> DEFINE k == watch[l]
             n == [k EXCEPT !.live = FALSE]
  <2>1. k \in Watch /\ WatchSaid(files, l[1], k)
    BY AuthoredParts DEF InvWatch, WatchesSaid
  <2>2. n.snap = k.snap /\ n.pend = k.pend
    BY <2>1 DEF Watch
  <2>3. watch'[l] = k \/ watch'[l] = WatchOff \/ watch'[l] = n
    OBVIOUS
  <2> HIDE DEF n
  <2>4. WatchSaid(files, l[1], n)
    BY <2>1, <2>2, SameSaid
  <2>5. WatchSaid(files, l[1], WatchOff)
    BY WatchOffSaid
  <2>6. QED  BY <2>1, <2>3, <2>4, <2>5
<1>2. ASSUME NEW d \in Device, NEW w \in Worker PROVE TaskSaid(files, task'[d][w])
  <2> DEFINE t == task[d][w]
             n == [t EXCEPT !.live = FALSE]
  <2>1. t \in Task /\ TaskSaid(files, t)
    BY AuthoredParts DEF InvTask, TasksSaid
  <2>2. n.snap = t.snap /\ n.msg = t.msg
    BY <2>1 DEF Task
  <2>3. task'[d][w] = t \/ task'[d][w] = IdleTask(d) \/ task'[d][w] = n
    OBVIOUS
  <2> HIDE DEF n
  <2>4. TaskSaid(files, n) /\ TaskSaid(files, IdleTask(d))
    BY <2>1, <2>2, SameSaid, NothingSaid
  <2>5. QED  BY <2>1, <2>3, <2>4
<1>3. IdxSaid(files, idx')
  <2>1. ASSUME NEW l \in Link, NEW k \in 1..Len(idx'[l])
        PROVE  RowsSaid(files, {}, idx'[l][k])
    <3>1. idx'[l] = idx[l]
      BY EmptySeq
    <3>2. QED  BY <3>1, AuthoredParts DEF IdxSaid
  <2>2. QED  BY <2>1 DEF IdxSaid
<1>4. WatchesSaid(files, watch') /\ TasksSaid(files, task') /\ FilesSaid(files')
  BY <1>1, <1>2, AuthoredParts DEF WatchesSaid, TasksSaid
<1>5. QED  BY <1>3, <1>4, AuthoredParts, AuthorStep

LEMMA DisconnectSaid ==
    ASSUME Authored, NEW l \in Link, Disconnect(l)
    PROVE  AuthorInv'
<1> DEFINE S == {l, Reverse(l)}
<1>1. /\ watch' = [m \in Link |-> CutWatch(m, S)]
      /\ task' = [d \in Device |-> [w \in Worker |-> CutTask(d, w, S)]]
      /\ idx' = [m \in Link |-> IF m \in S THEN <<>> ELSE idx[m]]
      /\ files' = files
  BY DEF Disconnect
<1> HIDE DEF S
<1>2. \A m \in Link : watch'[m] \in {watch[m], WatchOff,
                                     [watch[m] EXCEPT !.live = FALSE]}
  BY <1>1 DEF CutWatch
<1>3. \A d \in Device, w \in Worker :
          task'[d][w] \in {task[d][w], IdleTask(d),
                           [task[d][w] EXCEPT !.live = FALSE]}
  BY <1>1 DEF CutTask
<1>4. \A m \in Link : idx'[m] = <<>> \/ idx'[m] = idx[m]
  BY <1>1
<1>5. QED  BY <1>1, <1>2, <1>3, <1>4, FaultSaid

LEMMA CrashSaid ==
    ASSUME Authored, NEW d \in Device, Crash(d)
    PROVE  AuthorInv'
<1> DEFINE S == {l \in Link : l[1] = d \/ l[2] = d}
<1>1. /\ watch' = [m \in Link |-> IF m[1] = d THEN WatchOff ELSE CutWatch(m, S)]
      /\ task' = [e \in Device |-> [w \in Worker |->
                    IF e = d THEN IdleTask(d) ELSE CutTask(e, w, S)]]
      /\ idx' = [m \in Link |-> IF m \in S THEN <<>> ELSE idx[m]]
      /\ files' = files
  BY DEF Crash
<1> HIDE DEF S
<1>2. \A m \in Link : watch'[m] \in {watch[m], WatchOff,
                                     [watch[m] EXCEPT !.live = FALSE]}
  BY <1>1 DEF CutWatch
<1>3. \A e \in Device, w \in Worker :
          task'[e][w] \in {task[e][w], IdleTask(e),
                           [task[e][w] EXCEPT !.live = FALSE]}
  BY <1>1 DEF CutTask
<1>4. \A m \in Link : idx'[m] = <<>> \/ idx'[m] = idx[m]
  BY <1>1
<1>5. QED  BY <1>1, <1>2, <1>3, <1>4, FaultSaid

LEMMA ConnectSaid ==
    ASSUME Authored, NEW l \in Link, Connect(l)
    PROVE  AuthorInv'
<1> DEFINE S == {l, Reverse(l)}
<1>1. /\ idx' = [m \in Link |-> IF m \in S THEN <<IndexOf(m[1])>> ELSE idx[m]]
      /\ UNCHANGED <<files, watch, task>>
  BY DEF Connect
<1>2. IdxSaid(files, idx')
  <2>1. ASSUME NEW m \in Link, NEW k \in 1..Len(idx'[m])
        PROVE  RowsSaid(files, {}, idx'[m][k])
    <3> DEFINE i == IndexOf(m[1])
    <3>1. RowsSaid(files, {}, i)
      BY AuthoredParts, LinkEnds, IndexOfSaid
    <3>2. idx'[m] = <<i>> \/ idx'[m] = idx[m]
      BY <1>1
    <3> HIDE DEF i
    <3>3. CASE idx'[m] = <<i>>
      <4>1. k = 1
        BY <3>3
      <4>2. QED  BY <3>1, <3>3, <4>1
    <3>4. CASE idx'[m] = idx[m]
      BY <3>4, AuthoredParts DEF IdxSaid
    <3>5. QED  BY <3>2, <3>3, <3>4
  <2>2. QED  BY <2>1 DEF IdxSaid
<1>3. FilesSaid(files') /\ WatchesSaid(files, watch') /\ TasksSaid(files, task')
  BY <1>1, AuthoredParts
<1>4. QED  BY <1>2, <1>3, AuthoredParts, AuthorStep

LEMMA InitAuthor == Init => AuthorInv
<1> SUFFICES ASSUME Init PROVE AuthorInv
  OBVIOUS
<1>1. FilesSaid(files)
  BY NothingSaid DEF Init, FilesSaid
<1>2. IdxSaid(files, idx)
  BY DEF Init, IdxSaid
<1>3. WatchesSaid(files, watch)
  BY WatchOffSaid DEF Init, WatchesSaid
<1>4. TasksSaid(files, task)
  BY NothingSaid DEF Init, TasksSaid
<1>5. QED  BY <1>1, <1>2, <1>3, <1>4 DEF AuthorInv

LEMMA NextAuthor == Inv /\ AuthorInv /\ [Next]_vars => AuthorInv'
<1> SUFFICES ASSUME Inv, AuthorInv, [Next]_vars PROVE AuthorInv'
  OBVIOUS
<1>0. Authored
  BY NextInv DEF Authored
<1>1. ASSUME NEW d \in Editor, NEW n \in Name, NEW c \in UserContent,
             UserWrite(d, n, c)
      PROVE  AuthorInv'
  BY <1>0, <1>1, UserWriteSaid
<1>2. ASSUME NEW l \in Link, WatchStep(l) PROVE AuthorInv'
  BY <1>0, <1>2, WatchStartSaid, GenerateIndexSaid, ScanFileSaid, ScanStoreSaid,
     ScanEndSaid DEF WatchStep
<1>3. ASSUME NEW l \in Link, SendIndex(l) PROVE AuthorInv'
  BY <1>0, <1>3, SendIndexSaid
<1>4. ASSUME NEW l \in Link, HandleSomeIndex(l[2], l[1]) PROVE AuthorInv'
  BY <1>0, <1>4, LinkEnds, HandleIndexSaid DEF HandleSomeIndex
<1>5. ASSUME NEW d \in Device, NEW w \in Worker, TaskStep(d, w)
      PROVE  AuthorInv'
  BY <1>0, <1>5, IndexFileSaid, IndexEndSaid, GetDirectorySaid, GetFileSaid,
     HandleRequestSaid, GotBlockSaid, StoreSyncedSaid, GetDirectoryEndSaid
     DEF TaskStep
<1>6. ASSUME NEW l \in Link, Disconnect(l) \/ Connect(l) PROVE AuthorInv'
  BY <1>0, <1>6, DisconnectSaid, ConnectSaid
<1>7. ASSUME NEW d \in Device, Crash(d) PROVE AuthorInv'
  BY <1>0, <1>7, CrashSaid
<1>8. CASE UNCHANGED vars
  BY <1>8 DEF vars, AuthorInv
<1>9. QED  BY <1>1, <1>2, <1>3, <1>4, <1>5, <1>6, <1>7, <1>8 DEF Next

(***************************************************************************)
(* Every version in a table and in an Index under way is in its author's   *)
(* table, at the same place of the history of the same file, however many  *)
(* devices edit at once, whatever update_sync_file dropped or merged, and  *)
(* whatever a crash or a lost connection took away.                        *)
(***************************************************************************)
THEOREM AuthorsKnowTheirVersions == Spec => []AuthorsHaveTheirVersions
<1>1. AuthorInv => AuthorsHaveTheirVersions
  <2> SUFFICES ASSUME AuthorInv PROVE AuthorsHaveTheirVersions
    OBVIOUS
  <2>1. ASSUME NEW n, NEW vs, Said(files, {}, n, vs) PROVE AllHave(n, vs)
    BY <2>1 DEF Said, Has, AllHave, HasVersion
  <2>2. QED
    BY <2>1 DEF AuthorInv, FilesSaid, IdxSaid, RowsSaid, AuthorsHaveTheirVersions
<1>2. QED  BY <1>1, InitAuthor, NextAuthor, SnapshotsStayValid, PTL DEF Spec
-----------------------------------------------------------------------------
(***************************************************************************)
(* Blocks.  An answer under way carries a block that was on the disk of    *)
(* the peer at the place where it will be written.                         *)
(***************************************************************************)

\* By the record W of what users wrote, b may be at place i of file n.
Placed(W, n, i, b) ==
    b = Zero \/ \E k \in 1..Len(W[n]) : i <= Len(W[n][k]) /\ W[n][k][i] = b

DiskPlaced(W, D) == \A d \in Device, n \in Name : \A i \in 1..Len(D[d][n]) :
                        Placed(W, n, i, D[d][n][i])
AnswerPlaced(W, t) ==
    (t.at = "answered" /\ t.ans # <<>>) =>
        Placed(W, t.snap[t.pos].name, WantedBlock(t).offset + 1, t.ans[1])
AnswersPlaced(W, T) == \A d \in Device, w \in Worker : AnswerPlaced(W, T[d][w])

PlaceInv == DiskPlaced(written, disk) /\ AnswersPlaced(written, task)

\* A step that changes no file, and no task but d's handler w, which then has
\* no answer or one that is placed.
LEMMA HandlerPlaced ==
    ASSUME Inv, PlaceInv, NEW d \in Device, NEW w \in Worker, NEW n,
           n.at # "answered" \/ AnswerPlaced(written, n),
           task' = [task EXCEPT ![d][w] = n], UNCHANGED <<disk, written>>
    PROVE  PlaceInv'
<1>0. task \in [Device -> [Worker -> Task]]
  BY InvParts DEF InvTask
<1>1. AnswerPlaced(written, n)
  BY DEF AnswerPlaced
<1>2. ASSUME NEW e \in Device, NEW v \in Worker PROVE AnswerPlaced(written, task'[e][v])
  <2>1. CASE e = d /\ v = w
    BY <1>0, <1>1, <2>1
  <2>2. CASE ~(e = d /\ v = w)
    <3>1. task'[e][v] = task[e][v]
      BY <1>0, <2>2
    <3>2. QED  BY <3>1 DEF PlaceInv, AnswersPlaced
  <2>3. QED  BY <2>1, <2>2
<1>3. AnswersPlaced(written, task')
  BY <1>2 DEF AnswersPlaced
<1>4. QED  BY <1>3 DEF PlaceInv

LEMMA QuietPlaced ==
    ASSUME PlaceInv, UNCHANGED <<disk, task, written>>
    PROVE  PlaceInv'
  BY DEF PlaceInv

LEMMA IndexPlaced ==
    ASSUME Inv, PlaceInv, NEW d \in Device, NEW w \in Worker,
           \/ IndexFile(d, w) \/ IndexEnd(d, w) \/ GetDirectory(d, w)
           \/ GetDirectoryEnd(d, w)
    PROVE  PlaceInv'
<1> DEFINE t == task[d][w]
           i == IdleTask(d)
<1>0. t \in Task /\ i \in Task /\ i.at = "idle"
  BY InvParts DEF InvTask, IdleTask, Task
<1>1. UNCHANGED <<disk, written>>
  BY Zenon DEF IndexFile, IndexEnd, GetDirectory, GetDirectoryEnd
<1>2. ASSUME NEW n, n.at # "answered", task' = [task EXCEPT ![d][w] = n]
      PROVE  PlaceInv'
  BY <1>1, <1>2, HandlerPlaced
<1>3. CASE task' = [task EXCEPT ![d][w] = i]
  <2> HIDE DEF i
  <2>1. QED  BY <1>0, <1>2, <1>3
<1>4. ASSUME NEW s, t.at = "index",
             task' = [task EXCEPT ![d][w] =
                        [t EXCEPT !.pos = t.pos + 1, !.changed = TRUE, !.snap = s]]
      PROVE  PlaceInv'
  <2> DEFINE n == [t EXCEPT !.pos = t.pos + 1, !.changed = TRUE, !.snap = s]
  <2>1. n.at = "index"
    BY <1>0, <1>4 DEF Task
  <2>2. task' = [task EXCEPT ![d][w] = n]
    BY <1>4
  <2> HIDE DEF n
  <2>3. QED  BY <1>2, <2>1, <2>2
<1>5. CASE IndexFile(d, w)
  <2> DEFINE info == t.msg[t.pos]
             j == FindFile(t.snap, info.name)
             row == IF j = 0 THEN AnnouncedNew(info) ELSE Announced(t.snap[j], info)
             snap == IF j = 0 THEN t.snap ELSE [t.snap EXCEPT ![j] = row]
             n == [t EXCEPT !.pos = t.pos + 1]
  <2>1. /\ t.at = "index"
        /\ \/ task' = [task EXCEPT ![d][w] = n]
           \/ task' = [task EXCEPT ![d][w] = i]
           \/ task' = [task EXCEPT ![d][w] =
                         [t EXCEPT !.pos = t.pos + 1, !.changed = TRUE, !.snap = snap]]
    BY <1>5, Zenon DEF IndexFile
  <2>2. n.at = "index"
    BY <1>0, <2>1 DEF Task
  <2> HIDE DEF n, snap
  <2>3. QED  BY <1>2, <1>3, <1>4, <2>1, <2>2
<1>6. CASE IndexEnd(d, w)
  <2> DEFINE n == [i EXCEPT !.at = "begin", !.peer = t.peer, !.live = t.live]
  <2>1. task' = [task EXCEPT ![d][w] = n] \/ task' = [task EXCEPT ![d][w] = i]
    BY <1>6 DEF IndexEnd
  <2>2. n.at = "begin"
    BY DEF IdleTask
  <2> HIDE DEF n
  <2>3. QED  BY <1>2, <1>3, <2>1, <2>2
<1>7. CASE GetDirectory(d, w)
  <2> DEFINE n == [t EXCEPT !.at = "next", !.pos = 1, !.snap = files[d]]
  <2>1. task' = [task EXCEPT ![d][w] = n]
    BY <1>7 DEF GetDirectory, GetSyncFiles
  <2>2. n.at = "next"
    BY <1>0 DEF Task
  <2> HIDE DEF n
  <2>3. QED  BY <1>2, <2>1, <2>2
<1>8. CASE GetDirectoryEnd(d, w)
  BY <1>3, <1>8 DEF GetDirectoryEnd
<1>9. QED  BY <1>5, <1>6, <1>7, <1>8

LEMMA AskingHasNoAnswer ==
    ASSUME NEW d \in Device, NEW t \in Task, NEW k
    PROVE  Asking(d, t, k).at # "answered"
<1> DEFINE n == [t EXCEPT !.at = "asked", !.blk = k, !.ans = <<>>]
<1>1. n.at = "asked" /\ IdleTask(d).at = "idle"
  BY DEF Task, IdleTask
<1>2. Asking(d, t, k) = n \/ Asking(d, t, k) = IdleTask(d)
  BY DEF Asking
<1> HIDE DEF n
<1>3. QED  BY <1>1, <1>2

LEMMA GetFilePlaced ==
    ASSUME Inv, PlaceInv, NEW d \in Device, NEW w \in Worker, GetFile(d, w)
    PROVE  PlaceInv'
<1> DEFINE t == task[d][w]
           f == t.snap[t.pos]
           n == [t EXCEPT !.pos = t.pos + 1]
           a == Asking(d, t, 1)
           m == CASE ~Wanted(d, f)                   -> n
                  [] Wanted(d, f) /\ f.blocks # <<>> -> a
                  [] OTHER                           -> IdleTask(d)
<1>1. /\ t.at = "next" /\ task' = [task EXCEPT ![d][w] = m]
      /\ UNCHANGED <<disk, written>>
  BY DEF GetFile
<1>2. t \in Task
  BY InvParts DEF InvTask
<1>3. n.at = "next" /\ IdleTask(d).at = "idle"
  BY <1>1, <1>2 DEF Task, IdleTask
<1>4. a.at # "answered"
  BY <1>2, AskingHasNoAnswer
<1> HIDE DEF a, n, f
<1>5. m.at # "answered"
  BY <1>3, <1>4
<1> HIDE DEF m
<1>6. QED  BY <1>1, <1>5, HandlerPlaced

LEMMA StoreSyncedPlaced ==
    ASSUME Inv, PlaceInv, NEW d \in Device, NEW w \in Worker, StoreSynced(d, w)
    PROVE  PlaceInv'
<1> DEFINE t == task[d][w]
           row == Synced(t.snap[t.pos])
           fit == VersionsFit(files[d], t.pos, row)
           n == [t EXCEPT !.at = "next", !.pos = t.pos + 1]
           a == Asking(d, t, t.blk + 1)
           m == CASE ~fit -> IdleTask(d)
                  [] fit /\ t.blk < Len(row.blocks) -> a
                  [] OTHER -> n
<1>1. task' = [task EXCEPT ![d][w] = m] /\ UNCHANGED <<disk, written>>
  BY DEF StoreSynced
<1>2. t \in Task
  BY InvParts DEF InvTask
<1>3. n.at = "next" /\ IdleTask(d).at = "idle"
  BY <1>2 DEF Task, IdleTask
<1>4. a.at # "answered"
  BY <1>2, AskingHasNoAnswer
<1> HIDE DEF a, n, fit, row
<1>5. m.at # "answered"
  BY <1>3, <1>4
<1> HIDE DEF m
<1>6. QED  BY <1>1, <1>5, HandlerPlaced

LEMMA HandleIndexPlaced ==
    ASSUME Inv, PlaceInv, NEW d \in Device, NEW w \in Worker, NEW p \in Device, NEW k,
           HandleIndex(d, w, p, k)
    PROVE  PlaceInv'
<1> DEFINE t == task[d][w]
           n == [t EXCEPT !.at = "index", !.peer = p, !.live = TRUE,
                          !.snap = files[d], !.pos = 1, !.msg = idx[<<p, d>>][k]]
<1>1. task' = [task EXCEPT ![d][w] = n] /\ UNCHANGED <<disk, written>>
  BY DEF HandleIndex, GetSyncFiles
<1>2. t \in Task
  BY InvParts DEF InvTask
<1>3. n.at = "index"
  BY <1>2 DEF Task
<1> HIDE DEF n
<1>4. QED  BY <1>1, <1>3, HandlerPlaced

\* The block that the peer reads is one of its disk, at the offset asked for.
LEMMA HandleRequestPlaced ==
    ASSUME Inv, PlaceInv, NEW d \in Device, NEW w \in Worker, HandleRequest(d, w)
    PROVE  PlaceInv'
<1> DEFINE t == task[d][w]
           f == t.snap[t.pos].name
           c == disk[t.peer][f]
           o == WantedBlock(t).offset
           ok == /\ CanReadBlock(c, o)
                 /\ BlockHash(ReadBlock(c, o)) = WantedBlock(t).hash
           a == IF ok THEN <<ReadBlock(c, o)>> ELSE <<>>
           n == [t EXCEPT !.at = "answered", !.ans = a]
<1>0. InvRest /\ InvFiles /\ InvTask
  BY InvParts
<1>1. TaskOK(t, files[d]) /\ files[d] \in Seq(File) /\ t.at = "asked"
  BY <1>0 DEF InvTask, InvFiles, HandleRequest
<1>2. t \in Task /\ o \in Nat /\ f \in Name /\ t.peer \in Device
  BY <1>1, WantedBlockOK DEF Downloading, Task
<1>3. c \in Content
  BY <1>0, <1>2, SMTT(30) DEF InvRest
<1>4. task' = [task EXCEPT ![d][w] = n] /\ UNCHANGED <<disk, written>>
  BY DEF HandleRequest
<1>5. a # <<>> => Placed(written, f, o + 1, a[1])
  <2> SUFFICES ASSUME a # <<>> PROVE Placed(written, f, o + 1, a[1])
    BY Zenon
  <2>1. CanReadBlock(c, o) /\ a[1] = c[o + 1]
    BY Zenon DEF ReadBlock
  <2>2. o + 1 \in 1..Len(c)
    <3> HIDE DEF c, o
    <3>1. QED  BY <1>2, <1>3, <2>1 DEF CanReadBlock, Content
  <2>3. Placed(written, f, o + 1, c[o + 1])
    <3> HIDE DEF o
    <3>1. QED  BY <1>2, <2>2, Zenon DEF PlaceInv, DiskPlaced
  <2>4. QED  BY <2>1, <2>3, Zenon
<1> HIDE DEF a
<1>6. n.ans = a /\ n.snap = t.snap /\ n.pos = t.pos /\ n.blk = t.blk
  BY <1>2 DEF Task
<1> HIDE DEF n
<1>7. n.snap[n.pos].name = f /\ WantedBlock(n).offset = o
  BY <1>6 DEF WantedBlock
<1> HIDE DEF f, o
<1>8. AnswerPlaced(written, n)
  BY <1>5, <1>6, <1>7 DEF AnswerPlaced
<1>9. QED  BY <1>4, <1>8, HandlerPlaced

\* What write_block leaves: the block, what was there, and zeros in a gap.
LEMMA GotBlockPlaced ==
    ASSUME Inv, PlaceInv, NEW d \in Device, NEW w \in Worker, GotBlock(d, w)
    PROVE  PlaceInv'
<1> DEFINE t == task[d][w]
           f == t.snap[t.pos].name
           o == WantedBlock(t).offset
           ok == t.ans # <<>> /\ BlockHash(t.ans[1]) = WantedBlock(t).hash
           n == [t EXCEPT !.at = "store"]
           c == disk[d][f]
           b == WriteBlock(c, o, t.ans[1])
<1>0. InvRest /\ InvFiles /\ InvTask
  BY InvParts
<1>1. TaskOK(t, files[d]) /\ files[d] \in Seq(File) /\ t.at = "answered"
  BY <1>0 DEF InvTask, InvFiles, GotBlock
<1>2. t \in Task /\ o \in Nat /\ f \in Name
  BY <1>1, WantedBlockOK DEF Downloading
<1>3. n.at = "store" /\ IdleTask(d).at = "idle" /\ written' = written
  BY <1>2 DEF Task, IdleTask, GotBlock
<1>4. CASE ~ok
  <2>1. task' = [task EXCEPT ![d][w] = IdleTask(d)] /\ UNCHANGED disk
    BY <1>4 DEF GotBlock
  <2>2. QED  BY <1>3, <2>1, HandlerPlaced
<1>5. CASE ok
  <2>1. disk' = [disk EXCEPT ![d][f] = b] /\ task' = [task EXCEPT ![d][w] = n]
    BY <1>5 DEF GotBlock
  <2>2. Placed(written, f, o + 1, t.ans[1])
    BY <1>1, <1>5 DEF PlaceInv, AnswersPlaced, AnswerPlaced
  <2>3. c \in Seq(Block) /\ Len(c) \in Nat /\ \A i \in 1..Len(c) : Placed(written, f, i, c[i])
    <3> HIDE DEF f
    <3>1. c \in Seq(Block)
      BY <1>0, <1>2 DEF InvRest, Content
    <3>2. \A i \in 1..Len(disk[d][f]) : Placed(written, f, i, disk[d][f][i])
      BY <1>2, Zenon DEF PlaceInv, DiskPlaced
    <3>3. QED  BY <3>1, <3>2
  <2>4. ASSUME NEW i \in 1..Len(b) PROVE Placed(written, f, i, b[i])
    <3> DEFINE N == IF o + 1 > Len(c) THEN o + 1 ELSE Len(c)
    <3> HIDE DEF c, o, f
    <3>1. N \in Nat
      BY <1>2, <2>3
    <3>2. Len(b) = N
      BY <3>1 DEF WriteBlock
    <3>3. i \in 1..N
      BY <3>2
    <3>4. b[i] = IF i = o + 1 THEN t.ans[1] ELSE IF i <= Len(c) THEN c[i] ELSE Zero
      BY <3>3 DEF WriteBlock
    <3> HIDE DEF b, N
    <3>5. CASE i = o + 1
      BY <2>2, <3>4, <3>5
    <3>6. CASE i # o + 1 /\ i <= Len(c)
      <4>1. i \in 1..Len(c) /\ b[i] = c[i]
        BY <2>3, <3>1, <3>3, <3>4, <3>6
      <4>2. QED  BY <2>3, <4>1
    <3>7. CASE i # o + 1 /\ ~(i <= Len(c))
      BY <3>4, <3>7 DEF Placed
    <3>8. QED  BY <3>5, <3>6, <3>7
  <2> HIDE DEF b, n, f, o, c
  <2>5. DiskPlaced(written, disk')
    <3>1. ASSUME NEW e \in Device, NEW m \in Name, NEW i \in 1..Len(disk'[e][m])
          PROVE  Placed(written, m, i, disk'[e][m][i])
      <4>0. disk \in [Device -> [Name -> Content]]
        BY <1>0 DEF InvRest
      <4>1. CASE e = d /\ m = f
        <5>1. disk'[e][m] = b
          BY <2>1, <4>0, <4>1
        <5>2. QED  BY <2>4, <4>1, <5>1
      <4>2. CASE ~(e = d /\ m = f)
        <5>1. disk'[e][m] = disk[e][m]
          BY <2>1, <4>0, <4>2
        <5>2. QED  BY <5>1 DEF PlaceInv, DiskPlaced
      <4>3. QED  BY <4>1, <4>2
    <3>2. QED  BY <3>1 DEF DiskPlaced
  <2>6. AnswersPlaced(written, task')
    <3>1. ASSUME NEW e \in Device, NEW v \in Worker
          PROVE  AnswerPlaced(written, task'[e][v])
      <4>0. task \in [Device -> [Worker -> Task]]
        BY <1>0 DEF InvTask
      <4>1. CASE e = d /\ v = w
        <5>1. task'[e][v] = n
          BY <2>1, <4>0, <4>1
        <5>2. QED  BY <1>3, <5>1 DEF AnswerPlaced
      <4>2. CASE ~(e = d /\ v = w)
        <5>1. task'[e][v] = task[e][v]
          BY <2>1, <4>0, <4>2
        <5>2. QED  BY <5>1 DEF PlaceInv, AnswersPlaced
      <4>3. QED  BY <4>1, <4>2
    <3>2. QED  BY <3>1 DEF AnswersPlaced
  <2>7. QED  BY <1>3, <2>5, <2>6, SMTT(30) DEF PlaceInv
<1>6. QED  BY <1>4, <1>5

\* What users write is only ever added to.
LEMMA UserWritePlaced ==
    ASSUME Inv, PlaceInv, NEW d \in Editor, NEW n \in Name, NEW c \in UserContent,
           UserWrite(d, n, c)
    PROVE  PlaceInv'
<1>0. InvRest /\ d \in Device /\ c \in Content /\ task' = task
  BY InvParts, UserAssumption DEF UserWrite
<1>1. /\ disk' = [disk EXCEPT ![d][n] = c]
      /\ written' = [written EXCEPT ![n] = Append(@, c)]
  BY DEF UserWrite
<1>2. /\ disk \in [Device -> [Name -> Content]]
      /\ written \in [Name -> Seq(Content)]
  BY <1>0 DEF InvRest
<1> DEFINE old == written[n]
           new == Append(old, c)
<1>3. old \in Seq(Content) /\ Len(old) \in Nat
  BY <1>2
<1>4. /\ Len(new) = Len(old) + 1 /\ new[Len(old) + 1] = c
      /\ \A k \in 1..Len(old) : new[k] = old[k]
  BY <1>0, <1>3, AppendProperties
<1>5. written'[n] = new /\ \A m \in Name : m # n => written'[m] = written[m]
  BY <1>1, <1>2
<1> HIDE DEF new
<1>6. ASSUME NEW m \in Name, NEW i, NEW b, Placed(written, m, i, b)
      PROVE  Placed(written', m, i, b)
  <2>1. CASE b = Zero
    BY <2>1 DEF Placed
  <2>2. CASE m # n
    <3>1. written'[m] = written[m]
      BY <1>5, <2>2
    <3>2. QED  BY <1>6, <3>1 DEF Placed
  <2>3. CASE m = n /\ b # Zero
    <3>1. PICK k \in 1..Len(old) : i <= Len(old[k]) /\ old[k][i] = b
      BY <1>6, <2>3 DEF Placed
    <3>2. k \in 1..Len(new) /\ new[k] = old[k]
      BY <1>3, <1>4
    <3>3. QED  BY <1>5, <2>3, <3>1, <3>2 DEF Placed
  <2>4. QED  BY <2>1, <2>2, <2>3
<1>7. \A i \in 1..Len(c) : Placed(written', n, i, c[i])
  <2>1. Len(old) + 1 \in 1..Len(new)
    BY <1>3, <1>4
  <2>2. ASSUME NEW i \in 1..Len(c) PROVE i <= Len(c)
    BY <1>0 DEF Content
  <2>3. QED  BY <1>4, <1>5, <2>1, <2>2 DEF Placed
<1>8. DiskPlaced(written', disk')
  <2>1. ASSUME NEW e \in Device, NEW m \in Name, NEW i \in 1..Len(disk'[e][m])
        PROVE  Placed(written', m, i, disk'[e][m][i])
    <3>1. CASE e = d /\ m = n
      <4>1. disk'[e][m] = c
        BY <1>1, <1>2, <3>1
      <4>2. QED  BY <1>7, <3>1, <4>1
    <3>2. CASE ~(e = d /\ m = n)
      <4>1. disk'[e][m] = disk[e][m]
        BY <1>1, <1>2, <3>2
      <4>2. Placed(written, m, i, disk[e][m][i])
        BY <4>1 DEF PlaceInv, DiskPlaced
      <4>3. QED  BY <1>6, <4>1, <4>2
    <3>3. QED  BY <3>1, <3>2
  <2>2. QED  BY <2>1 DEF DiskPlaced
<1>9. AnswersPlaced(written', task)
  <2>1. ASSUME NEW e \in Device, NEW v \in Worker
        PROVE  AnswerPlaced(written', task[e][v])
    <3> DEFINE t == task[e][v]
    <3>1. CASE t.at = "answered"
      <4>1. TaskOK(t, files[e]) /\ files[e] \in Seq(File)
        BY InvParts DEF InvTask, InvFiles
      <4>2. t.snap[t.pos].name \in Name
        BY <3>1, <4>1, WantedBlockOK DEF Downloading
      <4>3. AnswerPlaced(written, t)
        BY DEF PlaceInv, AnswersPlaced
      <4>4. QED  BY <1>6, <4>2, <4>3 DEF AnswerPlaced
    <3>2. CASE t.at # "answered"
      BY <3>2 DEF AnswerPlaced
    <3>3. QED  BY <3>1, <3>2
  <2>2. QED  BY <2>1 DEF AnswersPlaced
<1>10. QED  BY <1>0, <1>8, <1>9 DEF PlaceInv

LEMMA FaultPlaced ==
    ASSUME Inv, PlaceInv, UNCHANGED <<disk, written>>,
           \A d \in Device, w \in Worker :
                task'[d][w] \in {task[d][w], IdleTask(d),
                                 [task[d][w] EXCEPT !.live = FALSE]}
    PROVE  PlaceInv'
<1>1. ASSUME NEW d \in Device, NEW w \in Worker
      PROVE  AnswerPlaced(written, task'[d][w])
  <2> DEFINE t == task[d][w]
             n == [t EXCEPT !.live = FALSE]
  <2>1. t \in Task /\ AnswerPlaced(written, t)
    BY InvParts DEF InvTask, PlaceInv, AnswersPlaced
  <2>2. /\ n.at = t.at /\ n.ans = t.ans /\ n.snap = t.snap /\ n.pos = t.pos
        /\ n.blk = t.blk
    BY <2>1 DEF Task
  <2>3. task'[d][w] = t \/ task'[d][w] = IdleTask(d) \/ task'[d][w] = n
    OBVIOUS
  <2> HIDE DEF n
  <2>4. AnswerPlaced(written, n)
    BY <2>1, <2>2, SMTT(30) DEF AnswerPlaced, WantedBlock
  <2>5. AnswerPlaced(written, IdleTask(d))
    BY DEF AnswerPlaced, IdleTask
  <2>6. QED  BY <2>1, <2>3, <2>4, <2>5
<1>2. QED  BY <1>1 DEF PlaceInv, AnswersPlaced

LEMMA NextPlace == Inv /\ PlaceInv /\ [Next]_vars => PlaceInv'
<1> SUFFICES ASSUME Inv, PlaceInv, [Next]_vars PROVE PlaceInv'
  OBVIOUS
<1>1. ASSUME NEW d \in Editor, NEW n \in Name, NEW c \in UserContent,
             UserWrite(d, n, c)
      PROVE  PlaceInv'
  BY <1>1, UserWritePlaced
<1>2. ASSUME NEW l \in Link, WatchStep(l) \/ SendIndex(l) \/ Connect(l)
      PROVE  PlaceInv'
  BY <1>2, QuietPlaced, Zenon DEF WatchStep, WatchStart, GenerateIndex, ScanFile,
     ScanStore, ScanEnd, SendIndex, Connect
<1>3. ASSUME NEW l \in Link, HandleSomeIndex(l[2], l[1]) PROVE PlaceInv'
  BY <1>3, LinkEnds, HandleIndexPlaced DEF HandleSomeIndex
<1>4. ASSUME NEW d \in Device, NEW w \in Worker, TaskStep(d, w) PROVE PlaceInv'
  BY <1>4, IndexPlaced, GetFilePlaced, HandleRequestPlaced, GotBlockPlaced,
     StoreSyncedPlaced DEF TaskStep
<1>5. ASSUME NEW l \in Link, Disconnect(l) PROVE PlaceInv'
  <2> DEFINE S == {l, Reverse(l)}
  <2>1. /\ task' = [d \in Device |-> [w \in Worker |-> CutTask(d, w, S)]]
        /\ UNCHANGED <<disk, written>>
    BY <1>5 DEF Disconnect
  <2> HIDE DEF S
  <2>2. \A d \in Device, w \in Worker :
            task'[d][w] \in {task[d][w], IdleTask(d),
                             [task[d][w] EXCEPT !.live = FALSE]}
    BY <2>1 DEF CutTask
  <2>3. QED  BY <2>1, <2>2, FaultPlaced
<1>6. ASSUME NEW d \in Device, Crash(d) PROVE PlaceInv'
  <2> DEFINE S == {l \in Link : l[1] = d \/ l[2] = d}
  <2>1. /\ task' = [e \in Device |-> [w \in Worker |->
                      IF e = d THEN IdleTask(d) ELSE CutTask(e, w, S)]]
        /\ UNCHANGED <<disk, written>>
    BY <1>6 DEF Crash
  <2> HIDE DEF S
  <2>2. \A e \in Device, w \in Worker :
            task'[e][w] \in {task[e][w], IdleTask(e),
                             [task[e][w] EXCEPT !.live = FALSE]}
    BY <2>1 DEF CutTask
  <2>3. QED  BY <2>1, <2>2, FaultPlaced
<1>7. CASE UNCHANGED vars
  BY <1>7, QuietPlaced DEF vars
<1>8. QED  BY <1>1, <1>2, <1>3, <1>4, <1>5, <1>6, <1>7 DEF Next

(***************************************************************************)
(* However downloads of several versions of a file interleave, and however *)
(* old the snapshot is that one of them works on, write_block never leaves *)
(* a block at a place of a file where no user has put it, other than the   *)
(* zeros of a gap.                                                         *)
(***************************************************************************)
THEOREM BlocksStayInPlace == Spec => []BlocksInPlace
<1>1. Init => PlaceInv
  <2> SUFFICES ASSUME Init PROVE PlaceInv
    OBVIOUS
  <2>1. DiskPlaced(written, disk)
    BY DEF Init, DiskPlaced, Absent
  <2>2. AnswersPlaced(written, task)
    BY DEF Init, AnswersPlaced, AnswerPlaced, IdleTask
  <2>3. QED  BY <2>1, <2>2 DEF PlaceInv
<1>2. PlaceInv => BlocksInPlace
  BY DEF PlaceInv, DiskPlaced, Placed, BlocksInPlace, WroteAt
<1>3. QED  BY <1>1, <1>2, NextPlace, SnapshotsStayValid, PTL DEF Spec
=============================================================================
