----------------------- MODULE FolderAgreementProofs -----------------------
(***************************************************************************)
(* When users act one at a time, each once all activity has ended, files   *)
(* have one block and no connection is lost, the devices agree: update_    *)
(* sync_file's assertion never fails, a version stands for one edit and    *)
(* for one content, and when all activity has ended every device has the   *)
(* last content and the same history.  The time from one edit to the next  *)
(* is an epoch.  In it one file, m, is on its way from its author to all   *)
(* devices, and all others are already the same everywhere.                *)
(***************************************************************************)
EXTENDS FolderSyncProofs

(***************************************************************************)
(* What the results assume of the users, the files and the network.        *)
(***************************************************************************)
Connected ==
    /\ Link # {}
    /\ \A S \in SUBSET Device :
          S # {} /\ S # Device => \E l \in Link : l[1] \in S /\ l[2] \notin S

OneByOne ==
    /\ OneEditAtATime /\ MaxFaults = 0 /\ Connected
    /\ \A c \in UserContent : Len(c) = 1

(***************************************************************************)
(* The log g says who wrote what: g[n][k] is the k-th edit of file n.      *)
(***************************************************************************)
Edit == [by : Device, text : Content]

Newest(g, n)  == g[n][Len(g[n])].text
Author(g, n)  == g[n][Len(g[n])].by
Earlier(g, n) == IF Len(g[n]) = 1 THEN Absent ELSE g[n][Len(g[n]) - 1].text

\* The file m is the one that was edited last, and changed by that.
LogOK(g, m) ==
    /\ g \in [Name -> Seq(Edit)]
    /\ m \in Name /\ g[m] # <<>>
    /\ \A n \in Name : \A k \in 1..Len(g[n]) : Len(g[n][k].text) = 1
    /\ Newest(g, m) # Earlier(g, m)

\* vs is the history of n up to some edit.
Follows(g, n, vs) ==
    /\ Len(vs) <= Len(g[n])
    /\ \A k \in 1..Len(vs) : vs[k] = [user |-> g[n][k].by, val |-> k - 1]

\* Every row: with the whole history it has the content of the last edit, and
\* with less of it, it is a row that was complete then.
RowIn(g, f) ==
    /\ Follows(g, f.name, f.versions)
    /\ Len(f.versions) = Len(g[f.name]) =>
          /\ f.hash = Newest(g, f.name)
          /\ f.blocks = GenBlocks(Newest(g, f.name))
    /\ Len(f.versions) < Len(g[f.name]) => f.synced = Len(f.versions) - 1

\* The first row for its name: at most the last edit of m is missing.
FirstIn(g, m, f) ==
    \/ /\ Len(f.versions) = Len(g[f.name])
       /\ f.name # m => f.synced = Len(f.versions) - 1
    \/ /\ f.name = m
       /\ Len(f.versions) = Len(g[m]) - 1
       /\ f.hash = Earlier(g, m)

\* The table knows of the last edit; it says that the content is there too.
FreshIn(g, m, rows) ==
    HasRow(rows, m) /\ Len(rows[FindFile(rows, m)].versions) = Len(g[m])
SyncedIn(g, m, rows) == rows[FindFile(rows, m)].synced = Len(g[m]) - 1

\* A table, or a snapshot, of a device with dk on disk.  Two tasks may both have
\* inserted a row for a new file; the second is never read again.
TableIn(g, m, rows, dk) ==
    /\ \A i \in 1..Len(rows) :
          /\ RowIn(g, rows[i])
          /\ IF FindFile(rows, rows[i].name) = i THEN FirstIn(g, m, rows[i])
             ELSE Len(rows[i].versions) = 1
    /\ \A n \in Name :
          g[n] # <<>> /\ (n = m => Len(g[n]) > 1) => HasRow(rows, n)
    /\ FreshIn(g, m, rows) /\ SyncedIn(g, m, rows) /\ Len(g[m]) > 1
          => dk[m] = Newest(g, m)

DiskIn(g, m, d, dk) ==
    /\ \A n \in Name \ {m} : dk[n] = IF g[n] = <<>> THEN Absent ELSE Newest(g, n)
    /\ dk[m] \in {Earlier(g, m), Newest(g, m)}
    /\ d = Author(g, m) => dk[m] = Newest(g, m)

\* The device can announce and serve the last edit.
DoneIn(g, m, rows, dk) == FreshIn(g, m, rows) /\ dk[m] = Newest(g, m)

\* A row with the last edit of m.
FullRow(g, m, f) == f.name = m /\ Len(f.versions) = Len(g[m]) /\ RowIn(g, f)

SnapIn(g, m, snap, rows, dk) ==
    /\ TableIn(g, m, snap, dk)
    /\ FreshIn(g, m, snap) => FreshIn(g, m, rows)

\* What a watcher of d is about to store.
PendIn(g, m, snap, d, q) ==
    /\ q.id = FindFile(snap, m) /\ d = Author(g, m)
    /\ FullRow(g, m, q.row) /\ q.row.synced = Len(g[m]) - 1

\* Only a device that knows of the last edit, or its author, scans; only the
\* author finds something to store.
WatchIn(g, m, k, d, rows, dk) ==
    /\ k.at \in {"idle", "scan", "store"} /\ k.live
    /\ k.event \/ k.at # "idle" => FreshIn(g, m, rows) \/ d = Author(g, m)
    /\ k.at # "idle" =>
          /\ SnapIn(g, m, k.snap, rows, dk)
          /\ FreshIn(g, m, k.snap) \/ d = Author(g, m)
          /\ \A n \in k.left : dk[n] # Absent
          /\ k.changed => DoneIn(g, m, rows, dk)
    /\ k.at = "store" => PendIn(g, m, k.snap, d, k.pend[1])

\* An Index, and that it tells of the last edit from place pos on.
MsgIn(g, m, msg) ==
    \A i \in 1..Len(msg) :
       /\ Follows(g, msg[i].name, msg[i].versions)
       /\ msg[i].name = m /\ Len(msg[i].versions) = Len(g[m])
             => msg[i].blocks = GenBlocks(Newest(g, m))

Tells(g, m, msg, pos) ==
    \E i \in 1..Len(msg) : /\ i >= pos /\ msg[i].name = m
                           /\ Len(msg[i].versions) = Len(g[m])

Fetches(t) == t.at \in {"next", "asked", "answered", "store"}

\* A handler of a device with rows and dk, for a peer with pk on disk.
TaskIn(g, m, t, rows, dk, pk) ==
    /\ t.at = "idle" => ~t.changed
    /\ t.at # "idle" => t.live /\ pk[m] = Newest(g, m)
    /\ t.at = "index" => /\ SnapIn(g, m, t.snap, rows, dk)
                         /\ MsgIn(g, m, t.msg)
                         /\ t.changed => FreshIn(g, m, rows)
    /\ t.at = "begin" => FreshIn(g, m, rows)
    /\ Fetches(t) => /\ FreshIn(g, m, rows)
                     /\ TableIn(g, m, t.snap, dk) /\ FreshIn(g, m, t.snap)
                     /\ FindFile(t.snap, m) < t.pos => dk[m] = Newest(g, m)
    /\ Downloading(t) => FullRow(g, m, t.snap[t.pos]) /\ t.blk = 1
    /\ t.at = "answered" => t.ans = <<Newest(g, m)[1]>>
    /\ t.at = "store" => dk[m] = Newest(g, m)
-----------------------------------------------------------------------------
(***************************************************************************)
(* The first row for a name.                                               *)
(***************************************************************************)
LEMMA FindFileFirst ==
    ASSUME NEW rows \in Seq(File), NEW n \in Name, HasRow(rows, n)
    PROVE  /\ FindFile(rows, n) \in 1..Len(rows)
           /\ rows[FindFile(rows, n)].name = n
           /\ \A j \in 1..(FindFile(rows, n) - 1) : rows[j].name # n
<1> DEFINE T == {i \in 1..Len(rows) : rows[i].name = n}
<1>1. T \subseteq Nat /\ T # {}
  BY DEF HasRow
<1>2. PICK k \in T : \A j \in T : k <= j
  BY <1>1, LeastNatural, Zenon
<1>3. k \in 1..Len(rows) /\ rows[k].name = n
  BY <1>2
<1>4. \A j \in 1..(k - 1) : rows[j].name # n
  BY <1>2, <1>3
<1>5. \E i \in 1..Len(rows) : /\ rows[i].name = n
                              /\ \A j \in 1..(i - 1) : rows[j].name # n
  BY <1>3, <1>4
<1>6. QED  BY <1>5 DEF FindFile

LEMMA FindFileIs ==
    ASSUME NEW rows \in Seq(File), NEW n \in Name, NEW i \in 1..Len(rows),
           rows[i].name = n, \A j \in 1..(i - 1) : rows[j].name # n
    PROVE  FindFile(rows, n) = i /\ HasRow(rows, n)
<1>1. HasRow(rows, n)
  BY DEF HasRow
<1> DEFINE k == FindFile(rows, n)
<1>2. /\ k \in 1..Len(rows) /\ rows[k].name = n
      /\ \A j \in 1..(k - 1) : rows[j].name # n
  BY <1>1, FindFileFirst
<1> HIDE DEF k
<1>3. ~(k < i) /\ ~(i < k)
  BY <1>2
<1>4. k = i
  BY <1>2, <1>3
<1>5. QED  BY <1>1, <1>4 DEF k

\* ... is where it is in any longer list that begins with the same names.
LEMMA SameFirst ==
    ASSUME NEW rows \in Seq(File), NEW new \in Seq(File), NEW n \in Name,
           Len(rows) <= Len(new),
           \A i \in 1..Len(rows) : new[i].name = rows[i].name,
           HasRow(rows, n)
    PROVE  HasRow(new, n) /\ FindFile(new, n) = FindFile(rows, n)
<1> DEFINE k == FindFile(rows, n)
<1>1. /\ k \in 1..Len(rows) /\ rows[k].name = n
      /\ \A j \in 1..(k - 1) : rows[j].name # n
  BY FindFileFirst
<1> HIDE DEF k
<1>2. k \in 1..Len(new) /\ new[k].name = n
  BY <1>1, LenProperties
<1>3. \A j \in 1..(k - 1) : j \in 1..Len(rows)
  BY <1>1
<1>4. \A j \in 1..(k - 1) : new[j].name # n
  BY <1>1, <1>3
<1>5. FindFile(new, n) = k /\ HasRow(new, n)
  BY <1>2, <1>4, FindFileIs
<1>6. QED  BY <1>5 DEF k

LEMMA SnapFirst ==
    ASSUME NEW snap, NEW rows \in Seq(File), SnapOf(snap, rows), NEW n \in Name,
           HasRow(snap, n)
    PROVE  HasRow(rows, n) /\ FindFile(rows, n) = FindFile(snap, n)
<1>1. snap \in Seq(File) /\ Len(snap) <= Len(rows)
  BY DEF SnapOf, RowsOK
<1>2. \A i \in 1..Len(snap) : rows[i].name = snap[i].name
  BY DEF SnapOf
<1>3. QED  BY <1>1, <1>2, SameFirst

(***************************************************************************)
(* Facts about the log.                                                    *)
(***************************************************************************)
LEMMA LogFacts ==
    ASSUME NEW g, NEW m, LogOK(g, m)
    PROVE  /\ m \in Name /\ Len(g[m]) \in Nat /\ Len(g[m]) >= 1
           /\ \A n \in Name : /\ g[n] \in Seq(Edit) /\ Len(g[n]) \in Nat
                              /\ (g[n] = <<>>) <=> (Len(g[n]) = 0)
           /\ \A n \in Name : g[n] # <<>> =>
                 /\ Newest(g, n) \in Content /\ Len(Newest(g, n)) = 1
                 /\ Newest(g, n) # Absent /\ Author(g, n) \in Device
           /\ Earlier(g, m) \in Content
           /\ Len(g[m]) = 1 => Earlier(g, m) = Absent
           /\ Len(g[m]) > 1 => Earlier(g, m) # Absent
           /\ Newest(g, m) # Earlier(g, m)
<1>1. \A n \in Name : g[n] \in Seq(Edit) /\ Len(g[n]) \in Nat
  BY DEF LogOK
<1>2. \A n \in Name : (g[n] = <<>>) <=> (Len(g[n]) = 0)
  BY <1>1, EmptySeq
<1>3. \A n \in Name : \A k \in 1..Len(g[n]) :
         /\ g[n][k].text \in Content /\ Len(g[n][k].text) = 1
         /\ g[n][k].by \in Device /\ g[n][k].text # Absent
  <2>1. \A c \in Content : Len(c) = 1 => c # Absent
    BY DEF Content, Absent
  <2>2. ASSUME NEW n \in Name, NEW k \in 1..Len(g[n])
        PROVE  g[n][k].text \in Content /\ g[n][k].by \in Device
    <3>1. g[n][k] \in Edit
      BY <1>1, ElementOfSeq
    <3>2. QED  BY <3>1 DEF Edit
  <2>3. QED  BY <2>1, <2>2 DEF LogOK
<1>4. \A n \in Name : g[n] # <<>> => Len(g[n]) \in 1..Len(g[n])
  BY <1>1, <1>2
<1>m. m \in Name /\ g[m] # <<>>
  BY DEF LogOK
<1>5. Len(g[m]) \in Nat /\ Len(g[m]) >= 1
  BY <1>1, <1>2, <1>m
<1>6. \A n \in Name : g[n] # <<>> =>
                 /\ Newest(g, n) \in Content /\ Len(Newest(g, n)) = 1
                 /\ Newest(g, n) # Absent /\ Author(g, n) \in Device
  BY <1>3, <1>4 DEF Newest, Author

<1>8. Absent \in Content
  BY DEF Absent, Content
<1> DEFINE z == Len(g[m])
<1>9. /\ Earlier(g, m) \in Content
      /\ z = 1 => Earlier(g, m) = Absent
      /\ z > 1 => Earlier(g, m) # Absent
  <2>0. z \in Nat /\ z >= 1 /\ Earlier(g, m) = IF z = 1 THEN Absent ELSE g[m][z - 1].text
    BY <1>5 DEF Earlier
  <2>a. \A k \in 1..z : g[m][k].text \in Content /\ g[m][k].text # Absent
    BY <1>3, <1>m
  <2> HIDE DEF z
  <2>1. CASE z = 1
    BY <2>0, <2>1, <1>8
  <2>2. CASE z > 1
    <3>1. z - 1 \in 1..z /\ z # 1
      BY <2>0, <2>2
    <3>2. QED  BY <2>0, <2>a, <2>2, <3>1
  <2>3. QED  BY <2>0, <2>1, <2>2
<1>10. QED  BY <1>1, <1>2, <1>m, <1>5, <1>6, <1>9 DEF LogOK

(***************************************************************************)
(* Storing a row with the last edit of m.                                  *)
(***************************************************************************)
PutRow(rows, id, f) == IF id = 0 THEN Append(rows, f) ELSE [rows EXCEPT ![id] = f]

\* All that a row of a table in an epoch says.
LEMMA RowFacts ==
    ASSUME NEW f, RowOK(f)
    PROVE  /\ f \in File /\ f.name \in Name /\ f.versions \in Seq(Version)
           /\ Len(f.versions) \in Nat /\ Len(f.versions) >= 1
           /\ f.synced \in Nat /\ f.synced < Len(f.versions)
           /\ IndexVersion(f) = Len(f.versions) - 1
<1>1. f \in File /\ Consecutive(f.versions) /\ f.synced < Len(f.versions)
  BY DEF RowOK
<1>2. f.name \in Name /\ f.versions \in Seq(Version) /\ f.synced \in Nat
  BY <1>1 DEF File
<1>3. IndexVersion(f) = Len(f.versions) - 1 /\ Len(f.versions) \in Nat \ {0}
  BY <1>1, <1>2, IndexVersionIsLast
<1>4. QED  BY <1>1, <1>2, <1>3

\* With a fitting history, update_sync_file replaces the row.
LEMMA UpdateIsPut ==
    ASSUME NEW g, NEW m, LogOK(g, m), NEW rows, RowsOK(rows),
           NEW f, RowOK(f), FullRow(g, m, f), NEW id \in 0..Len(rows),
           id # 0 => rows[id].name = m /\ RowIn(g, rows[id])
    PROVE  /\ VersionsFit(rows, id, f)
           /\ UpdateSyncFile(rows, id, f) = PutRow(rows, id, f)
<1>1. CASE id = 0
  BY <1>1 DEF VersionsFit, UpdateSyncFile, PutRow
<1>2. CASE id # 0
  <2> DEFINE old == rows[id].versions
             new == f.versions
  <2>1. /\ f.name = m /\ Len(new) = Len(g[m]) /\ Follows(g, m, new)
        /\ f \in File /\ f.blocks # <<>> /\ new \in Seq(Version)
    BY RowFacts DEF FullRow, RowIn, RowOK
  <2>2. Follows(g, m, old)
    BY <1>2 DEF RowIn
  <2>3. old \in Seq(Version) /\ Len(old) \in Nat /\ Len(new) \in Nat
    BY <1>2, <2>1, RowFacts DEF RowsOK
  <2>4. Len(old) <= Len(new)
    BY <2>1, <2>2 DEF Follows
  <2>5. VersionsFit(rows, id, f)
    BY <2>4 DEF VersionsFit
  <2>6. \A k \in 1..Len(new) : (IF k <= Len(old) THEN old[k] ELSE new[k]) = new[k]
    <3> HIDE DEF old, new
    <3>1. \A k \in 1..Len(new) : k <= Len(old) => k \in 1..Len(old)
      BY <2>3
    <3>2. \A k \in 1..Len(new) : k \in 1..Len(old) => old[k] = new[k]
      BY <2>1, <2>2, Zenon DEF Follows
    <3>3. QED  BY <3>1, <3>2
  <2>7. MergeVersions(old, new) = new
    <3>1. new = [k \in 1..Len(new) |-> new[k]]
      BY <2>1
    <3> HIDE DEF old, new
    <3>2. QED  BY <2>6, <3>1 DEF MergeVersions
  <2> DEFINE r == [name |-> f.name, hash |-> f.hash, synced |-> f.synced,
                   versions |-> f.versions, blocks |-> f.blocks]
  <2>8. r = f
    BY <2>1 DEF File
  <2>9. UpdateSyncFile(rows, id, f) = [rows EXCEPT ![id] = r]
    BY <1>2, <2>1, <2>5, <2>7 DEF UpdateSyncFile
  <2> HIDE DEF r
  <2>10. UpdateSyncFile(rows, id, f) = PutRow(rows, id, f)
    BY <1>2, <2>8, <2>9 DEF PutRow
  <2>11. QED  BY <2>5, <2>10
<1>3. QED  BY <1>1, <1>2

\* The rows after that.
LEMMA PutRowRows ==
    ASSUME NEW rows, RowsOK(rows), NEW f, RowOK(f), NEW id \in 0..Len(rows)
    PROVE  LET new == PutRow(rows, id, f)
               at  == IF id = 0 THEN Len(rows) + 1 ELSE id
           IN  /\ new \in Seq(File) /\ at \in 1..Len(new)
               /\ Len(new) = IF id = 0 THEN Len(rows) + 1 ELSE Len(rows)
               /\ \A i \in 1..Len(new) : new[i] = IF i = at THEN f ELSE rows[i]
<1>0. rows \in Seq(File) /\ Len(rows) \in Nat /\ f \in File
  BY DEF RowsOK, RowOK
<1>1. CASE id = 0
  BY <1>0, <1>1 DEF PutRow
<1>2. CASE id # 0
  <2>1. id \in 1..Len(rows)
    BY <1>0, <1>2
  <2>2. QED  BY <1>0, <1>2, <2>1, ExceptSeq DEF PutRow
<1>3. QED  BY <1>1, <1>2

LEMMA PutIn ==
    ASSUME NEW g, NEW m, LogOK(g, m), NEW rows, RowsOK(rows), NEW dk,
           TableIn(g, m, rows, dk), NEW f, RowOK(f), FullRow(g, m, f),
           NEW id \in 0..Len(rows), id # 0 => rows[id].name = m,
           Len(g[m]) = 1 \/ (HasRow(rows, m) /\ id = FindFile(rows, m)),
           f.synced = Len(g[m]) - 1 /\ Len(g[m]) > 1 => dk[m] = Newest(g, m)
    PROVE  /\ TableIn(g, m, PutRow(rows, id, f), dk)
           /\ FreshIn(g, m, PutRow(rows, id, f))
           /\ f.synced = Len(g[m]) - 1 => SyncedIn(g, m, PutRow(rows, id, f))
<1> DEFINE new == PutRow(rows, id, f)
           at == IF id = 0 THEN Len(rows) + 1 ELSE id
           z == Len(g[m])
           k == FindFile(new, m)
<1>0. /\ m \in Name /\ z \in Nat /\ z >= 1
      /\ rows \in Seq(File) /\ Len(rows) \in Nat
      /\ \A i \in 1..Len(rows) : RowOK(rows[i]) /\ rows[i].name \in Name
  BY LogFacts, RowFacts DEF RowsOK
<1>1. /\ new \in Seq(File) /\ at \in 1..Len(new)
      /\ Len(new) = IF id = 0 THEN Len(rows) + 1 ELSE Len(rows)
      /\ \A i \in 1..Len(new) : new[i] = IF i = at THEN f ELSE rows[i]
  BY PutRowRows
<1>f. f.name = m /\ Len(f.versions) = z /\ RowIn(g, f)
  BY DEF FullRow
<1>t. \A i \in 1..Len(rows) :
          /\ RowIn(g, rows[i])
          /\ IF FindFile(rows, rows[i].name) = i THEN FirstIn(g, m, rows[i])
             ELSE Len(rows[i].versions) = 1
  BY DEF TableIn
<1>l. z = 1 \/ (HasRow(rows, m) /\ id = FindFile(rows, m))
  OBVIOUS
<1>d. f.synced = z - 1 /\ z > 1 => dk[m] = Newest(g, m)
  OBVIOUS
<1>2. /\ Len(rows) <= Len(new)
      /\ \A i \in 1..Len(rows) : i \in 1..Len(new) /\ new[i].name = rows[i].name
      /\ \A i \in 1..Len(new) : i # at => i \in 1..Len(rows) /\ new[i] = rows[i]
  <2> HIDE DEF new
  <2>1. QED  BY <1>0, <1>1, <1>f
<1>3. new[at] = f
  BY <1>1
<1> HIDE DEF new
<1>4. \A n \in Name : HasRow(rows, n) =>
          HasRow(new, n) /\ FindFile(new, n) = FindFile(rows, n)
  BY <1>0, <1>1, <1>2, SameFirst
<1>5. HasRow(new, m) /\ k \in 1..Len(new) /\ new[k].name = m
  <2>1. HasRow(new, m)
    BY <1>1, <1>3, <1>f DEF HasRow
  <2>2. QED  BY <2>1, <1>0, <1>1, FindFileFirst
<1>6. z # 1 => at = k
  <2>1. ASSUME z # 1 PROVE at = k
    <3>1. HasRow(rows, m) /\ id = FindFile(rows, m) /\ id = k
      BY <2>1, <1>l, <1>4, <1>0
    <3>2. id # 0
      BY <3>1, <1>0, FindFileFinds
    <3>3. QED  BY <3>1, <3>2
  <2>2. QED  BY <2>1
<1>7. ASSUME k # at PROVE z = 1 /\ Len(new[k].versions) = 1 /\ new[k].synced = 0
  <2>1. z = 1 /\ k \in 1..Len(rows) /\ new[k] = rows[k] /\ rows[k].name = m
    BY <1>2, <1>5, <1>6, <1>7
  <2>2. HasRow(rows, m)
    BY <2>1 DEF HasRow
  <2>3. FindFile(rows, m) = k
    BY <2>2, <1>0, <1>4
  <2>4. FirstIn(g, m, rows[k])
    BY <2>1, <2>3, <1>t
  <2>5. RowOK(rows[k])
    BY <2>1, <1>0
  <2> DEFINE v == Len(rows[k].versions)
  <2>6. v = z \/ v = z - 1
    BY <2>1, <2>4 DEF FirstIn
  <2>7. v \in Nat /\ v >= 1 /\ rows[k].synced \in Nat /\ rows[k].synced < v
    BY <2>5, RowFacts
  <2> HIDE DEF v, z, k
  <2>8. v = 1 /\ rows[k].synced = 0
    BY <2>1, <2>6, <2>7
  <2>9. QED  BY <2>1, <2>8 DEF v
<1>8. Len(new[k].versions) = z
  BY <1>3, <1>7, <1>f
<1>9. FreshIn(g, m, new)
  BY <1>5, <1>8 DEF FreshIn
<1>10. f.synced = z - 1 => SyncedIn(g, m, new)
  <2>1. CASE k = at
    BY <2>1, <1>3 DEF SyncedIn
  <2>2. CASE k # at
    <3>1. z = 1 /\ new[k].synced = 0
      BY <2>2, <1>7
    <3>2. QED  BY <3>1 DEF SyncedIn
  <2>3. QED  BY <2>1, <2>2
<1>11. ASSUME NEW i \in 1..Len(new)
       PROVE  /\ RowIn(g, new[i])
              /\ IF FindFile(new, new[i].name) = i THEN FirstIn(g, m, new[i])
                 ELSE Len(new[i].versions) = 1
  <2>1. CASE i = at
    <3>1. new[i] = f
      BY <2>1, <1>3
    <3>2. FirstIn(g, m, f)
      BY <1>f DEF FirstIn
    <3>3. k # i => Len(f.versions) = 1
      BY <2>1, <1>6, <1>f
    <3>4. QED  BY <3>1, <3>2, <3>3, <1>f
  <2>2. CASE i # at
    <3>1. i \in 1..Len(rows) /\ new[i] = rows[i] /\ rows[i].name \in Name
      BY <2>2, <1>2, <1>0
    <3>2. HasRow(rows, rows[i].name)
      BY <3>1 DEF HasRow
    <3>3. FindFile(new, new[i].name) = FindFile(rows, rows[i].name)
      BY <3>1, <3>2, <1>4
    <3>4. QED  BY <3>1, <3>3, <1>t
  <2>3. QED  BY <2>1, <2>2
<1>12. \A n \in Name : g[n] # <<>> /\ (n = m => Len(g[n]) > 1) => HasRow(new, n)
  BY <1>4 DEF TableIn
<1>13. FreshIn(g, m, new) /\ SyncedIn(g, m, new) /\ z > 1 => dk[m] = Newest(g, m)
  <2>1. ASSUME SyncedIn(g, m, new), z > 1 PROVE dk[m] = Newest(g, m)
    <3>0. z # 1
      <4> HIDE DEF z
      <4>1. QED  BY <2>1, <1>0
    <3>1. k = at
      BY <3>0, <1>6
    <3>2. new[k].synced = z - 1
      BY <2>1 DEF SyncedIn
    <3>3. new[k] = f
      BY <3>1, <1>3
    <3>4. f.synced = z - 1
      BY <3>2, <3>3
    <3>5. QED  BY <2>1, <3>4, <1>d
  <2>2. QED  BY <2>1
<1>14. TableIn(g, m, new, dk)
  BY <1>11, <1>12, <1>13 DEF TableIn
<1>15. QED  BY <1>9, <1>10, <1>14 DEF new

(***************************************************************************)
(* In an epoch a disk changes only by getting the last content of m, and a *)
(* table that knows of the last edit goes on to: what tasks hold stays     *)
(* true.                                                                   *)
(***************************************************************************)
Ahead(g, m, dk, new) ==
    /\ \A n \in Name \ {m} : new[n] = dk[n]
    /\ new[m] \in {dk[m], Newest(g, m)}

LEMMA AheadItself ==
    ASSUME NEW g, NEW m, NEW dk
    PROVE  Ahead(g, m, dk, dk)
  BY DEF Ahead

LEMMA TableStays ==
    ASSUME NEW g, NEW m, NEW rows, NEW dk, NEW dn,
           TableIn(g, m, rows, dk), Ahead(g, m, dk, dn)
    PROVE  TableIn(g, m, rows, dn)
<1>1. dk[m] = Newest(g, m) => dn[m] = Newest(g, m)
  BY DEF Ahead
<1>2. QED  BY <1>1 DEF TableIn

LEMMA DiskStays ==
    ASSUME NEW g, NEW m, NEW d, NEW dk, NEW dn,
           DiskIn(g, m, d, dk), Ahead(g, m, dk, dn)
    PROVE  DiskIn(g, m, d, dn)
  BY DEF DiskIn, Ahead

LEMMA WatchInStays ==
    ASSUME NEW g, NEW m, LogOK(g, m), NEW k \in Watch, NEW d, NEW rows, NEW rn,
           NEW dk, NEW dn, WatchIn(g, m, k, d, rows, dk), Ahead(g, m, dk, dn),
           FreshIn(g, m, rows) => FreshIn(g, m, rn)
    PROVE  WatchIn(g, m, k, d, rn, dn)
<1>1. dk[m] = Newest(g, m) => dn[m] = Newest(g, m)
  BY DEF Ahead
<1>2. TableIn(g, m, k.snap, dk) => TableIn(g, m, k.snap, dn)
  BY TableStays
<1>3. \A n \in Name : dk[n] # Absent => dn[n] # Absent
  <2>1. Newest(g, m) # Absent
    BY LogFacts DEF LogOK
  <2>2. QED  BY <2>1 DEF Ahead
<1>4. k.left \subseteq Name
  BY DEF Watch
<1>5. QED  BY <1>1, <1>2, <1>3, <1>4 DEF WatchIn, SnapIn, DoneIn

LEMMA TaskInStays ==
    ASSUME NEW g, NEW m, NEW t, NEW rows, NEW rn, NEW dk, NEW dn, NEW pk, NEW pn,
           TaskIn(g, m, t, rows, dk, pk), Ahead(g, m, dk, dn), Ahead(g, m, pk, pn),
           FreshIn(g, m, rows) => FreshIn(g, m, rn)
    PROVE  TaskIn(g, m, t, rn, dn, pn)
<1>1. /\ dk[m] = Newest(g, m) => dn[m] = Newest(g, m)
      /\ pk[m] = Newest(g, m) => pn[m] = Newest(g, m)
  BY DEF Ahead
<1>2. TableIn(g, m, t.snap, dk) => TableIn(g, m, t.snap, dn)
  BY TableStays
<1>3. QED  BY <1>1, <1>2 DEF TaskIn, SnapIn
-----------------------------------------------------------------------------
(***************************************************************************)
(* The state in an epoch: what is in it, and why it goes on until all      *)
(* devices are done.                                                       *)
(***************************************************************************)
EpochRest(g) ==
    /\ written = [n \in Name |-> [k \in 1..Len(g[n]) |-> g[n][k].text]]
    /\ up = Link /\ overrun = {}
EpochFiles(g, m) ==
    \A d \in Device : TableIn(g, m, files[d], disk[d]) /\ DiskIn(g, m, d, disk[d])
EpochWatch(g, m) ==
    \A l \in Link : WatchIn(g, m, watch[l], l[1], files[l[1]], disk[l[1]])
EpochSends(g, m) ==
    \A l \in Link : sends[l] > 0 \/ idx[l] # <<>>
                       => DoneIn(g, m, files[l[1]], disk[l[1]])
EpochIdx(g, m) ==
    \A l \in Link : \A k \in 1..Len(idx[l]) :
        MsgIn(g, m, idx[l][k]) /\ Tells(g, m, idx[l][k], 1)
EpochTask(g, m) ==
    \A d \in Device, w \in Worker :
        TaskIn(g, m, task[d][w], files[d], disk[d], disk[task[d][w].peer])

\* A handler whose end is followed by an Index to all peers.
Announces(t) == (t.at = "index" /\ t.changed) \/ t.at = "begin" \/ Fetches(t)
\* A handler that has not yet come to the last edit in its Index.
Hears(g, m, t) == t.at = "index" /\ Tells(g, m, t.msg, t.pos)
\* A handler that is going to fetch m.
Due(g, m, t, dk) ==
    \/ t.at = "index" /\ t.changed
    \/ t.at = "begin"
    \/ /\ Fetches(t)
       /\ t.pos <= FindFile(t.snap, m)
       /\ ~SyncedIn(g, m, t.snap) \/ dk[m] = Absent

\* A scan, or a handler, of d that an Index follows.
Source(d) ==
    \/ \E l \in Link : /\ l[1] = d /\ watch[l].at \in {"scan", "store"}
                       /\ watch[l].changed
    \/ \E w \in Worker : Announces(task[d][w])

\* All watchers of the author are about to find the last edit, until it is known.
Scanned(g, m) ==
    \A l \in Link : l[1] = Author(g, m) =>
        \/ FreshIn(g, m, files[l[1]])
        \/ watch[l].event
        \/ watch[l].at = "scan" /\ m \in watch[l].left
        \/ watch[l].at = "store"
\* A device that is done tells each peer, until the peer knows.
Told(g, m) ==
    \A l \in Link : DoneIn(g, m, files[l[1]], disk[l[1]]) =>
        \/ FreshIn(g, m, files[l[2]])
        \/ sends[l] > 0 \/ idx[l] # <<>>
        \/ \E w \in Worker : Hears(g, m, task[l[2]][w])
        \/ Source(l[1])
\* A device that knows has a handler that will fetch, until it has the content.
Complete(g, m, rows, dk) == dk[m] = Newest(g, m) /\ SyncedIn(g, m, rows)
Fetched(g, m) ==
    \A d \in Device : FreshIn(g, m, files[d]) =>
        \/ Complete(g, m, files[d], disk[d])
        \/ \E w \in Worker : Due(g, m, task[d][w], disk[d])

Epoch(g, m) ==
    /\ LogOK(g, m) /\ EpochRest(g)
    /\ EpochFiles(g, m) /\ EpochWatch(g, m)
    /\ EpochSends(g, m) /\ EpochIdx(g, m) /\ EpochTask(g, m)
    /\ Scanned(g, m) /\ Told(g, m) /\ Fetched(g, m)
-----------------------------------------------------------------------------
(***************************************************************************)
(* What a step of an epoch leaves alone, it keeps true.                    *)
(***************************************************************************)
Onward(g, m) ==
    \A d \in Device : /\ FreshIn(g, m, files[d]) => FreshIn(g, m, files'[d])
                      /\ Ahead(g, m, disk[d], disk'[d])

LEMMA OnwardSame ==
    ASSUME NEW g, NEW m, files' = files, disk' = disk
    PROVE  Onward(g, m)
  BY AheadItself DEF Onward

LEMMA OnwardDone ==
    ASSUME NEW g, NEW m, Onward(g, m), NEW d \in Device,
           DoneIn(g, m, files[d], disk[d])
    PROVE  DoneIn(g, m, files'[d], disk'[d])
  BY DEF Onward, DoneIn, Ahead

LEMMA KeepEpochWatch ==
    ASSUME NEW g, NEW m, LogOK(g, m), Inv, Onward(g, m), EpochWatch(g, m),
           \A l \in Link :
              \/ watch'[l] = watch[l]
              \/ WatchIn(g, m, watch'[l], l[1], files'[l[1]], disk'[l[1]])
    PROVE  EpochWatch(g, m)'
<1>1. ASSUME NEW l \in Link
      PROVE  WatchIn(g, m, watch'[l], l[1], files'[l[1]], disk'[l[1]])
  <2>1. l[1] \in Device /\ watch[l] \in Watch
    BY LinkEnds DEF Inv, TypeOK
  <2>2. WatchIn(g, m, watch[l], l[1], files[l[1]], disk[l[1]])
    BY DEF EpochWatch
  <2>3. WatchIn(g, m, watch[l], l[1], files'[l[1]], disk'[l[1]])
    BY <2>1, <2>2, WatchInStays DEF Onward
  <2>4. QED  BY <2>3
<1>2. QED  BY <1>1 DEF EpochWatch

LEMMA KeepEpochTask ==
    ASSUME NEW g, NEW m, Inv, Onward(g, m), EpochTask(g, m),
           \A d \in Device, w \in Worker :
              \/ task'[d][w] = task[d][w]
              \/ TaskIn(g, m, task'[d][w], files'[d], disk'[d],
                        disk'[task'[d][w].peer])
    PROVE  EpochTask(g, m)'
<1>1. ASSUME NEW d \in Device, NEW w \in Worker
      PROVE  TaskIn(g, m, task'[d][w], files'[d], disk'[d],
                    disk'[task'[d][w].peer])
  <2> DEFINE t == task[d][w]
  <2>1. t \in Task
    BY DEF Inv, TypeOK
  <2>2. t.peer \in Device
    BY <2>1 DEF Task
  <2>3. TaskIn(g, m, t, files[d], disk[d], disk[t.peer])
    BY DEF EpochTask
  <2> HIDE DEF t
  <2>4. TaskIn(g, m, t, files'[d], disk'[d], disk'[t.peer])
    BY <2>2, <2>3, TaskInStays DEF Onward
  <2>5. QED  BY <2>4 DEF t
<1>2. QED  BY <1>1 DEF EpochTask

LEMMA KeepEpochSends ==
    ASSUME NEW g, NEW m, Onward(g, m), EpochSends(g, m),
           \A l \in Link : sends'[l] > 0 \/ idx'[l] # <<>> =>
              \/ sends[l] > 0 \/ idx[l] # <<>>
              \/ DoneIn(g, m, files'[l[1]], disk'[l[1]])
    PROVE  EpochSends(g, m)'
<1>1. ASSUME NEW l \in Link, sends'[l] > 0 \/ idx'[l] # <<>>
      PROVE  DoneIn(g, m, files'[l[1]], disk'[l[1]])
  <2>1. DoneIn(g, m, files[l[1]], disk[l[1]]) \/ DoneIn(g, m, files'[l[1]], disk'[l[1]])
    BY <1>1 DEF EpochSends
  <2>2. QED  BY <2>1, OnwardDone, LinkEnds
<1>2. QED  BY <1>1 DEF EpochSends

LEMMA KeepEpochFiles ==
    ASSUME NEW g, NEW m, Onward(g, m), EpochFiles(g, m),
           \A d \in Device : \/ files'[d] = files[d]
                             \/ TableIn(g, m, files'[d], disk'[d])
    PROVE  EpochFiles(g, m)'
<1>1. ASSUME NEW d \in Device
      PROVE  TableIn(g, m, files'[d], disk'[d]) /\ DiskIn(g, m, d, disk'[d])
  BY TableStays, DiskStays DEF EpochFiles, Onward
<1>2. QED  BY <1>1 DEF EpochFiles

\* A watcher of the author that is about to find the last edit.
Finds(m, k) == k.event \/ (k.at = "scan" /\ m \in k.left) \/ k.at = "store"

LEMMA KeepScanned ==
    ASSUME NEW g, NEW m, Onward(g, m), Scanned(g, m),
           \A l \in Link : l[1] = Author(g, m) /\ Finds(m, watch[l]) =>
              FreshIn(g, m, files'[l[1]]) \/ Finds(m, watch'[l])
    PROVE  Scanned(g, m)'
<1>1. ASSUME NEW l \in Link, l[1] = Author(g, m)
      PROVE  FreshIn(g, m, files'[l[1]]) \/ Finds(m, watch'[l])
  <2>1. FreshIn(g, m, files[l[1]]) \/ Finds(m, watch[l])
    BY <1>1 DEF Scanned, Finds
  <2>2. QED  BY <1>1, <2>1, LinkEnds DEF Onward
<1>2. QED  BY <1>1 DEF Scanned, Finds

LEMMA KeepTold ==
    ASSUME NEW g, NEW m, Onward(g, m), Told(g, m),
           \A d \in Device : DoneIn(g, m, files'[d], disk'[d]) =>
              DoneIn(g, m, files[d], disk[d]) \/ Source(d)',
           \A l \in Link : sends[l] > 0 \/ idx[l] # <<>> =>
              \/ sends'[l] > 0 \/ idx'[l] # <<>>
              \/ \E w \in Worker : Hears(g, m, task'[l[2]][w]),
           \A d \in Device, w \in Worker : Hears(g, m, task[d][w]) =>
              \/ FreshIn(g, m, files'[d])
              \/ \E v \in Worker : Hears(g, m, task'[d][v]),
           \A d \in Device : Source(d) =>
              Source(d)' \/ \A l \in Link : l[1] = d => sends'[l] > 0
    PROVE  Told(g, m)'
<1>1. ASSUME NEW l \in Link, DoneIn(g, m, files'[l[1]], disk'[l[1]])
      PROVE  \/ FreshIn(g, m, files'[l[2]])
             \/ sends'[l] > 0 \/ idx'[l] # <<>>
             \/ \E w \in Worker : Hears(g, m, task'[l[2]][w])
             \/ Source(l[1])'
  <2>0. l[1] \in Device /\ l[2] \in Device
    BY LinkEnds
  <2>1. DoneIn(g, m, files[l[1]], disk[l[1]]) \/ Source(l[1])'
    BY <1>1, <2>0
  <2>2. CASE DoneIn(g, m, files[l[1]], disk[l[1]])
    <3>1. \/ FreshIn(g, m, files[l[2]])
          \/ sends[l] > 0 \/ idx[l] # <<>>
          \/ \E w \in Worker : Hears(g, m, task[l[2]][w])
          \/ Source(l[1])
      BY <2>2 DEF Told
    <3>2. CASE FreshIn(g, m, files[l[2]])
      BY <3>2, <2>0 DEF Onward
    <3>3. CASE sends[l] > 0 \/ idx[l] # <<>>
      BY <3>3
    <3>4. CASE \E w \in Worker : Hears(g, m, task[l[2]][w])
      BY <3>4, <2>0
    <3>5. CASE Source(l[1])
      BY <3>5, <2>0
    <3>6. QED  BY <3>1, <3>2, <3>3, <3>4, <3>5
  <2>3. QED  BY <2>1, <2>2
<1>2. QED  BY <1>1 DEF Told

LEMMA KeepFetched ==
    ASSUME NEW g, NEW m, Onward(g, m), Fetched(g, m),
           \A d \in Device : FreshIn(g, m, files'[d]) =>
              \/ FreshIn(g, m, files[d])
              \/ Complete(g, m, files'[d], disk'[d])
              \/ \E w \in Worker : Due(g, m, task'[d][w], disk'[d]),
           \A d \in Device :
              FreshIn(g, m, files[d]) /\ Complete(g, m, files[d], disk[d]) =>
              \/ Complete(g, m, files'[d], disk'[d])
              \/ \E w \in Worker : Due(g, m, task'[d][w], disk'[d]),
           \A d \in Device, w \in Worker :
              FreshIn(g, m, files[d]) /\ Due(g, m, task[d][w], disk[d]) =>
              \/ Complete(g, m, files'[d], disk'[d])
              \/ \E v \in Worker : Due(g, m, task'[d][v], disk'[d])
    PROVE  Fetched(g, m)'
<1>1. ASSUME NEW d \in Device, FreshIn(g, m, files'[d])
      PROVE  \/ Complete(g, m, files'[d], disk'[d])
             \/ \E w \in Worker : Due(g, m, task'[d][w], disk'[d])
  <2>1. CASE FreshIn(g, m, files[d])
    <3>1. \/ Complete(g, m, files[d], disk[d])
          \/ \E w \in Worker : Due(g, m, task[d][w], disk[d])
      BY <2>1 DEF Fetched
    <3>2. QED  BY <2>1, <3>1
  <2>2. QED  BY <1>1, <2>1
<1>2. QED  BY <1>1 DEF Fetched

\* An epoch goes on when its parts do.
LEMMA EpochStep ==
    ASSUME NEW g, NEW m, Epoch(g, m), Onward(g, m),
           UNCHANGED <<up, written, overrun>>,
           EpochFiles(g, m)', EpochWatch(g, m)', EpochSends(g, m)',
           EpochIdx(g, m)', EpochTask(g, m)',
           Scanned(g, m)', Told(g, m)', Fetched(g, m)'
    PROVE  Epoch(g, m)'
<1>1. EpochRest(g)'
  BY DEF Epoch, EpochRest
<1>2. QED  BY <1>1 DEF Epoch

LEMMA EpochParts ==
    ASSUME NEW g, NEW m, Epoch(g, m)
    PROVE  /\ LogOK(g, m) /\ EpochRest(g)
           /\ EpochFiles(g, m) /\ EpochWatch(g, m)
           /\ EpochSends(g, m) /\ EpochIdx(g, m) /\ EpochTask(g, m)
           /\ Scanned(g, m) /\ Told(g, m) /\ Fetched(g, m)
  BY DEF Epoch

\* One watcher is different after a step.
LEMMA WatchPut ==
    ASSUME Inv, NEW l \in Link, NEW k, watch' = [watch EXCEPT ![l] = k]
    PROVE  \A j \in Link : watch'[j] = IF j = l THEN k ELSE watch[j]
  BY DEF Inv, TypeOK

\* A handler that announces stays one, whichever other handler takes a step.
LEMMA SourceStays ==
    ASSUME NEW d \in Device, Source(d),
           \A l \in Link : l[1] = d /\ watch[l].at \in {"scan", "store"}
                              /\ watch[l].changed
              => watch'[l].at \in {"scan", "store"} /\ watch'[l].changed,
           \A w \in Worker : Announces(task[d][w]) => Announces(task'[d][w])
    PROVE  Source(d)'
  BY DEF Source

\* A watcher that neither stores nor ends.
LEMMA WatcherEpoch ==
    ASSUME NEW g, NEW m, Epoch(g, m), Inv, NEW l \in Link, NEW k,
           watch' = [watch EXCEPT ![l] = k],
           UNCHANGED <<disk, files, task, sends, idx, up, written, overrun>>,
           WatchIn(g, m, k, l[1], files[l[1]], disk[l[1]]),
           watch[l].at \in {"scan", "store"} /\ watch[l].changed
              => k.at \in {"scan", "store"} /\ k.changed,
           l[1] = Author(g, m) /\ Finds(m, watch[l])
              => FreshIn(g, m, files[l[1]]) \/ Finds(m, k)
    PROVE  Epoch(g, m)'
<1>0. /\ LogOK(g, m) /\ EpochFiles(g, m) /\ EpochWatch(g, m)
      /\ EpochSends(g, m) /\ EpochIdx(g, m) /\ EpochTask(g, m)
      /\ Scanned(g, m) /\ Told(g, m) /\ Fetched(g, m)
  BY EpochParts
<1>1. Onward(g, m)
  BY OnwardSame
<1>2. \A j \in Link : watch'[j] = IF j = l THEN k ELSE watch[j]
  BY WatchPut
<1>3. EpochWatch(g, m)'
  BY <1>0, <1>1, <1>2, KeepEpochWatch
<1>4. EpochFiles(g, m)' /\ EpochSends(g, m)' /\ EpochIdx(g, m)' /\ EpochTask(g, m)'
  BY <1>0 DEF EpochFiles, EpochSends, EpochIdx, EpochTask
<1>5. Scanned(g, m)'
  BY <1>0, <1>1, <1>2, KeepScanned
<1>6. \A d \in Device : Source(d) => Source(d)'
  <2>1. \A j \in Link : watch[j].at \in {"scan", "store"} /\ watch[j].changed
              => watch'[j].at \in {"scan", "store"} /\ watch'[j].changed
    BY <1>2
  <2>2. QED  BY <2>1, SourceStays
<1>7. Told(g, m)'
  BY <1>0, <1>1, <1>6, KeepTold
<1>8. Fetched(g, m)'
  BY <1>0 DEF Fetched
<1>9. QED  BY <1>1, <1>3, <1>4, <1>5, <1>7, <1>8, EpochStep

\* A handler that neither stores nor writes nor sends.
LEMMA HandlerEpoch ==
    ASSUME NEW g, NEW m, Epoch(g, m), Inv, NEW d \in Device, NEW w \in Worker, NEW t,
           task' = [task EXCEPT ![d][w] = t],
           UNCHANGED <<disk, files, watch, sends, idx, up, written, overrun>>,
           TaskIn(g, m, t, files[d], disk[d], disk[t.peer]),
           Announces(task[d][w]) => Announces(t),
           Hears(g, m, task[d][w]) => FreshIn(g, m, files[d]) \/ Hears(g, m, t),
           FreshIn(g, m, files[d]) /\ Due(g, m, task[d][w], disk[d])
              => Complete(g, m, files[d], disk[d]) \/ Due(g, m, t, disk[d])
    PROVE  Epoch(g, m)'
<1>0. /\ LogOK(g, m) /\ EpochFiles(g, m) /\ EpochWatch(g, m)
      /\ EpochSends(g, m) /\ EpochIdx(g, m) /\ EpochTask(g, m)
      /\ Scanned(g, m) /\ Told(g, m) /\ Fetched(g, m)
  BY EpochParts
<1>1. Onward(g, m)
  BY OnwardSame
<1>2. \A e \in Device, v \in Worker :
         task'[e][v] = IF e = d /\ v = w THEN t ELSE task[e][v]
  BY DEF Inv, TypeOK
<1>3. EpochTask(g, m)'
  <2>1. task'[d][w] = t
    BY <1>2
  <2>2. \A e \in Device, v \in Worker :
           \/ task'[e][v] = task[e][v]
           \/ TaskIn(g, m, task'[e][v], files'[e], disk'[e], disk'[task'[e][v].peer])
    BY <1>2, <2>1
  <2>3. QED  BY <1>0, <1>1, <2>2, KeepEpochTask
<1>4. /\ EpochFiles(g, m)' /\ EpochSends(g, m)' /\ EpochIdx(g, m)'
      /\ EpochWatch(g, m)' /\ Scanned(g, m)'
  BY <1>0 DEF EpochFiles, EpochSends, EpochIdx, EpochWatch, Scanned
<1>5. \A e \in Device : Source(e) => Source(e)'
  <2>1. \A e \in Device, v \in Worker : Announces(task[e][v]) => Announces(task'[e][v])
    BY <1>2
  <2>2. QED  BY <2>1, SourceStays
<1>6. Told(g, m)'
  <2>1. \A e \in Device, v \in Worker : Hears(g, m, task[e][v]) =>
              \/ FreshIn(g, m, files'[e])
              \/ \E u \in Worker : Hears(g, m, task'[e][u])
    BY <1>2
  <2>2. QED  BY <1>0, <1>1, <1>5, <2>1, KeepTold
<1>7. Fetched(g, m)'
  <2>1. \A e \in Device, v \in Worker :
              FreshIn(g, m, files[e]) /\ Due(g, m, task[e][v], disk[e]) =>
              \/ Complete(g, m, files'[e], disk'[e])
              \/ \E u \in Worker : Due(g, m, task'[e][u], disk'[e])
    BY <1>2
  <2>2. QED  BY <1>0, <1>1, <2>1, KeepFetched
<1>8. QED  BY <1>1, <1>3, <1>4, <1>6, <1>7, EpochStep
-----------------------------------------------------------------------------
(***************************************************************************)
(* The steps of watchers.                                                  *)
(***************************************************************************)
\* What is known of the first row for a name.
LEMMA FirstFacts ==
    ASSUME NEW g, NEW m, LogOK(g, m), NEW rows, RowsOK(rows), NEW dk,
           TableIn(g, m, rows, dk), NEW n \in Name, HasRow(rows, n)
    PROVE  LET i == FindFile(rows, n)
           IN  /\ i \in 1..Len(rows) /\ i # 0
               /\ rows[i].name = n /\ RowOK(rows[i])
               /\ RowIn(g, rows[i]) /\ FirstIn(g, m, rows[i])
<1> DEFINE i == FindFile(rows, n)
<1>1. rows \in Seq(File) /\ Len(rows) \in Nat
  BY DEF RowsOK
<1>2. i \in 1..Len(rows) /\ rows[i].name = n
  BY <1>1, FindFileFirst
<1> HIDE DEF i
<1>3. RowOK(rows[i]) /\ RowIn(g, rows[i])
  BY <1>2 DEF RowsOK, TableIn
<1>4. FindFile(rows, rows[i].name) = i
  BY <1>2 DEF i
<1>5. FirstIn(g, m, rows[i])
  BY <1>2, <1>4 DEF TableIn
<1>6. i # 0
  BY <1>1, <1>2
<1>7. QED  BY <1>2, <1>3, <1>5, <1>6 DEF i

\* The rows that the author's scan makes of the last edit.
LEMMA NewFileFull ==
    ASSUME NEW g, NEW m, LogOK(g, m), Len(g[m]) = 1
    PROVE  LET f == NewFile(Author(g, m), m, Newest(g, m))
           IN  FullRow(g, m, f) /\ f.synced = Len(g[m]) - 1
<1> DEFINE f == NewFile(Author(g, m), m, Newest(g, m))
           v == [user |-> Author(g, m), val |-> 0]
<1>1. /\ f.name = m /\ f.versions = <<v>> /\ f.synced = 0
      /\ f.hash = Newest(g, m) /\ f.blocks = GenBlocks(Newest(g, m))
  BY DEF NewFile, FileHash
<1>2. v = [user |-> g[m][1].by, val |-> 1 - 1]
  BY DEF Author
<1> HIDE DEF f, v
<1>3. Len(f.versions) = 1 /\ f.versions[1] = v
  BY <1>1
<1>4. Follows(g, m, f.versions)
  BY <1>2, <1>3 DEF Follows
<1>5. FullRow(g, m, f)
  BY <1>1, <1>3, <1>4 DEF FullRow, RowIn
<1>6. QED  BY <1>1, <1>5 DEF f

LEMMA NewVersionFull ==
    ASSUME NEW g, NEW m, LogOK(g, m), NEW f, RowOK(f), RowIn(g, f), f.name = m,
           Len(f.versions) = Len(g[m]) - 1
    PROVE  LET r == NewVersion(Author(g, m), f, Newest(g, m))
           IN  FullRow(g, m, r) /\ r.synced = Len(g[m]) - 1
<1> DEFINE r == NewVersion(Author(g, m), f, Newest(g, m))
           z == Len(g[m])
           v == [user |-> Author(g, m), val |-> z - 1]
           vs == f.versions
<1>1. /\ vs \in Seq(Version) /\ Len(vs) = z - 1 /\ z \in Nat /\ z >= 1
      /\ IndexVersion(f) = z - 1 - 1
  BY RowFacts, LogFacts
<1>2. IndexVersion(f) + 1 = z - 1
  <2> HIDE DEF z
  <2>1. QED  BY <1>1
<1>3. /\ r.name = m /\ r.versions = Append(vs, v) /\ r.synced = z - 1
      /\ r.hash = Newest(g, m) /\ r.blocks = GenBlocks(Newest(g, m))
  BY <1>2 DEF NewVersion, FileHash
<1>4. v = [user |-> g[m][z].by, val |-> z - 1]
  BY DEF Author
<1>5. \A k \in 1..Len(vs) : vs[k] = [user |-> g[m][k].by, val |-> k - 1]
  BY DEF RowIn, Follows
<1>6. Author(g, m) \in Device
  BY LogFacts DEF LogOK
<1>7. v \in Version
  <2>1. z - 1 \in Nat
    <3> HIDE DEF z
    <3>1. QED  BY <1>1
  <2>2. QED  BY <1>6, <2>1 DEF Version
<1>z. Len(g[m]) = z
  OBVIOUS
<1> HIDE DEF r, v, vs, z
<1>8. Len(r.versions) = z
  BY <1>1, <1>3, <1>7
<1>9. \A k \in 1..z : r.versions[k] = IF k = z THEN v ELSE vs[k]
  BY <1>1, <1>3, <1>7
<1>10. \A k \in 1..z : r.versions[k] = [user |-> g[m][k].by, val |-> k - 1]
  <2>1. \A k \in 1..z : k # z => k \in 1..Len(vs)
    BY <1>1
  <2>2. QED  BY <1>4, <1>5, <1>9, <2>1
<1>11. Follows(g, m, r.versions)
  BY <1>1, <1>8, <1>10, <1>z DEF Follows
<1>12. FullRow(g, m, r)
  BY <1>3, <1>8, <1>11, <1>1, <1>z DEF FullRow, RowIn
<1>13. QED  BY <1>3, <1>12, <1>z DEF r

LEMMA GenerateIndexEpoch ==
    ASSUME NEW g, NEW m, Epoch(g, m), Inv, NEW l \in Link, GenerateIndex(l)
    PROVE  Epoch(g, m)'
<1> DEFINE d == l[1]
           k == watch[l]
           left == {n \in Name : disk[d][n] # Absent}
           n == [k EXCEPT !.at = "scan", !.event = FALSE, !.snap = files[d],
                          !.changed = FALSE, !.left = left]
<1>1. /\ k.at = "idle" /\ k.event /\ watch' = [watch EXCEPT ![l] = n]
      /\ UNCHANGED <<disk, files, task, sends, idx, up, written, overrun>>
  BY DEF GenerateIndex, GetSyncFiles
<1>2. d \in Device /\ k \in Watch
  BY LinkEnds DEF Inv, TypeOK
<1>3. /\ n.at = "scan" /\ n.event = FALSE /\ n.snap = files[d] /\ n.live = k.live
      /\ n.changed = FALSE /\ n.left = left
  BY <1>2 DEF Watch
<1>4. /\ TableIn(g, m, files[d], disk[d]) /\ DiskIn(g, m, d, disk[d])
      /\ WatchIn(g, m, k, d, files[d], disk[d]) /\ LogOK(g, m)
  BY <1>2, EpochParts DEF EpochFiles, EpochWatch
<1> HIDE DEF n
<1>5. WatchIn(g, m, n, d, files[d], disk[d])
  <2>1. k.live /\ (FreshIn(g, m, files[d]) \/ d = Author(g, m))
    BY <1>1, <1>4 DEF WatchIn
  <2>2. SnapIn(g, m, n.snap, files[d], disk[d])
    BY <1>3, <1>4 DEF SnapIn
  <2>3. \A j \in n.left : disk[d][j] # Absent
    BY <1>3
  <2>4. QED  BY <1>3, <2>1, <2>2, <2>3 DEF WatchIn
<1>6. d = Author(g, m) => Finds(m, n)
  <2>1. m \in Name /\ Newest(g, m) # Absent
    BY <1>4, LogFacts DEF LogOK
  <2>2. d = Author(g, m) => m \in left
    BY <1>4, <2>1 DEF DiskIn
  <2>3. QED  BY <1>3, <2>2 DEF Finds
<1>7. QED  BY <1>1, <1>5, <1>6, WatcherEpoch

\* A scan finds nothing new in a file, other than the author in m.
LEMMA NotModified ==
    ASSUME NEW g, NEW m, LogOK(g, m), NEW rows, RowsOK(rows), NEW d, NEW dk,
           TableIn(g, m, rows, dk), DiskIn(g, m, d, dk), NEW n \in Name,
           dk[n] # Absent, n = m => FreshIn(g, m, rows)
    PROVE  /\ FindFile(rows, n) # 0
           /\ ~Modified(rows[FindFile(rows, n)], dk[n])
<1> DEFINE i == FindFile(rows, n)
           f == rows[i]
           z == Len(g[n])
<1>1. CASE n # m
  <2>1. g[n] # <<>> /\ dk[n] = Newest(g, n)
    BY <1>1 DEF DiskIn
  <2>2. HasRow(rows, n)
    BY <1>1, <2>1 DEF TableIn
  <2>3. i # 0 /\ f.name = n /\ RowIn(g, f) /\ FirstIn(g, m, f)
    BY <2>2, FirstFacts
  <2> HIDE DEF i, f
  <2>4. f.hash = Newest(g, n)
    BY <1>1, <2>3 DEF RowIn, FirstIn
  <2>5. QED  BY <2>1, <2>3, <2>4 DEF Modified, FileHash, i, f
<1>2. CASE n = m
  <2>1. HasRow(rows, m) /\ Len(f.versions) = z
    BY <1>2 DEF FreshIn
  <2>2. i # 0 /\ f.name = m /\ RowIn(g, f) /\ RowOK(f)
    BY <1>2, <2>1, FirstFacts
  <2>3. f.hash = Newest(g, m)
    BY <1>2, <2>1, <2>2 DEF RowIn
  <2>4. dk[m] = Newest(g, m) \/ dk[m] = Earlier(g, m)
    BY DEF DiskIn
  <2>5. CASE dk[m] = Newest(g, m)
    BY <1>2, <2>2, <2>3, <2>5 DEF Modified, FileHash
  <2>6. CASE dk[m] # Newest(g, m)
    <3>1. z > 1
      <4>1. z \in Nat /\ z >= 1 /\ (z = 1 => Earlier(g, m) = Absent)
        BY <1>2, LogFacts
      <4>2. Earlier(g, m) # Absent
        BY <1>2, <2>4, <2>6
      <4> HIDE DEF z
      <4>3. QED  BY <4>1, <4>2
    <3>2. ~SyncedIn(g, m, rows)
      BY <1>2, <2>6, <3>1 DEF TableIn
    <3>3. f.synced # z - 1
      BY <1>2, <3>2 DEF SyncedIn
    <3>4. /\ IndexVersion(f) = Len(f.versions) - 1 /\ f.synced \in Nat
          /\ f.synced < Len(f.versions) /\ Len(f.versions) \in Nat
      BY <2>2, RowFacts
    <3> HIDE DEF f, z, i
    <3>5. ~(IndexVersion(f) <= f.synced)
      BY <2>1, <3>3, <3>4
    <3>6. QED  BY <2>2, <3>5 DEF Modified, f, i
  <2>7. QED  BY <2>5, <2>6
<1>3. QED  BY <1>1, <1>2

\* ... where it stores the last edit.
LEMMA ScanFileEpoch ==
    ASSUME NEW g, NEW m, Epoch(g, m), Inv, NEW l \in Link, NEW n \in Name,
           ScanFile(l, n)
    PROVE  Epoch(g, m)'
<1> DEFINE d == l[1]
           c == disk[d][n]
           k == watch[l]
           i == FindFile(k.snap, n)
           rows == files[d]
<1>1. /\ k.at = "scan" /\ n \in k.left
      /\ UNCHANGED <<disk, files, task, sends, idx, up, written, overrun>>
  BY DEF ScanFile
<1>2. d \in Device /\ k \in Watch /\ RowsOK(k.snap)
  BY LinkEnds DEF Inv, TypeOK, WatchOK, SnapOf
<1>3. /\ DiskIn(g, m, d, disk[d]) /\ LogOK(g, m)
      /\ WatchIn(g, m, k, d, rows, disk[d])
  BY <1>2, EpochParts DEF EpochFiles, EpochWatch
<1>4. /\ c # Absent /\ k.live
      /\ TableIn(g, m, k.snap, disk[d])
      /\ FreshIn(g, m, k.snap) => FreshIn(g, m, rows)
      /\ FreshIn(g, m, k.snap) \/ d = Author(g, m)
  BY <1>1, <1>3 DEF WatchIn, SnapIn
<1>5. CASE n = m => FreshIn(g, m, k.snap)
  <2> DEFINE b == [k EXCEPT !.left = @ \ {n}]
  <2>1. i # 0 /\ ~Modified(k.snap[i], c)
    BY <1>2, <1>3, <1>4, <1>5, NotModified
  <2>2. watch' = [watch EXCEPT ![l] = b]
    BY <1>4, <2>1 DEF ScanFile
  <2>3. /\ b.at = k.at /\ b.live = k.live /\ b.event = k.event /\ b.snap = k.snap
        /\ b.left = k.left \ {n} /\ b.pend = k.pend /\ b.changed = k.changed
    BY <1>2 DEF Watch
  <2> HIDE DEF b
  <2>4. WatchIn(g, m, b, d, rows, disk[d])
    BY <1>1, <1>3, <2>3 DEF WatchIn
  <2>5. Finds(m, k) => FreshIn(g, m, rows) \/ Finds(m, b)
    BY <1>1, <1>4, <1>5, <2>3 DEF Finds
  <2>6. QED  BY <1>1, <2>2, <2>3, <2>4, <2>5, WatcherEpoch
<1>6. CASE n = m /\ ~FreshIn(g, m, k.snap)
  <2>1. d = Author(g, m) /\ c = Newest(g, m)
    BY <1>3, <1>4, <1>6 DEF DiskIn
  <2>2. ASSUME NEW row, FullRow(g, m, row), row.synced = Len(g[m]) - 1,
               watch' = [watch EXCEPT ![l] =
                           [k EXCEPT !.at = "store", !.left = @ \ {n},
                                     !.pend = <<[id |-> i, row |-> row]>>]]
        PROVE  Epoch(g, m)'
    <3> DEFINE q == <<[id |-> i, row |-> row]>>
               b == [k EXCEPT !.at = "store", !.left = @ \ {n}, !.pend = q]
    <3>1. q[1].id = i /\ q[1].row = row
      OBVIOUS
    <3>2. watch' = [watch EXCEPT ![l] = b]
      BY <2>2
    <3> HIDE DEF q
    <3>3. /\ b.at = "store" /\ b.live = k.live /\ b.event = k.event
          /\ b.snap = k.snap /\ b.left = k.left \ {n} /\ b.pend = q
          /\ b.changed = k.changed
      BY <1>2 DEF Watch
    <3> HIDE DEF b
    <3>4. PendIn(g, m, b.snap, d, b.pend[1])
      BY <1>6, <2>1, <2>2, <3>1, <3>3 DEF PendIn
    <3>5. WatchIn(g, m, b, d, rows, disk[d])
      BY <1>1, <1>3, <3>3, <3>4 DEF WatchIn
    <3>6. Finds(m, b)
      BY <3>3 DEF Finds
    <3>7. QED  BY <1>1, <3>2, <3>3, <3>5, <3>6, WatcherEpoch
  <2>3. m \in Name /\ Len(g[m]) \in Nat /\ Len(g[m]) >= 1
    BY <1>3, LogFacts
  <2>4. CASE i = 0
    <3>1. k.snap \in Seq(File)
      BY <1>2 DEF RowsOK
    <3>2. ~HasRow(k.snap, m)
      BY <1>6, <2>4, <3>1, FindFileFinds
    <3>3. ~(Len(g[m]) > 1)
      BY <1>3, <1>4, <3>2 DEF TableIn, LogOK
    <3>4. Len(g[m]) = 1
      <4> DEFINE z == Len(g[m])
      <4>1. z \in Nat /\ z >= 1 /\ ~(z > 1)
        BY <2>3, <3>3
      <4> HIDE DEF z
      <4>2. z = 1
        BY <4>1
      <4>3. QED  BY <4>2 DEF z
    <3>5. /\ FullRow(g, m, NewFile(d, n, c))
          /\ NewFile(d, n, c).synced = Len(g[m]) - 1
      BY <1>3, <1>6, <2>1, <3>4, NewFileFull
    <3>6. watch' = [watch EXCEPT ![l] =
                      [k EXCEPT !.at = "store", !.left = @ \ {n},
                                !.pend = <<[id |-> i, row |-> NewFile(d, n, c)]>>]]
      BY <1>4, <2>4 DEF ScanFile
    <3>7. QED  BY <2>2, <3>5, <3>6
  <2>5. CASE i # 0
    <3> DEFINE f == k.snap[i]
               z == Len(g[m])
    <3>0. k.snap \in Seq(File)
      BY <1>2 DEF RowsOK
    <3>1. HasRow(k.snap, m)
      BY <1>6, <2>5, <3>0, FindFileFinds
    <3>2. f.name = m /\ RowOK(f) /\ RowIn(g, f) /\ FirstIn(g, m, f)
      BY <1>2, <1>3, <1>4, <1>6, <3>1, FirstFacts
    <3>3. Len(f.versions) # z
      BY <1>6, <3>1 DEF FreshIn
    <3> HIDE DEF f
    <3>4. Len(f.versions) = z - 1 /\ f.hash = Earlier(g, m)
      BY <3>2, <3>3 DEF FirstIn
    <3>5. /\ IndexVersion(f) = Len(f.versions) - 1 /\ Len(f.versions) \in Nat
      BY <3>2, RowFacts
    <3>6. Len(f.versions) < z => f.synced = Len(f.versions) - 1
      BY <3>2 DEF RowIn
    <3>7. IndexVersion(f) <= f.synced
      <4>1. z \in Nat
        BY <2>3
      <4> HIDE DEF z
      <4>2. QED  BY <3>4, <3>5, <3>6, <4>1
    <3>8. Modified(f, c)
      <4>1. Earlier(g, m) # Newest(g, m)
        BY <1>3, LogFacts
      <4>2. QED  BY <2>1, <3>4, <3>7, <4>1 DEF Modified, FileHash
    <3>9. /\ FullRow(g, m, NewVersion(d, f, c))
          /\ NewVersion(d, f, c).synced = Len(g[m]) - 1
      BY <1>3, <2>1, <3>2, <3>4, NewVersionFull
    <3>10. watch' = [watch EXCEPT ![l] =
                      [k EXCEPT !.at = "store", !.left = @ \ {n},
                                !.pend = <<[id |-> i,
                                            row |-> NewVersion(d, f, c)]>>]]
      BY <1>4, <2>5, <3>8 DEF ScanFile, f
    <3>11. QED  BY <2>2, <3>9, <3>10
  <2>6. QED  BY <2>4, <2>5
<1>7. QED  BY <1>5, <1>6

\* A row with the last edit is stored under the id that an earlier snapshot has
\* for it: the assertion holds, and table and snapshot are as they should be.
LEMMA StoreFull ==
    ASSUME NEW g, NEW m, LogOK(g, m), NEW rows, RowsOK(rows), NEW snap, NEW dk,
           SnapOf(snap, rows), TableIn(g, m, rows, dk), TableIn(g, m, snap, dk),
           NEW f, RowOK(f), FullRow(g, m, f),
           f.synced = Len(g[m]) - 1 /\ Len(g[m]) > 1 => dk[m] = Newest(g, m)
    PROVE  LET id  == FindFile(snap, m)
               new == UpdateSyncFile(rows, id, f)
           IN  /\ VersionsFit(rows, id, f)
               /\ TableIn(g, m, new, dk) /\ FreshIn(g, m, new)
               /\ f.synced = Len(g[m]) - 1 => SyncedIn(g, m, new)
               /\ TableIn(g, m, IF id = 0 THEN snap ELSE [snap EXCEPT ![id] = f], dk)
<1> DEFINE id == FindFile(snap, m)
           z == Len(g[m])
<1>1. /\ snap \in Seq(File) /\ rows \in Seq(File) /\ RowsOK(snap)
      /\ Len(snap) \in Nat /\ Len(rows) \in Nat /\ Len(snap) <= Len(rows)
  BY DEF SnapOf, RowsOK
<1>2. m \in Name /\ z \in Nat /\ z >= 1
  BY LogFacts
<1>3. CASE id = 0
  <2>1. ~HasRow(snap, m)
    BY <1>1, <1>2, <1>3, FindFileFinds
  <2>2. ~(z > 1)
    BY <2>1, <1>2 DEF TableIn, LogOK
  <2>3. z = 1
    <3> HIDE DEF z
    <3>1. QED  BY <1>2, <2>2
  <2>4. id \in 0..Len(rows)
    BY <1>1, <1>3
  <2> HIDE DEF id
  <2>5. /\ VersionsFit(rows, id, f)
        /\ UpdateSyncFile(rows, id, f) = PutRow(rows, id, f)
    BY <1>3, <2>4, UpdateIsPut
  <2>6. /\ TableIn(g, m, PutRow(rows, id, f), dk)
        /\ FreshIn(g, m, PutRow(rows, id, f))
        /\ f.synced = Len(g[m]) - 1 => SyncedIn(g, m, PutRow(rows, id, f))
    BY <1>3, <2>3, <2>4, PutIn
  <2>7. QED  BY <1>3, <2>5, <2>6 DEF id
<1>4. CASE id # 0
  <2>1. HasRow(snap, m)
    BY <1>1, <1>2, <1>4, FindFileFinds
  <2>2. HasRow(rows, m) /\ FindFile(rows, m) = id
    BY <1>1, <1>2, <2>1, SnapFirst
  <2>3. id \in 1..Len(rows) /\ rows[id].name = m /\ RowIn(g, rows[id])
    BY <1>2, <2>2, FirstFacts
  <2>4. id \in 1..Len(snap) /\ snap[id].name = m
    BY <1>1, <1>2, <2>1, FirstFacts
  <2>5. id = FindFile(snap, m)
    OBVIOUS
  <2>6. id \in 0..Len(rows) /\ id \in 0..Len(snap)
    BY <1>1, <2>3, <2>4
  <2> HIDE DEF id
  <2>7. /\ VersionsFit(rows, id, f)
        /\ UpdateSyncFile(rows, id, f) = PutRow(rows, id, f)
    BY <2>3, <2>6, UpdateIsPut
  <2>8. /\ TableIn(g, m, PutRow(rows, id, f), dk)
        /\ FreshIn(g, m, PutRow(rows, id, f))
        /\ f.synced = Len(g[m]) - 1 => SyncedIn(g, m, PutRow(rows, id, f))
    BY <2>2, <2>3, <2>6, PutIn
  <2>9. TableIn(g, m, PutRow(snap, id, f), dk)
    BY <1>1, <2>1, <2>4, <2>5, <2>6, PutIn
  <2>10. PutRow(snap, id, f) = [snap EXCEPT ![id] = f]
    BY <1>4 DEF PutRow
  <2>11. QED  BY <1>4, <2>7, <2>8, <2>9, <2>10 DEF id
<1>5. QED  BY <1>3, <1>4

\* The table of d has a new row with the last edit.
LEMMA OnwardPut ==
    ASSUME NEW g, NEW m, Inv, NEW d \in Device, NEW new, FreshIn(g, m, new),
           files' = [files EXCEPT ![d] = new], disk' = disk
    PROVE  /\ Onward(g, m) /\ files'[d] = new
           /\ \A e \in Device : e # d => files'[e] = files[e]
<1>1. \A e \in Device : files'[e] = IF e = d THEN new ELSE files[e]
  BY DEF Inv, TypeOK
<1>2. QED  BY <1>1, AheadItself DEF Onward

LEMMA ScanStoreEpoch ==
    ASSUME NEW g, NEW m, Epoch(g, m), Inv, NEW l \in Link, ScanStore(l)
    PROVE  Epoch(g, m)'
<1> DEFINE d == l[1]
           k == watch[l]
           id == k.pend[1].id
           row == k.pend[1].row
           rows == files[d]
           dk == disk[d]
           snap == IF id = 0 THEN k.snap ELSE [k.snap EXCEPT ![id] = row]
           new == UpdateSyncFile(rows, id, row)
<1>0. /\ LogOK(g, m) /\ EpochFiles(g, m) /\ EpochWatch(g, m)
      /\ EpochSends(g, m) /\ EpochIdx(g, m) /\ EpochTask(g, m)
      /\ Scanned(g, m) /\ Told(g, m) /\ Fetched(g, m)
  BY EpochParts
<1>1. k.at = "store"
  BY DEF ScanStore
<1>2. /\ d \in Device /\ k \in Watch /\ WatchOK(k, rows) /\ RowsOK(rows)
      /\ SnapOf(k.snap, rows)
  BY LinkEnds DEF Inv, TypeOK, WatchOK
<1>3. RowOK(row)
  BY <1>1, <1>2 DEF WatchOK
<1>4. /\ TableIn(g, m, rows, dk) /\ DiskIn(g, m, d, dk)
      /\ WatchIn(g, m, k, d, rows, dk)
  BY <1>0, <1>2 DEF EpochFiles, EpochWatch
<1>5. /\ k.live /\ TableIn(g, m, k.snap, dk) /\ \A n \in k.left : dk[n] # Absent
      /\ id = FindFile(k.snap, m) /\ d = Author(g, m)
      /\ FullRow(g, m, row) /\ row.synced = Len(g[m]) - 1
  BY <1>1, <1>4 DEF WatchIn, SnapIn, PendIn
<1>6. dk[m] = Newest(g, m)
  BY <1>4, <1>5 DEF DiskIn
<1>7. /\ VersionsFit(rows, id, row)
      /\ TableIn(g, m, new, dk) /\ FreshIn(g, m, new) /\ SyncedIn(g, m, new)
      /\ TableIn(g, m, snap, dk)
  <2> HIDE DEF rows, row, dk, id, k
  <2>1. LET j == FindFile(k.snap, m)
            n == UpdateSyncFile(rows, j, row)
        IN  /\ VersionsFit(rows, j, row)
            /\ TableIn(g, m, n, dk) /\ FreshIn(g, m, n)
            /\ row.synced = Len(g[m]) - 1 => SyncedIn(g, m, n)
            /\ TableIn(g, m, IF j = 0 THEN k.snap ELSE [k.snap EXCEPT ![j] = row], dk)
    BY <1>0, <1>2, <1>3, <1>4, <1>5, <1>6, StoreFull
  <2>2. QED  BY <2>1, <1>5
<1> DEFINE b == [k EXCEPT !.at = "scan", !.pend = <<>>, !.changed = TRUE,
                          !.snap = snap]
<1>8. /\ files' = [files EXCEPT ![d] = new] /\ watch' = [watch EXCEPT ![l] = b]
      /\ overrun' = overrun
      /\ UNCHANGED <<disk, task, sends, idx, up, written>>
  <2>1. /\ files' = [files EXCEPT ![d] = UpdateSyncFile(@, id, row)]
        /\ UNCHANGED <<disk, task, sends, idx, up, written>>
    BY Zenon DEF ScanStore
  <2>2. files' = [files EXCEPT ![d] = new]
    BY <2>1
  <2>3. /\ overrun' = IF VersionsFit(rows, id, row) THEN overrun ELSE overrun \cup {d}
        /\ watch' = [watch EXCEPT ![l] =
                       IF VersionsFit(rows, id, row) THEN b
                       ELSE [WatchOff EXCEPT !.at = "dead"]]
    BY DEF ScanStore
  <2> HIDE DEF b, id, row, rows
  <2>4. QED  BY <1>7, <2>1, <2>2, <2>3
<1> HIDE DEF snap
<1>9. /\ b.at = "scan" /\ b.live = k.live /\ b.event = k.event /\ b.snap = snap
      /\ b.left = k.left /\ b.changed = TRUE
  BY <1>2 DEF Watch
<1> HIDE DEF new, b
<1>10. /\ Onward(g, m) /\ files'[d] = new
       /\ \A e \in Device : e # d => files'[e] = files[e]
  BY <1>2, <1>7, <1>8, OnwardPut
<1>11. EpochFiles(g, m)'
  BY <1>0, <1>7, <1>8, <1>10, KeepEpochFiles
<1>12. \A j \in Link : watch'[j] = IF j = l THEN b ELSE watch[j]
  BY <1>8, WatchPut
<1>13. EpochWatch(g, m)'
  <2>1. WatchIn(g, m, b, d, new, dk)
    BY <1>5, <1>6, <1>7, <1>9 DEF WatchIn, SnapIn, DoneIn
  <2>2. \A j \in Link : \/ watch'[j] = watch[j]
                        \/ WatchIn(g, m, watch'[j], j[1], files'[j[1]], disk'[j[1]])
    BY <1>8, <1>10, <1>12, <2>1
  <2>3. QED  BY <1>0, <1>10, <2>2, KeepEpochWatch
<1>14. EpochSends(g, m)' /\ EpochIdx(g, m)'
  <2>1. EpochSends(g, m)'
    BY <1>0, <1>8, <1>10, KeepEpochSends
  <2>2. QED  BY <1>0, <1>8, <2>1 DEF EpochIdx
<1>15. EpochTask(g, m)'
  BY <1>0, <1>8, <1>10, KeepEpochTask
<1>16. Scanned(g, m)'
  <2>1. \A j \in Link : j[1] = Author(g, m) => FreshIn(g, m, files'[j[1]])
    BY <1>5, <1>7, <1>10
  <2>2. QED  BY <1>0, <1>10, <2>1, KeepScanned
<1>17. \A e \in Device : Source(e) => Source(e)'
  <2>1. \A j \in Link : watch[j].at \in {"scan", "store"} /\ watch[j].changed
              => watch'[j].at \in {"scan", "store"} /\ watch'[j].changed
    BY <1>9, <1>12
  <2>2. QED  BY <1>8, <2>1, SourceStays
<1>18. Told(g, m)'
  <2>1. Source(d)'
    <3>1. watch'[l].at \in {"scan", "store"} /\ watch'[l].changed
      BY <1>9, <1>12
    <3>2. QED  BY <3>1 DEF Source
  <2>2. \A e \in Device : DoneIn(g, m, files'[e], disk'[e]) =>
              DoneIn(g, m, files[e], disk[e]) \/ Source(e)'
    BY <1>8, <1>10, <2>1
  <2>3. QED  BY <1>0, <1>8, <1>10, <1>17, <2>2, KeepTold
<1>19. Fetched(g, m)'
  <2>1. Complete(g, m, files'[d], disk'[d])
    BY <1>6, <1>7, <1>8, <1>10 DEF Complete
  <2>2. \A e \in Device : e # d => files'[e] = files[e] /\ disk'[e] = disk[e]
    BY <1>8, <1>10
  <2>3. QED  BY <1>0, <1>8, <2>1, <2>2 DEF Fetched
<1>20. QED  BY <1>8, <1>10, <1>11, <1>13, <1>14, <1>15, <1>16, <1>18, <1>19, EpochStep
\* directory_changed, while all connections are established.
LEMMA AnnouncesToAll ==
    ASSUME Inv, NEW g, EpochRest(g), NEW d \in Device, sends' = DirectoryChanged(d)
    PROVE  /\ \A l \in Link : l[1] = d => sends'[l] > 0
           /\ \A l \in Link : l[1] # d => sends'[l] = sends[l]
<1>1. up = Link /\ \A l \in Link : sends[l] \in Nat
  BY DEF Inv, TypeOK, EpochRest
<1>2. \A l \in Link : sends'[l] = IF l[1] = d THEN sends[l] + 1 ELSE sends[l]
  BY <1>1 DEF DirectoryChanged
<1>3. QED  BY <1>1, <1>2

LEMMA ScanEndEpoch ==
    ASSUME NEW g, NEW m, Epoch(g, m), Inv, NEW l \in Link, ScanEnd(l)
    PROVE  Epoch(g, m)'
<1> DEFINE d == l[1]
           k == watch[l]
           b == [WatchOff EXCEPT !.at = "idle", !.live = TRUE, !.event = k.event]
<1>0. /\ LogOK(g, m) /\ EpochFiles(g, m) /\ EpochWatch(g, m) /\ EpochRest(g)
      /\ EpochSends(g, m) /\ EpochIdx(g, m) /\ EpochTask(g, m)
      /\ Scanned(g, m) /\ Told(g, m) /\ Fetched(g, m)
  BY EpochParts
<1>1. /\ k.at = "scan" /\ k.left = {}
      /\ UNCHANGED <<disk, files, task, idx, up, written, overrun>>
  BY DEF ScanEnd
<1>2. d \in Device /\ k \in Watch /\ WatchIn(g, m, k, d, files[d], disk[d])
  BY <1>0, LinkEnds DEF Inv, TypeOK, EpochWatch
<1>3. k.live /\ (k.changed => DoneIn(g, m, files[d], disk[d]))
  BY <1>1, <1>2 DEF WatchIn
<1>4. watch' = [watch EXCEPT ![l] = b]
  BY <1>3 DEF ScanEnd
<1>5. /\ b.at = "idle" /\ b.live = TRUE /\ b.event = k.event
  BY DEF WatchOff
<1> HIDE DEF b
<1>6. \A j \in Link : watch'[j] = IF j = l THEN b ELSE watch[j]
  BY <1>4, WatchPut
<1>7. /\ \A j \in Link : sends[j] > 0 => sends'[j] > 0
      /\ \A j \in Link : sends'[j] > 0 =>
            sends[j] > 0 \/ DoneIn(g, m, files[j[1]], disk[j[1]])
      /\ k.changed => \A j \in Link : j[1] = d => sends'[j] > 0
  <2>1. CASE k.changed
    <3>1. sends' = DirectoryChanged(d)
      BY <2>1 DEF ScanEnd
    <3>2. QED  BY <1>0, <1>2, <1>3, <2>1, <3>1, AnnouncesToAll
  <2>2. CASE ~k.changed
    BY <2>2 DEF ScanEnd
  <2>3. QED  BY <2>1, <2>2
<1>8. Onward(g, m)
  BY <1>1, OnwardSame
<1>9. EpochWatch(g, m)'
  <2>1. WatchIn(g, m, b, d, files[d], disk[d])
    BY <1>1, <1>2, <1>5 DEF WatchIn
  <2>2. QED  BY <1>0, <1>1, <1>6, <1>8, <2>1, KeepEpochWatch
<1>10. EpochSends(g, m)'
  BY <1>0, <1>1, <1>7, <1>8, KeepEpochSends
<1>11. EpochFiles(g, m)' /\ EpochIdx(g, m)' /\ EpochTask(g, m)' /\ Fetched(g, m)'
  BY <1>0, <1>1 DEF EpochFiles, EpochIdx, EpochTask, Fetched
<1>12. Scanned(g, m)'
  <2>1. Finds(m, k) => Finds(m, b)
    BY <1>1, <1>5 DEF Finds
  <2>2. QED  BY <1>0, <1>6, <1>8, <2>1, KeepScanned
<1>13. Told(g, m)'
  <2>1. ASSUME NEW e \in Device, Source(e)
        PROVE  Source(e)' \/ \A j \in Link : j[1] = e => sends'[j] > 0
    <3>1. CASE e = d /\ k.changed
      BY <3>1, <1>7
    <3>2. CASE ~(e = d /\ k.changed)
      <4>1. \A j \in Link : j[1] = e /\ watch[j].at \in {"scan", "store"}
                              /\ watch[j].changed
              => watch'[j].at \in {"scan", "store"} /\ watch'[j].changed
        BY <1>6, <3>2
      <4>2. QED  BY <1>1, <2>1, <4>1, SourceStays
    <3>3. QED  BY <3>1, <3>2
  <2>2. QED  BY <1>0, <1>1, <1>7, <1>8, <2>1, KeepTold
<1>14. QED
  BY <1>1, <1>8, <1>9, <1>10, <1>11, <1>12, <1>13, EpochStep

\* All watchers run: none starts.
LEMMA NoWatchStart ==
    ASSUME NEW g, NEW m, Epoch(g, m), NEW l \in Link
    PROVE  ~WatchStart(l)
<1>1. WatchIn(g, m, watch[l], l[1], files[l[1]], disk[l[1]])
  BY EpochParts DEF EpochWatch
<1>2. QED  BY <1>1 DEF WatchStart, WatchIn

LEMMA WatchStepEpoch ==
    ASSUME NEW g, NEW m, Epoch(g, m), Inv, NEW l \in Link, WatchStep(l)
    PROVE  Epoch(g, m)'
  BY GenerateIndexEpoch, ScanFileEpoch, ScanStoreEpoch, ScanEndEpoch,
     NoWatchStart DEF WatchStep
-----------------------------------------------------------------------------
(***************************************************************************)
(* The steps of Index messages.                                            *)
(***************************************************************************)
\* A device that is done can send an Index, and it tells of the last edit.
LEMMA IndexTells ==
    ASSUME NEW g, NEW m, LogOK(g, m), Inv, NEW d \in Device,
           TableIn(g, m, files[d], disk[d]), DiskIn(g, m, d, disk[d]),
           DoneIn(g, m, files[d], disk[d])
    PROVE  /\ CanSendIndex(d)
           /\ MsgIn(g, m, IndexOf(d)) /\ Tells(g, m, IndexOf(d), 1)
<1> DEFINE rows == files[d]
           msg == IndexOf(d)
           i == FindFile(rows, m)
<1>1. RowsOK(rows) /\ rows \in Seq(File) /\ Len(rows) \in Nat
  BY DEF Inv, RowsOK
<1>2. /\ HasRow(rows, m) /\ Len(rows[i].versions) = Len(g[m])
      /\ disk[d][m] = Newest(g, m)
  BY DEF DoneIn, FreshIn
<1>3. m \in Name /\ \A n \in Name : g[n] # <<>> => Newest(g, n) # Absent
  BY LogFacts
<1>4. ASSUME NEW j \in 1..Len(rows) PROVE disk[d][rows[j].name] # Absent
  <2> DEFINE n == rows[j].name
  <2>1. n \in Name /\ Len(rows[j].versions) \in Nat /\ Len(rows[j].versions) >= 1
    BY <1>1, RowFacts DEF RowsOK
  <2>2. Len(rows[j].versions) <= Len(g[n])
    BY DEF TableIn, RowIn, Follows
  <2>3. Len(g[n]) \in Nat /\ (g[n] = <<>> => Len(g[n]) = 0)
    BY <2>1, LogFacts
  <2> DEFINE v == Len(rows[j].versions)
             z == Len(g[n])
  <2>4. z # 0
    <3>1. v \in Nat /\ v >= 1 /\ v <= z /\ z \in Nat
      BY <2>1, <2>2, <2>3
    <3> HIDE DEF v, z
    <3>2. QED  BY <3>1
  <2>5. g[n] # <<>>
    BY <2>3, <2>4
  <2> HIDE DEF n
  <2>6. disk[d][n] = Newest(g, n)
    BY <1>2, <2>1, <2>5 DEF DiskIn
  <2>7. QED  BY <1>3, <2>1, <2>5, <2>6 DEF n
<1>5. CanSendIndex(d)
  BY <1>4 DEF CanSendIndex
<1>6. /\ Len(msg) = Len(rows)
      /\ \A j \in 1..Len(rows) :
            /\ msg[j].name = rows[j].name /\ msg[j].versions = rows[j].versions
            /\ msg[j].blocks = GenBlocks(disk[d][rows[j].name])
  <2>1. /\ DOMAIN msg = 1..Len(rows)
        /\ \A j \in 1..Len(rows) :
            /\ msg[j].name = rows[j].name /\ msg[j].versions = rows[j].versions
            /\ msg[j].blocks = GenBlocks(disk[d][rows[j].name])
    BY DEF IndexOf
  <2>2. msg \in Seq(FileInfo)
    BY <1>5, IndexOfOK, InvParts DEF InfosOK
  <2> HIDE DEF msg
  <2>3. Len(msg) = Len(rows)
    BY <1>1, <2>1, <2>2
  <2>4. QED  BY <2>1, <2>3
<1> HIDE DEF msg
<1>7. MsgIn(g, m, msg)
  <2>1. \A j \in 1..Len(rows) : Follows(g, rows[j].name, rows[j].versions)
    BY DEF TableIn, RowIn
  <2>2. QED  BY <1>2, <1>6, <2>1 DEF MsgIn
<1>8. Tells(g, m, msg, 1)
  <2>1. i \in 1..Len(rows) /\ rows[i].name = m
    BY <1>1, <1>2, <1>3, FindFileFirst
  <2> HIDE DEF i
  <2>2. i >= 1
    BY <1>1, <2>1
  <2>3. QED  BY <1>2, <1>6, <2>1, <2>2 DEF Tells
<1>9. QED  BY <1>5, <1>7, <1>8 DEF msg

LEMMA SendIndexEpoch ==
    ASSUME NEW g, NEW m, Epoch(g, m), Inv, NEW l \in Link, SendIndex(l)
    PROVE  Epoch(g, m)'
<1> DEFINE d == l[1]
           msg == IndexOf(d)
<1>0. /\ LogOK(g, m) /\ EpochFiles(g, m) /\ EpochWatch(g, m) /\ EpochRest(g)
      /\ EpochSends(g, m) /\ EpochIdx(g, m) /\ EpochTask(g, m)
      /\ Scanned(g, m) /\ Told(g, m) /\ Fetched(g, m)
  BY EpochParts
<1>1. /\ sends[l] > 0 /\ sends' = [sends EXCEPT ![l] = @ - 1]
      /\ UNCHANGED <<disk, files, watch, task, up, written, overrun>>
  BY DEF SendIndex
<1>2. d \in Device /\ DoneIn(g, m, files[d], disk[d])
  BY <1>0, <1>1, LinkEnds DEF EpochSends
<1>3. CanSendIndex(d) /\ MsgIn(g, m, msg) /\ Tells(g, m, msg, 1)
  BY <1>0, <1>2, IndexTells DEF EpochFiles
<1>4. idx' = [idx EXCEPT ![l] = Append(idx[l], msg)]
  BY <1>3 DEF SendIndex
<1>5. msg \in Seq(FileInfo)
  BY <1>2, <1>3, IndexOfOK, InvParts DEF InfosOK
<1> HIDE DEF msg
<1>6. idx[l] \in Seq(Seq(FileInfo))
  BY DEF Inv, TypeOK
<1>7. /\ \A j \in Link : j # l => idx'[j] = idx[j] /\ sends'[j] = sends[j]
      /\ idx'[l] = Append(idx[l], msg)
  BY <1>1, <1>4 DEF Inv, TypeOK
<1> DEFINE q == idx[l]
<1>8. idx'[l] # <<>>
  <2>1. q \in Seq(Seq(FileInfo)) /\ idx'[l] = Append(q, msg)
    BY <1>6, <1>7
  <2> HIDE DEF q
  <2>2. Len(idx'[l]) = Len(q) + 1 /\ Len(q) \in Nat
    BY <1>5, <2>1
  <2>3. Len(<<>>) = 0 /\ Len(q) + 1 # 0
    BY <2>2
  <2>4. QED  BY <2>2, <2>3
<1>9. Onward(g, m)
  BY <1>1, OnwardSame
<1>10. EpochSends(g, m)'
  <2>1. DoneIn(g, m, files'[d], disk'[d])
    BY <1>1, <1>2
  <2>2. QED  BY <1>0, <1>7, <1>9, <2>1, KeepEpochSends
<1>11. EpochIdx(g, m)'
  <2>1. ASSUME NEW j \in Link, NEW i \in 1..Len(idx'[j])
        PROVE  MsgIn(g, m, idx'[j][i]) /\ Tells(g, m, idx'[j][i], 1)
    <3>1. CASE j # l
      BY <1>0, <1>7, <3>1 DEF EpochIdx
    <3>2. CASE j = l
      <4>1. idx'[j][i] = msg \/ (i \in 1..Len(idx[l]) /\ idx'[j][i] = idx[l][i])
        <5>1. /\ q \in Seq(Seq(FileInfo)) /\ idx'[j] = Append(q, msg)
              /\ i \in 1..Len(idx'[j])
          BY <1>6, <1>7, <3>2
        <5> HIDE DEF q
        <5>2. idx'[j][i] = msg \/ (i \in 1..Len(q) /\ idx'[j][i] = q[i])
          BY <1>5, <5>1
        <5>3. QED  BY <5>2 DEF q
      <4>2. QED  BY <1>0, <1>3, <4>1 DEF EpochIdx
    <3>3. QED  BY <3>1, <3>2
  <2>2. QED  BY <2>1 DEF EpochIdx
<1>12. /\ EpochFiles(g, m)' /\ EpochWatch(g, m)' /\ EpochTask(g, m)'
       /\ Scanned(g, m)' /\ Fetched(g, m)'
  BY <1>0, <1>1 DEF EpochFiles, EpochWatch, EpochTask, Scanned, Fetched
<1>13. Told(g, m)'
  <2>1. \A e \in Device : Source(e) => Source(e)'
    BY <1>1, SourceStays
  <2>2. QED  BY <1>0, <1>1, <1>7, <1>8, <1>9, <2>1, KeepTold
<1>14. QED
  BY <1>1, <1>9, <1>10, <1>11, <1>12, <1>13, EpochStep

\* What is left after a message was taken was there before.
LEMMA RemoveKeeps ==
    ASSUME NEW S, NEW q \in Seq(S), NEW k \in 1..Len(q)
    PROVE  LET r == RemoveIndexAt(q, k)
           IN  \A i \in 1..Len(r) : \E j \in 1..Len(q) : r[i] = q[j]
<1> DEFINE r == RemoveIndexAt(q, k)
<1>1. Len(q) \in Nat /\ Len(q) >= 1
  OBVIOUS
<1>2. r \in [1..(Len(q) - 1) -> S]
  BY <1>1 DEF RemoveIndexAt
<1>3. Len(r) = Len(q) - 1
  BY <1>1, <1>2, FunIsSeq
<1>4. ASSUME NEW i \in 1..(Len(q) - 1)
      PROVE  \E j \in 1..Len(q) : r[i] = q[j]
  <2>1. i \in 1..Len(q) /\ i + 1 \in 1..Len(q)
    BY <1>1
  <2>2. r[i] = q[i] \/ r[i] = q[i + 1]
    BY DEF RemoveIndexAt
  <2>3. QED  BY <2>1, <2>2
<1>5. QED  BY <1>3, <1>4

LEMMA HandleIndexEpoch ==
    ASSUME NEW g, NEW m, Epoch(g, m), Inv, NEW d \in Device, NEW w \in Worker,
           NEW p \in Device, NEW k, HandleIndex(d, w, p, k)
    PROVE  Epoch(g, m)'
<1> DEFINE l == <<p, d>>
           q == idx[l]
           t == task[d][w]
           n == [t EXCEPT !.at = "index", !.peer = p, !.live = TRUE,
                          !.snap = files[d], !.pos = 1, !.msg = q[k]]
<1>0. /\ LogOK(g, m) /\ EpochFiles(g, m) /\ EpochWatch(g, m) /\ EpochRest(g)
      /\ EpochSends(g, m) /\ EpochIdx(g, m) /\ EpochTask(g, m)
      /\ Scanned(g, m) /\ Told(g, m) /\ Fetched(g, m)
  BY EpochParts
<1>1. /\ l \in Link /\ l[1] = p /\ l[2] = d
      /\ t.at = "idle" /\ k \in 1..Len(q)
  BY DEF HandleIndex
<1>2. /\ task' = [task EXCEPT ![d][w] = n]
      /\ UNCHANGED <<disk, files, watch, sends, up, written, overrun>>
  BY DEF HandleIndex, GetSyncFiles
<1>3. t \in Task /\ q \in Seq(Seq(FileInfo))
  BY <1>1 DEF Inv, TypeOK
<1>4. /\ n.at = "index" /\ n.peer = p /\ n.live = TRUE /\ n.snap = files[d]
      /\ n.pos = 1 /\ n.msg = q[k] /\ n.changed = t.changed
  BY <1>3 DEF Task
<1> HIDE DEF n
<1>5. \A e \in Device, v \in Worker :
         task'[e][v] = IF e = d /\ v = w THEN n ELSE task[e][v]
  BY <1>2 DEF Inv, TypeOK
<1>6. /\ \A j \in Link : j # l => idx'[j] = idx[j]
      /\ \A i \in 1..Len(idx'[l]) : \E h \in 1..Len(q) : idx'[l][i] = q[h]
  <2>1. idx' = [idx EXCEPT ![l] = RemoveIndexAt(q, k)]
    BY DEF HandleIndex
  <2>2. idx'[l] = RemoveIndexAt(q, k) /\ \A j \in Link : j # l => idx'[j] = idx[j]
    BY <1>1, <2>1 DEF Inv, TypeOK
  <2> HIDE DEF q
  <2>3. QED  BY <1>1, <1>3, <2>2, RemoveKeeps
<1>7. q # <<>>
  <2> HIDE DEF q
  <2>1. Len(<<>>) = 0 /\ ~(k \in 1..0)
    OBVIOUS
  <2>2. QED  BY <1>1, <2>1
<1>8. DoneIn(g, m, files[p], disk[p])
  BY <1>0, <1>1, <1>7 DEF EpochSends
<1>9. MsgIn(g, m, q[k]) /\ Tells(g, m, q[k], 1)
  BY <1>0, <1>1 DEF EpochIdx
<1>10. ~t.changed
  BY <1>0, <1>1 DEF EpochTask, TaskIn
<1>11. Onward(g, m)
  BY <1>2, OnwardSame
<1>12. TaskIn(g, m, n, files[d], disk[d], disk[n.peer])
  <2>1. TableIn(g, m, files[d], disk[d])
    BY <1>0 DEF EpochFiles
  <2>2. QED
    BY <1>4, <1>8, <1>9, <1>10, <2>1 DEF TaskIn, SnapIn, DoneIn, Fetches, Downloading
<1>13. EpochTask(g, m)'
  <2>1. task'[d][w] = n
    BY <1>5
  <2>2. \A e \in Device, v \in Worker :
           \/ task'[e][v] = task[e][v]
           \/ TaskIn(g, m, task'[e][v], files'[e], disk'[e], disk'[task'[e][v].peer])
    BY <1>2, <1>5, <1>12, <2>1
  <2>3. QED  BY <1>0, <1>11, <2>2, KeepEpochTask
<1>14. EpochSends(g, m)'
  BY <1>0, <1>2, <1>6, <1>7, <1>11, KeepEpochSends
<1>15. EpochIdx(g, m)'
  BY <1>0, <1>1, <1>6 DEF EpochIdx
<1>16. EpochFiles(g, m)' /\ EpochWatch(g, m)' /\ Scanned(g, m)'
  BY <1>0, <1>2 DEF EpochFiles, EpochWatch, Scanned
<1>17. Told(g, m)'
  <2>1. Hears(g, m, n) /\ ~Announces(t) /\ ~Hears(g, m, t)
    BY <1>1, <1>4, <1>9 DEF Hears, Announces, Fetches
  <2>2. \A e \in Device : Source(e) => Source(e)'
    <3>1. \A e \in Device, v \in Worker : Announces(task[e][v]) => Announces(task'[e][v])
      BY <1>5, <2>1
    <3>2. QED  BY <1>2, <3>1, SourceStays
  <2>3. \A e \in Device, v \in Worker : Hears(g, m, task[e][v]) =>
              \/ FreshIn(g, m, files'[e])
              \/ \E u \in Worker : Hears(g, m, task'[e][u])
    BY <1>5, <2>1
  <2>4. \A j \in Link : sends[j] > 0 \/ idx[j] # <<>> =>
              \/ sends'[j] > 0 \/ idx'[j] # <<>>
              \/ \E v \in Worker : Hears(g, m, task'[j[2]][v])
    <3>1. Hears(g, m, task'[l[2]][w])
      BY <1>1, <1>5, <2>1
    <3>2. QED  BY <1>2, <1>6, <3>1
  <2>5. QED  BY <1>0, <1>2, <1>11, <2>2, <2>3, <2>4, KeepTold
<1>18. Fetched(g, m)'
  <2>1. ~Due(g, m, t, disk[d])
    BY <1>1 DEF Due, Fetches
  <2>2. \A e \in Device, v \in Worker : Due(g, m, task[e][v], disk[e]) =>
              \E u \in Worker : Due(g, m, task'[e][u], disk'[e])
    BY <1>2, <1>5, <2>1
  <2>3. QED  BY <1>0, <1>2, <1>11, <2>2, KeepFetched
<1>19. QED
  BY <1>2, <1>11, <1>13, <1>14, <1>15, <1>16, <1>17, <1>18, EpochStep
-----------------------------------------------------------------------------
(***************************************************************************)
(* The steps of handlers.                                                  *)
(***************************************************************************)
\* The row that an announcement of the last edit gets.
LEMMA OneBlock ==
    ASSUME NEW c \in Content, Len(c) = 1
    PROVE  /\ Len(GenBlocks(c)) = 1 /\ GenBlocks(c) # <<>>
           /\ GenBlocks(c)[1].offset = 0 /\ GenBlocks(c)[1].hash = c
           /\ c = <<c[1]>>
<1>1. c \in Seq(Block) /\ c[1] \in Block
  BY DEF Content
<1>2. c = <<c[1]>>
  BY <1>1
<1>3. GenBlocks(c) = [k \in 1..1 |-> [offset |-> k - 1, hash |-> <<c[k]>>]]
  BY DEF GenBlocks, BlockHash
<1>4. /\ GenBlocks(c)[1] = [offset |-> 0, hash |-> <<c[1]>>]
      /\ DOMAIN GenBlocks(c) = 1..1
  BY <1>3
<1>5. GenBlocks(c) \in [1..1 -> {GenBlocks(c)[1]}]
  BY <1>3
<1>6. Len(GenBlocks(c)) = 1
  BY <1>5, FunIsSeq
<1>7. GenBlocks(c) # <<>>
  BY <1>6
<1>8. QED  BY <1>2, <1>4, <1>6, <1>7

LEMMA AnnouncedFull ==
    ASSUME NEW g, NEW m, LogOK(g, m), NEW msg, MsgIn(g, m, msg),
           NEW i \in 1..Len(msg), msg[i].name = m, Len(msg[i].versions) = Len(g[m]),
           NEW row, row.name = m, row.versions = msg[i].versions,
           row.blocks = msg[i].blocks, row.hash = msg[i].blocks[1].hash
    PROVE  FullRow(g, m, row)
<1>1. /\ Follows(g, m, msg[i].versions)
      /\ msg[i].blocks = GenBlocks(Newest(g, m))
  BY DEF MsgIn
<1>2. Newest(g, m) \in Content /\ Len(Newest(g, m)) = 1
  BY LogFacts DEF LogOK
<1>3. row.hash = Newest(g, m)
  BY <1>1, <1>2, OneBlock
<1>4. ~(Len(row.versions) < Len(g[row.name]))
  <2> DEFINE z == Len(g[m])
  <2>1. z \in Nat /\ Len(row.versions) = z
    BY LogFacts
  <2> HIDE DEF z
  <2>2. ~(Len(row.versions) < z)
    BY <2>1
  <2>3. QED  BY <2>2 DEF z
<1>5. QED  BY <1>1, <1>3, <1>4 DEF FullRow, RowIn

\* A handler that stores a row with the last edit, and goes on.
LEMMA HandlerStoreEpoch ==
    ASSUME NEW g, NEW m, Epoch(g, m), Inv, NEW d \in Device, NEW w \in Worker,
           NEW new, NEW t,
           files' = [files EXCEPT ![d] = new], task' = [task EXCEPT ![d][w] = t],
           UNCHANGED <<disk, watch, sends, idx, up, written, overrun>>,
           TableIn(g, m, new, disk[d]), FreshIn(g, m, new),
           TaskIn(g, m, t, new, disk[d], disk[t.peer]), Announces(t),
           Complete(g, m, new, disk[d]) \/ Due(g, m, t, disk[d])
    PROVE  Epoch(g, m)'
<1>0. /\ LogOK(g, m) /\ EpochFiles(g, m) /\ EpochWatch(g, m) /\ EpochRest(g)
      /\ EpochSends(g, m) /\ EpochIdx(g, m) /\ EpochTask(g, m)
      /\ Scanned(g, m) /\ Told(g, m) /\ Fetched(g, m)
  BY EpochParts
<1>1. /\ Onward(g, m) /\ files'[d] = new
      /\ \A e \in Device : e # d => files'[e] = files[e]
  BY OnwardPut
<1>2. \A e \in Device, v \in Worker :
         task'[e][v] = IF e = d /\ v = w THEN t ELSE task[e][v]
  BY DEF Inv, TypeOK
<1>3. EpochFiles(g, m)'
  BY <1>0, <1>1, KeepEpochFiles
<1>4. EpochWatch(g, m)' /\ EpochSends(g, m)' /\ EpochIdx(g, m)' /\ Scanned(g, m)'
  <2>1. EpochWatch(g, m)'
    BY <1>0, <1>1, KeepEpochWatch
  <2>2. EpochSends(g, m)'
    BY <1>0, <1>1, KeepEpochSends
  <2>3. EpochIdx(g, m)'
    BY <1>0 DEF EpochIdx
  <2>4. Scanned(g, m)'
    BY <1>0, <1>1, KeepScanned
  <2>5. QED  BY <2>1, <2>2, <2>3, <2>4
<1>5. task'[d][w] = t
  BY <1>2
<1>6. EpochTask(g, m)'
  <2>1. \A e \in Device, v \in Worker :
           \/ task'[e][v] = task[e][v]
           \/ TaskIn(g, m, task'[e][v], files'[e], disk'[e], disk'[task'[e][v].peer])
    BY <1>1, <1>2, <1>5
  <2>2. QED  BY <1>0, <1>1, <2>1, KeepEpochTask
<1>7. Told(g, m)'
  <2>1. Source(d)'
    BY <1>5 DEF Source
  <2>2. \A e \in Device : Source(e) => Source(e)'
    <3>1. \A e \in Device, v \in Worker : Announces(task[e][v]) => Announces(task'[e][v])
      BY <1>2
    <3>2. QED  BY <3>1, SourceStays
  <2>3. \A e \in Device : DoneIn(g, m, files'[e], disk'[e]) =>
              DoneIn(g, m, files[e], disk[e]) \/ Source(e)'
    BY <1>1, <2>1
  <2>4. \A e \in Device, v \in Worker : Hears(g, m, task[e][v]) =>
              \/ FreshIn(g, m, files'[e])
              \/ \E u \in Worker : Hears(g, m, task'[e][u])
    BY <1>1, <1>2
  <2>5. QED  BY <1>0, <1>1, <2>2, <2>3, <2>4, KeepTold
<1>8. Fetched(g, m)'
  <2>1. ASSUME NEW e \in Device, FreshIn(g, m, files'[e])
        PROVE  \/ Complete(g, m, files'[e], disk'[e])
               \/ \E v \in Worker : Due(g, m, task'[e][v], disk'[e])
    <3>1. CASE e = d
      BY <1>1, <1>5, <3>1
    <3>2. CASE e # d
      <4>1. files'[e] = files[e] /\ \A v \in Worker : task'[e][v] = task[e][v]
        BY <1>1, <1>2, <3>2
      <4>2. QED  BY <1>0, <2>1, <4>1 DEF Fetched
    <3>3. QED  BY <3>1, <3>2
  <2>2. QED  BY <2>1 DEF Fetched
<1>9. QED  BY <1>1, <1>3, <1>4, <1>6, <1>7, <1>8, EpochStep

\* An announcement that is news for a snapshot is that of the last edit.
LEMMA NewsIsLastEdit ==
    ASSUME NEW g, NEW m, LogOK(g, m), NEW snap, RowsOK(snap), NEW dk,
           TableIn(g, m, snap, dk), NEW info, InfoOK(info),
           Follows(g, info.name, info.versions), ~UpToDate(snap, info)
    PROVE  /\ info.name = m /\ Len(info.versions) = Len(g[m])
           /\ FindFile(snap, m) = 0 => Len(g[m]) = 1
           /\ FindFile(snap, m) # 0 =>
                 /\ HasRow(snap, m) /\ Len(g[m]) > 1
                 /\ snap[FindFile(snap, m)].synced = Len(g[m]) - 2
<1> DEFINE n == info.name
           v == Len(info.versions)
           z == Len(g[n])
           i == FindFile(snap, n)
           f == snap[i]
           u == Len(f.versions)
<1>1. n \in Name /\ info.versions \in Seq(Version) /\ info.versions # <<>>
  BY DEF InfoOK, FileInfo, Consecutive
<1>2. /\ v \in Nat /\ v >= 1 /\ v <= z /\ z \in Nat
      /\ g[n] = <<>> => z = 0
  <2>1. v \in Nat /\ v >= 1
    BY <1>1, EmptySeq
  <2>2. v <= z
    BY DEF Follows
  <2>3. QED  BY <1>1, <2>1, <2>2, LogFacts
<1>3. g[n] # <<>>
  <2> HIDE DEF v, z
  <2>1. z # 0
    BY <1>2
  <2>2. QED  BY <1>2, <2>1
<1>4. snap \in Seq(File)
  BY DEF RowsOK
<1>5. HasRow(snap, n) <=> i # 0
  BY <1>1, <1>4, FindFileFinds
<1>6. ASSUME HasRow(snap, n)
      PROVE  n = m /\ u = z - 1 /\ v = z /\ f.synced = z - 2 /\ z > 1
  <2>1. f.name = n /\ RowOK(f) /\ RowIn(g, f) /\ FirstIn(g, m, f)
    BY <1>1, <1>6, FirstFacts
  <2>2. u \in Nat /\ u >= 1
    BY <2>1, RowFacts
  <2>3. ~(u >= v)
    BY <1>6 DEF UpToDate
  <2>4. u = z \/ (n = m /\ u = z - 1)
    BY <2>1 DEF FirstIn
  <2>5. u < z => f.synced = u - 1
    BY <2>1 DEF RowIn
  <2> HIDE DEF u, v, z, f, n
  <2>6. QED  BY <1>2, <2>2, <2>3, <2>4, <2>5
<1>7. CASE ~HasRow(snap, n)
  <2>1. n = m /\ ~(z > 1)
    BY <1>1, <1>3, <1>7 DEF TableIn
  <2>2. i = 0
    BY <1>5, <1>7
  <2> HIDE DEF z, v, i, n
  <2>3. z = 1 /\ v = z
    BY <1>2, <2>1
  <2>4. QED  BY <2>1, <2>2, <2>3 DEF z, v, i, n
<1>8. CASE HasRow(snap, n)
  <2>1. n = m /\ v = z /\ z > 1 /\ f.synced = z - 2 /\ i # 0
    BY <1>5, <1>6, <1>8
  <2>2. QED  BY <1>8, <2>1
<1>9. QED  BY <1>7, <1>8

LEMMA IndexFileEpoch ==
    ASSUME NEW g, NEW m, Epoch(g, m), Inv, NEW d \in Device, NEW w \in Worker,
           IndexFile(d, w)
    PROVE  Epoch(g, m)'
<1> DEFINE t == task[d][w]
           info == t.msg[t.pos]
           i == FindFile(t.snap, info.name)
           row == IF i = 0 THEN AnnouncedNew(info) ELSE Announced(t.snap[i], info)
           rows == files[d]
           dk == disk[d]
           fit == VersionsFit(rows, i, row)
           snap == IF i = 0 THEN t.snap ELSE [t.snap EXCEPT ![i] = row]
           new == UpdateSyncFile(rows, i, row)
<1>0. LogOK(g, m) /\ EpochFiles(g, m) /\ EpochTask(g, m)
  BY EpochParts
<1>1. /\ t \in Task /\ TaskOK(t, rows) /\ RowsOK(rows)
      /\ TaskIn(g, m, t, rows, dk, disk[t.peer]) /\ TableIn(g, m, rows, dk)
  BY <1>0 DEF Inv, TypeOK, EpochTask, EpochFiles
<1>2. t.at = "index" /\ t.pos <= Len(t.msg)
  BY Zenon DEF IndexFile
<1>3. /\ t.pos \in 1..Len(t.msg) /\ InfoOK(info) /\ t.pos \in Nat
      /\ Len(t.msg) \in Nat
  <2>1. t.pos \in 1..Len(t.msg) /\ t.pos \in Nat /\ Len(t.msg) \in Nat
    BY <1>1, <1>2 DEF TaskOK, Task
  <2>2. QED  BY <1>1, <2>1, InfoFields DEF TaskOK, InfosOK
<1>4. SnapOf(t.snap, rows) /\ RowsOK(t.snap) /\ t.snap \in Seq(File)
  BY <1>1 DEF TaskOK, SnapOf, RowsOK
<1>5. /\ TableIn(g, m, t.snap, dk) /\ MsgIn(g, m, t.msg)
      /\ FreshIn(g, m, t.snap) => FreshIn(g, m, rows)
      /\ t.live /\ disk[t.peer][m] = Newest(g, m)
      /\ t.changed => FreshIn(g, m, rows)
  BY <1>1, <1>2 DEF TaskIn, SnapIn
<1>6. Follows(g, info.name, info.versions)
  BY <1>3, <1>5 DEF MsgIn
<1>7. CASE UpToDate(t.snap, info)
  <2> DEFINE n == [t EXCEPT !.pos = t.pos + 1]
  <2>1. /\ n.at = t.at /\ n.pos = t.pos + 1 /\ n.snap = t.snap /\ n.msg = t.msg
        /\ n.live = t.live /\ n.peer = t.peer /\ n.changed = t.changed
    BY <1>1 DEF Task
  <2>2. /\ task' = [task EXCEPT ![d][w] = n]
        /\ UNCHANGED <<disk, files, watch, sends, idx, up, written, overrun>>
    BY <1>7 DEF IndexFile
  <2> HIDE DEF n
  <2>3. TaskIn(g, m, n, rows, dk, disk[n.peer])
    BY <1>1, <1>2, <2>1 DEF TaskIn, Fetches, Downloading
  <2>4. Announces(t) => Announces(n)
    BY <1>2, <2>1 DEF Announces, Fetches
  <2>5. Due(g, m, t, dk) => Due(g, m, n, dk)
    BY <1>2, <2>1 DEF Due, Fetches
  <2>6. ASSUME Hears(g, m, t) PROVE FreshIn(g, m, rows) \/ Hears(g, m, n)
    <3>1. PICK j \in 1..Len(t.msg) : /\ j >= t.pos /\ t.msg[j].name = m
                                     /\ Len(t.msg[j].versions) = Len(g[m])
      BY <2>6 DEF Hears, Tells
    <3>2. CASE j # t.pos
      <4>1. j >= n.pos
        BY <1>3, <2>1, <3>1, <3>2
      <4>2. QED  BY <1>2, <2>1, <3>1, <4>1 DEF Hears, Tells
    <3>3. CASE j = t.pos
      <4> DEFINE f == t.snap[FindFile(t.snap, m)]
                 u == Len(f.versions)
                 z == Len(g[m])
      <4>1. HasRow(t.snap, m) /\ u >= z
        BY <1>7, <3>1, <3>3 DEF UpToDate
      <4>2. f.name = m /\ RowOK(f) /\ RowIn(g, f)
        BY <1>0, <1>4, <1>5, <4>1, FirstFacts DEF LogOK
      <4>3. u <= z /\ u \in Nat /\ z \in Nat
        BY <1>0, <4>2, RowFacts, LogFacts DEF RowIn, Follows
      <4> HIDE DEF u, z
      <4>4. u = z
        BY <4>1, <4>3
      <4>5. FreshIn(g, m, t.snap)
        BY <4>1, <4>4 DEF FreshIn, u, z
      <4>6. QED  BY <1>5, <4>5
    <3>4. QED  BY <3>2, <3>3
  <2>7. QED  BY <2>2, <2>3, <2>4, <2>5, <2>6, HandlerEpoch
<1>8. CASE ~UpToDate(t.snap, info)
  <2> DEFINE z == Len(g[m])
  <2>1. /\ info.name = m /\ Len(info.versions) = z
        /\ i = 0 => z = 1
        /\ i # 0 => HasRow(t.snap, m) /\ z > 1 /\ t.snap[i].synced = z - 2
    <3> HIDE DEF info
    <3>1. QED  BY <1>0, <1>3, <1>4, <1>5, <1>6, <1>8, NewsIsLastEdit
  <2>2. /\ row.name = m /\ row.versions = info.versions
        /\ row.blocks = info.blocks /\ row.hash = info.blocks[1].hash
        /\ row.synced = IF i = 0 THEN 0 ELSE t.snap[i].synced
    <3>1. CASE i = 0
      BY <2>1, <3>1 DEF AnnouncedNew
    <3>2. CASE i # 0
      <4>1. t.snap[i].name = m
        BY <1>4, <2>1, <3>2, <1>0, <1>5, FirstFacts DEF LogOK
      <4>2. QED  BY <3>2, <4>1 DEF Announced
    <3>3. QED  BY <3>1, <3>2
  <2>3. RowOK(row)
    <3>1. CASE i = 0
      BY <1>3, <3>1, AnnouncedNewOK
    <3>2. CASE i # 0
      <4> DEFINE f == t.snap[i]
      <4>1. RowOK(f)
        BY <1>4, <2>1, <3>2, <1>0, <1>5, FirstFacts DEF LogOK
      <4>2. ~(Len(f.versions) >= Len(info.versions))
        BY <1>8, <2>1, <3>2, Zenon DEF UpToDate
      <4> HIDE DEF f, info
      <4>3. f.versions \in Seq(Version) /\ info.versions \in Seq(Version)
        BY <1>3, <4>1, InfoFields DEF RowOK, File
      <4>4. Len(f.versions) < Len(info.versions)
        BY <4>2, <4>3, LenProperties
      <4>5. RowOK(Announced(f, info))
        BY <1>3, <4>1, <4>4, AnnouncedOK
      <4>6. QED  BY <3>2, <4>5 DEF f
    <3>3. QED  BY <3>1, <3>2, Zenon
  <2>4. FullRow(g, m, row)
    <3> HIDE DEF row
    <3>1. QED  BY <1>0, <1>3, <1>5, <2>1, <2>2, AnnouncedFull
  <2>5. ~(row.synced = z - 1 /\ z > 1)
    <3>1. z \in Nat
      BY <1>0, LogFacts
    <3> HIDE DEF row, z, i
    <3>2. QED  BY <2>1, <2>2, <3>1
  <2>i. i = FindFile(t.snap, m)
    BY <2>1
  <2> HIDE DEF row, i
  <2>6. /\ fit /\ TableIn(g, m, new, dk) /\ FreshIn(g, m, new)
        /\ TableIn(g, m, snap, dk)
    <3> HIDE DEF rows, dk, t
    <3>1. LET j == FindFile(t.snap, m)
              n == UpdateSyncFile(rows, j, row)
          IN  /\ VersionsFit(rows, j, row)
              /\ TableIn(g, m, n, dk) /\ FreshIn(g, m, n)
              /\ row.synced = Len(g[m]) - 1 => SyncedIn(g, m, n)
              /\ TableIn(g, m, IF j = 0 THEN t.snap ELSE [t.snap EXCEPT ![j] = row], dk)
      BY <1>0, <1>1, <1>4, <1>5, <2>3, <2>4, <2>5, StoreFull
    <3>2. QED  BY <3>1, <2>i
  <2> DEFINE n == [t EXCEPT !.pos = t.pos + 1, !.changed = TRUE, !.snap = snap]
  <2>7. /\ files' = [files EXCEPT ![d] = new]
        /\ task' = [task EXCEPT ![d][w] = IF fit THEN n ELSE IdleTask(d)]
        /\ overrun' = IF fit THEN overrun ELSE overrun \cup {d}
        /\ UNCHANGED <<disk, watch, sends, idx, up, written>>
    BY <1>8, Zenon DEF IndexFile, row, i
  <2>8. task' = [task EXCEPT ![d][w] = n] /\ overrun' = overrun
    BY <2>6, <2>7
  <2> HIDE DEF snap
  <2>9. /\ n.at = t.at /\ n.snap = snap /\ n.msg = t.msg
        /\ n.live = t.live /\ n.peer = t.peer /\ n.changed = TRUE
    BY <1>1 DEF Task
  <2> HIDE DEF n, new
  <2>10. TaskIn(g, m, n, new, dk, disk[n.peer])
    BY <1>2, <1>5, <2>6, <2>9 DEF TaskIn, SnapIn, Fetches, Downloading
  <2>11. Announces(n) /\ Due(g, m, n, dk)
    BY <1>2, <2>9 DEF Announces, Due
  <2>12. QED  BY <2>6, <2>7, <2>8, <2>10, <2>11, HandlerStoreEpoch
<1>9. QED  BY <1>7, <1>8

LEMMA IdleIn ==
    ASSUME NEW g, NEW m, NEW d, NEW rows, NEW dk, NEW pk
    PROVE  TaskIn(g, m, IdleTask(d), rows, dk, pk)
  BY DEF TaskIn, IdleTask, Fetches, Downloading

LEMMA IndexEndEpoch ==
    ASSUME NEW g, NEW m, Epoch(g, m), Inv, NEW d \in Device, NEW w \in Worker,
           IndexEnd(d, w)
    PROVE  Epoch(g, m)'
<1> DEFINE t == task[d][w]
           rows == files[d]
           dk == disk[d]
           b == [IdleTask(d) EXCEPT !.at = "begin", !.peer = t.peer, !.live = t.live]
<1>1. /\ t.at = "index" /\ t.pos > Len(t.msg)
      /\ UNCHANGED <<disk, files, watch, sends, idx, up, written, overrun>>
  BY DEF IndexEnd
<1>2. t \in Task /\ TaskIn(g, m, t, rows, dk, disk[t.peer])
  BY EpochParts DEF Inv, TypeOK, EpochTask
<1>3. /\ t.live /\ disk[t.peer][m] = Newest(g, m)
      /\ t.changed => FreshIn(g, m, rows)
  BY <1>1, <1>2 DEF TaskIn
<1>4. ~Hears(g, m, t)
  <2>1. t.pos \in Nat /\ t.msg \in Seq(FileInfo)
    BY <1>2 DEF Task
  <2>2. \A i \in 1..Len(t.msg) : ~(i >= t.pos)
    <3> HIDE DEF t
    <3>1. QED  BY <1>1, <2>1
  <2>3. QED  BY <2>2 DEF Hears, Tells
<1>5. CASE t.changed
  <2>1. task' = [task EXCEPT ![d][w] = b]
    BY <1>5 DEF IndexEnd
  <2>2. b.at = "begin" /\ b.peer = t.peer /\ b.live = t.live
    BY DEF IdleTask
  <2> HIDE DEF b
  <2>3. TaskIn(g, m, b, rows, dk, disk[b.peer])
    BY <1>3, <1>5, <2>2 DEF TaskIn, Fetches, Downloading
  <2>4. Announces(b) /\ Due(g, m, b, dk)
    BY <2>2 DEF Announces, Due
  <2>5. QED  BY <1>1, <1>4, <2>1, <2>3, <2>4, HandlerEpoch
<1>6. CASE ~t.changed
  <2>1. task' = [task EXCEPT ![d][w] = IdleTask(d)]
    BY <1>6 DEF IndexEnd
  <2>2. ~Announces(t) /\ ~Due(g, m, t, dk)
    BY <1>1, <1>6 DEF Announces, Due, Fetches
  <2>3. TaskIn(g, m, IdleTask(d), rows, dk, disk[IdleTask(d).peer])
    BY IdleIn
  <2>4. QED  BY <1>1, <1>4, <2>1, <2>2, <2>3, HandlerEpoch
<1>7. QED  BY <1>5, <1>6

\* What a table says to be there is there, if anything is.
LEMMA SyncedIsThere ==
    ASSUME NEW g, NEW m, LogOK(g, m), NEW rows, NEW d, NEW dk,
           TableIn(g, m, rows, dk), DiskIn(g, m, d, dk), FreshIn(g, m, rows),
           SyncedIn(g, m, rows), dk[m] # Absent
    PROVE  dk[m] = Newest(g, m)
<1> DEFINE z == Len(g[m])
<1>1. z \in Nat /\ z >= 1 /\ (z = 1 => Earlier(g, m) = Absent)
  BY LogFacts
<1>2. dk[m] = Newest(g, m) \/ dk[m] = Earlier(g, m)
  BY DEF DiskIn
<1>3. z > 1 => dk[m] = Newest(g, m)
  BY DEF TableIn
<1> HIDE DEF z
<1>4. QED  BY <1>1, <1>2, <1>3

\* Before the first content of m came, there was nothing else to sync.
LEMMA AbsentIsSynced ==
    ASSUME NEW g, NEW m, LogOK(g, m), NEW rows, RowsOK(rows), NEW d, NEW dk,
           DiskIn(g, m, d, dk), dk[m] = Absent, FreshIn(g, m, rows)
    PROVE  Len(g[m]) = 1 /\ SyncedIn(g, m, rows)
<1> DEFINE z == Len(g[m])
           i == FindFile(rows, m)
           f == rows[i]
<1>1. /\ z \in Nat /\ z >= 1 /\ (z > 1 => Earlier(g, m) # Absent) /\ m \in Name
      /\ Newest(g, m) # Absent
  BY LogFacts DEF LogOK
<1>2. dk[m] = Newest(g, m) \/ dk[m] = Earlier(g, m)
  BY DEF DiskIn
<1>3. z = 1
  <2> HIDE DEF z
  <2>1. QED  BY <1>1, <1>2
<1>4. HasRow(rows, m) /\ Len(f.versions) = 1
  BY <1>3 DEF FreshIn
<1>5. i \in 1..Len(rows)
  BY <1>1, <1>4, FindFileFirst DEF RowsOK
<1>6. RowOK(f)
  BY <1>5 DEF RowsOK
<1>7. f.synced \in Nat /\ f.synced < Len(f.versions)
  BY <1>6, RowFacts
<1> HIDE DEF f, z
<1>8. f.synced = 0
  BY <1>4, <1>7
<1>9. QED  BY <1>3, <1>8 DEF SyncedIn, f, z

LEMMA GetDirectoryEpoch ==
    ASSUME NEW g, NEW m, Epoch(g, m), Inv, NEW d \in Device, NEW w \in Worker,
           GetDirectory(d, w)
    PROVE  Epoch(g, m)'
<1> DEFINE t == task[d][w]
           rows == files[d]
           dk == disk[d]
           n == [t EXCEPT !.at = "next", !.pos = 1, !.snap = rows]
           i == FindFile(rows, m)
<1>1. /\ t.at = "begin" /\ task' = [task EXCEPT ![d][w] = n]
      /\ UNCHANGED <<disk, files, watch, sends, idx, up, written, overrun>>
  BY DEF GetDirectory, GetSyncFiles
<1>2. /\ t \in Task /\ TaskIn(g, m, t, rows, dk, disk[t.peer]) /\ LogOK(g, m)
      /\ TableIn(g, m, rows, dk) /\ DiskIn(g, m, d, dk) /\ rows \in Seq(File)
  BY EpochParts DEF Inv, TypeOK, EpochTask, EpochFiles
<1>3. t.live /\ disk[t.peer][m] = Newest(g, m) /\ FreshIn(g, m, rows)
  BY <1>1, <1>2 DEF TaskIn
<1>4. /\ n.at = "next" /\ n.pos = 1 /\ n.snap = rows /\ n.live = t.live
      /\ n.peer = t.peer
  BY <1>2 DEF Task
<1> HIDE DEF n
<1>5. i >= 1 /\ ~(i < 1)
  <2>1. i \in 1..Len(rows) /\ Len(rows) \in Nat
    BY <1>2, <1>3, FindFileFirst DEF FreshIn, LogOK
  <2> HIDE DEF i
  <2>2. QED  BY <2>1
<1>6. TaskIn(g, m, n, rows, dk, disk[n.peer])
  BY <1>2, <1>3, <1>4, <1>5 DEF TaskIn, Fetches, Downloading
<1>7. Announces(n) /\ ~Hears(g, m, t)
  BY <1>1, <1>4 DEF Announces, Fetches, Hears
<1>8. Complete(g, m, rows, dk) \/ Due(g, m, n, dk)
  <2>1. CASE SyncedIn(g, m, rows) /\ dk[m] # Absent
    <3>1. dk[m] = Newest(g, m)
      BY <1>2, <1>3, <2>1, SyncedIsThere
    <3>2. QED  BY <2>1, <3>1 DEF Complete
  <2>2. CASE ~(SyncedIn(g, m, rows) /\ dk[m] # Absent)
    BY <1>4, <1>5, <2>2 DEF Due, Fetches
  <2>3. QED  BY <2>1, <2>2
<1>9. QED  BY <1>1, <1>6, <1>7, <1>8, HandlerEpoch

\* What is fetched is the last edit, and what is not is there.
LEMMA WantedIsLastEdit ==
    ASSUME NEW g, NEW m, LogOK(g, m), NEW snap, RowsOK(snap), NEW d \in Device,
           TableIn(g, m, snap, disk[d]), DiskIn(g, m, d, disk[d]),
           FreshIn(g, m, snap), NEW i \in 1..Len(snap)
    PROVE  /\ Wanted(d, snap[i]) => FullRow(g, m, snap[i])
           /\ ~Wanted(d, snap[i]) /\ i = FindFile(snap, m) =>
                 /\ SyncedIn(g, m, snap) /\ disk[d][m] # Absent
                 /\ disk[d][m] = Newest(g, m)
<1> DEFINE dk == disk[d]
           f == snap[i]
           n == f.name
           v == Len(f.versions)
           z == Len(g[n])
<1>1. RowOK(f) /\ RowIn(g, f) /\ v <= z
  BY DEF RowsOK, TableIn, RowIn, Follows
<1>2. /\ n \in Name /\ v \in Nat /\ v >= 1 /\ f.synced \in Nat
      /\ f.synced < v /\ IndexVersion(f) = v - 1
  BY <1>1, RowFacts
<1>3. z \in Nat /\ (g[n] = <<>> => z = 0) /\ m \in Name
  BY <1>2, LogFacts
<1>4. g[n] # <<>>
  <2> HIDE DEF v, z
  <2>1. z # 0
    BY <1>1, <1>2, <1>3
  <2>2. QED  BY <1>3, <2>1
<1>5. IF FindFile(snap, n) = i THEN FirstIn(g, m, f) ELSE v = 1
  BY DEF TableIn
<1>6. n # m => dk[n] # Absent
  BY <1>2, <1>4, LogFacts DEF DiskIn
<1>7. ASSUME i = FindFile(snap, m) PROVE n = m /\ v = z
  <2>1. HasRow(snap, m)
    BY DEF FreshIn
  <2>2. n = m
    BY <1>3, <1>7, <2>1, FindFileFirst DEF RowsOK
  <2>3. QED  BY <1>7, <2>2 DEF FreshIn
<1>8. ASSUME Wanted(d, f) PROVE FullRow(g, m, f)
  <2>1. dk[n] = Absent \/ f.synced < v - 1
    BY <1>2, <1>8 DEF Wanted
  <2>2. CASE i = FindFile(snap, m)
    BY <1>1, <1>7, <2>2 DEF FullRow
  <2>3. CASE i # FindFile(snap, m) /\ n = m
    <3>1. v = 1
      BY <1>5, <2>3
    <3>2. dk[m] = Absent
      <4> HIDE DEF v
      <4>1. ~(f.synced < v - 1)
        BY <1>2, <3>1
      <4>2. QED  BY <2>1, <2>3, <4>1
    <3>3. Len(g[m]) = 1
      BY <3>2, AbsentIsSynced
    <3>4. QED  BY <1>1, <2>3, <3>1, <3>3 DEF FullRow
  <2>4. CASE n # m
    <3>1. f.synced < v - 1
      BY <1>6, <2>1, <2>4
    <3>2. v # 1
      <4> HIDE DEF v
      <4>1. QED  BY <1>2, <3>1
    <3>3. FirstIn(g, m, f)
      BY <1>5, <3>2
    <3>4. f.synced = v - 1
      BY <2>4, <3>3 DEF FirstIn
    <3> HIDE DEF v
    <3>5. QED  BY <1>2, <3>1, <3>4
  <2>5. QED  BY <2>2, <2>3, <2>4
<1>9. ASSUME ~Wanted(d, f), i = FindFile(snap, m)
      PROVE  SyncedIn(g, m, snap) /\ dk[m] # Absent /\ dk[m] = Newest(g, m)
  <2>1. n = m /\ v = Len(g[m])
    BY <1>7, <1>9
  <2>2. dk[m] # Absent /\ ~(f.synced < v - 1)
    BY <1>2, <1>9, <2>1 DEF Wanted
  <2>3. f.synced = v - 1
    <3> HIDE DEF v
    <3>1. QED  BY <1>2, <2>2
  <2>4. SyncedIn(g, m, snap)
    BY <1>9, <2>1, <2>3 DEF SyncedIn
  <2>5. QED  BY <2>2, <2>4, SyncedIsThere
<1>10. QED  BY <1>8, <1>9

LEMMA GetFileEpoch ==
    ASSUME NEW g, NEW m, Epoch(g, m), Inv, NEW d \in Device, NEW w \in Worker,
           GetFile(d, w)
    PROVE  Epoch(g, m)'
<1> DEFINE t == task[d][w]
           f == t.snap[t.pos]
           rows == files[d]
           dk == disk[d]
           i == FindFile(t.snap, m)
<1>1. /\ t.at = "next" /\ t.pos <= Len(t.snap)
      /\ UNCHANGED <<disk, files, watch, sends, idx, up, written, overrun>>
  BY DEF GetFile
<1>2. /\ t \in Task /\ TaskOK(t, rows) /\ LogOK(g, m)
      /\ TaskIn(g, m, t, rows, dk, disk[t.peer]) /\ DiskIn(g, m, d, dk)
  BY EpochParts DEF Inv, TypeOK, EpochTask, EpochFiles
<1>3. RowsOK(t.snap) /\ t.snap \in Seq(File) /\ t.pos \in Nat /\ t.pos >= 1
  BY <1>1, <1>2 DEF TaskOK, SnapOf, RowsOK, Task
<1>4. /\ t.live /\ disk[t.peer][m] = Newest(g, m) /\ FreshIn(g, m, rows)
      /\ TableIn(g, m, t.snap, dk) /\ FreshIn(g, m, t.snap)
      /\ i < t.pos => dk[m] = Newest(g, m)
  BY <1>1, <1>2 DEF TaskIn, Fetches
<1>5. t.pos \in 1..Len(t.snap)
  <2> HIDE DEF t
  <2>1. QED  BY <1>1, <1>3
<1>6. /\ Wanted(d, f) => FullRow(g, m, f)
      /\ ~Wanted(d, f) /\ t.pos = i =>
            SyncedIn(g, m, t.snap) /\ dk[m] # Absent /\ dk[m] = Newest(g, m)
  <2>1. \A j \in 1..Len(t.snap) :
           /\ Wanted(d, t.snap[j]) => FullRow(g, m, t.snap[j])
           /\ ~Wanted(d, t.snap[j]) /\ j = FindFile(t.snap, m) =>
                 /\ SyncedIn(g, m, t.snap) /\ disk[d][m] # Absent
                 /\ disk[d][m] = Newest(g, m)
    BY <1>2, <1>3, <1>4, WantedIsLastEdit
  <2>2. QED  BY <1>5, <2>1
<1>i. i \in 1..Len(t.snap) /\ i \in Nat
  BY <1>2, <1>3, <1>4, FindFileFirst DEF FreshIn, LogOK
<1>7. CASE ~Wanted(d, f)
  <2> DEFINE n == [t EXCEPT !.pos = t.pos + 1]
  <2>1. task' = [task EXCEPT ![d][w] = n]
    BY <1>7 DEF GetFile
  <2>2. /\ n.at = t.at /\ n.pos = t.pos + 1 /\ n.snap = t.snap /\ n.live = t.live
        /\ n.peer = t.peer
    BY <1>2 DEF Task
  <2> HIDE DEF n
  <2>3. i < n.pos => dk[m] = Newest(g, m)
    <3>1. i < n.pos => i < t.pos \/ i = t.pos
      <4> HIDE DEF i, t
      <4>1. QED  BY <1>3, <1>i, <2>2
    <3>2. QED  BY <1>4, <1>6, <1>7, <3>1
  <2>4. TaskIn(g, m, n, rows, dk, disk[n.peer])
    BY <1>1, <1>4, <2>2, <2>3 DEF TaskIn, Fetches, Downloading
  <2>5. Announces(n) /\ ~Hears(g, m, t)
    BY <1>1, <2>2 DEF Announces, Fetches, Hears
  <2>6. Due(g, m, t, dk) => Due(g, m, n, dk)
    <3>1. ASSUME Due(g, m, t, dk) PROVE Due(g, m, n, dk)
      <4>1. t.pos <= i /\ (~SyncedIn(g, m, t.snap) \/ dk[m] = Absent)
        BY <1>1, <3>1 DEF Due
      <4>2. t.pos # i
        BY <1>6, <1>7, <4>1
      <4>3. n.pos <= i
        <5> HIDE DEF i, t
        <5>1. QED  BY <1>3, <1>i, <2>2, <4>1, <4>2
      <4>4. QED  BY <1>1, <2>2, <4>1, <4>3 DEF Due, Fetches
    <3>2. QED  BY <3>1
  <2>7. QED  BY <1>1, <2>1, <2>4, <2>5, <2>6, HandlerEpoch
<1>8. CASE Wanted(d, f)
  <2> DEFINE n == [t EXCEPT !.at = "asked", !.blk = 1, !.ans = <<>>]
  <2>1. f.blocks # <<>>
    BY <1>3, <1>5 DEF RowsOK, RowOK
  <2>2. task' = [task EXCEPT ![d][w] = Asking(d, t, 1)]
    BY <1>8, <2>1 DEF GetFile
  <2>3. task' = [task EXCEPT ![d][w] = n]
    BY <1>4, <2>2 DEF Asking
  <2>4. /\ n.at = "asked" /\ n.pos = t.pos /\ n.snap = t.snap /\ n.live = t.live
        /\ n.peer = t.peer /\ n.blk = 1
    BY <1>2 DEF Task
  <2> HIDE DEF n
  <2>5. FullRow(g, m, n.snap[n.pos])
    BY <1>6, <1>8, <2>4
  <2>6. TaskIn(g, m, n, rows, dk, disk[n.peer])
    BY <1>4, <2>4, <2>5 DEF TaskIn, Fetches, Downloading
  <2>7. Announces(n) /\ ~Hears(g, m, t)
    BY <1>1, <2>4 DEF Announces, Fetches, Hears
  <2>8. Due(g, m, t, dk) => Due(g, m, n, dk)
    BY <1>1, <2>4 DEF Due, Fetches
  <2>9. QED  BY <1>1, <2>3, <2>6, <2>7, <2>8, HandlerEpoch
<1>9. QED  BY <1>7, <1>8

\* The block that a download asks for is all of the last content.
LEMMA AskedBlock ==
    ASSUME NEW g, NEW m, LogOK(g, m), NEW t, FullRow(g, m, t.snap[t.pos]), t.blk = 1
    PROVE  /\ WantedBlock(t).offset = 0 /\ WantedBlock(t).hash = Newest(g, m)
           /\ t.snap[t.pos].name = m /\ Len(t.snap[t.pos].blocks) = 1
           /\ Newest(g, m) = <<Newest(g, m)[1]>> /\ Newest(g, m) \in Content
           /\ Len(Newest(g, m)) = 1
<1>1. Newest(g, m) \in Content /\ Len(Newest(g, m)) = 1
  BY LogFacts DEF LogOK
<1>2. t.snap[t.pos].name = m /\ t.snap[t.pos].blocks = GenBlocks(Newest(g, m))
  BY DEF FullRow, RowIn
<1>3. QED  BY <1>1, <1>2, OneBlock DEF WantedBlock

LEMMA HandleRequestEpoch ==
    ASSUME NEW g, NEW m, Epoch(g, m), Inv, NEW d \in Device, NEW w \in Worker,
           HandleRequest(d, w)
    PROVE  Epoch(g, m)'
<1> DEFINE t == task[d][w]
           rows == files[d]
           dk == disk[d]
           c == disk[t.peer][t.snap[t.pos].name]
           o == WantedBlock(t).offset
           a == <<Newest(g, m)[1]>>
           n == [t EXCEPT !.at = "answered", !.ans = a]
<1>1. /\ t.at = "asked"
      /\ UNCHANGED <<disk, files, watch, sends, idx, up, written, overrun>>
  BY DEF HandleRequest
<1>2. /\ t \in Task /\ LogOK(g, m) /\ TaskIn(g, m, t, rows, dk, disk[t.peer])
  BY EpochParts DEF Inv, TypeOK, EpochTask
<1>3. /\ t.live /\ disk[t.peer][m] = Newest(g, m) /\ FreshIn(g, m, rows)
      /\ TableIn(g, m, t.snap, dk) /\ FreshIn(g, m, t.snap)
      /\ FindFile(t.snap, m) < t.pos => dk[m] = Newest(g, m)
      /\ FullRow(g, m, t.snap[t.pos]) /\ t.blk = 1
  BY <1>1, <1>2 DEF TaskIn, Fetches, Downloading
<1>4. /\ o = 0 /\ WantedBlock(t).hash = Newest(g, m) /\ c = Newest(g, m)
      /\ Newest(g, m) = a /\ Len(Newest(g, m)) = 1
  BY <1>2, <1>3, AskedBlock
<1>5. CanReadBlock(c, o) /\ ReadBlock(c, o) = Newest(g, m)[1]
  BY <1>4 DEF CanReadBlock, ReadBlock
<1>6. BlockHash(ReadBlock(c, o)) = WantedBlock(t).hash
  BY <1>4, <1>5 DEF BlockHash
<1>7. task' = [task EXCEPT ![d][w] =
                 [t EXCEPT !.at = "answered",
                           !.ans = IF CanReadBlock(c, o)
                                      /\ BlockHash(ReadBlock(c, o)) = WantedBlock(t).hash
                                   THEN <<ReadBlock(c, o)>> ELSE <<>>]]
  BY DEF HandleRequest
<1>8. task' = [task EXCEPT ![d][w] = n]
  <2> HIDE DEF c, o
  <2>1. QED  BY <1>5, <1>6, <1>7
<1> HIDE DEF a
<1>9. /\ n.at = "answered" /\ n.pos = t.pos /\ n.snap = t.snap /\ n.live = t.live
      /\ n.peer = t.peer /\ n.blk = t.blk /\ n.ans = a
  BY <1>2 DEF Task
<1> HIDE DEF n
<1>10. TaskIn(g, m, n, rows, dk, disk[n.peer])
  BY <1>3, <1>9 DEF TaskIn, Fetches, Downloading, a
<1>11. Announces(n) /\ ~Hears(g, m, t)
  BY <1>1, <1>9 DEF Announces, Fetches, Hears
<1>12. Due(g, m, t, dk) => Due(g, m, n, dk)
  BY <1>1, <1>9 DEF Due, Fetches
<1>13. QED  BY <1>1, <1>8, <1>10, <1>11, <1>12, HandlerEpoch

\* A download leaves the last content on disk.
LEMMA WrittenIsNewest ==
    ASSUME NEW g, NEW m, LogOK(g, m), NEW d, NEW dk, DiskIn(g, m, d, dk)
    PROVE  WriteBlock(dk[m], 0, Newest(g, m)[1]) = Newest(g, m)
<1> DEFINE c == dk[m]
           b == Newest(g, m)[1]
<1>1. Newest(g, m) \in Seq(Block) /\ Len(Newest(g, m)) = 1
  BY LogFacts DEF LogOK, Content
<1>2. Newest(g, m) = <<b>>
  BY <1>1
<1>3. c \in Seq(Block) /\ (Len(c) = 0 \/ Len(c) = 1)
  <2>1. c = Newest(g, m) \/ c = Earlier(g, m)
    BY DEF DiskIn
  <2>2. Earlier(g, m) \in Content
    BY LogFacts
  <2>3. Len(Earlier(g, m)) = 0 \/ Len(Earlier(g, m)) = 1
    <3> DEFINE z == Len(g[m])
    <3>1. Earlier(g, m) = IF z = 1 THEN Absent ELSE g[m][z - 1].text
      BY DEF Earlier
    <3>2. z \in Nat /\ z >= 1 /\ \A k \in 1..z : Len(g[m][k].text) = 1
      BY LogFacts DEF LogOK
    <3> HIDE DEF z
    <3>3. CASE z = 1
      BY <3>1, <3>3 DEF Absent
    <3>4. CASE z # 1
      <4>1. z - 1 \in 1..z
        BY <3>2, <3>4
      <4>2. QED  BY <3>1, <3>2, <3>4, <4>1
    <3>5. QED  BY <3>3, <3>4
  <2>4. QED  BY <1>1, <2>1, <2>2, <2>3 DEF Content
<1> HIDE DEF c, b
<1>4. (IF 0 + 1 > Len(c) THEN 0 + 1 ELSE Len(c)) = 1
  <2>1. CASE Len(c) = 0
    BY <2>1
  <2>2. CASE Len(c) = 1
    BY <2>2
  <2>3. QED  BY <1>3, <2>1, <2>2
<1>5. WriteBlock(c, 0, b) = [i \in 1..1 |-> IF i = 0 + 1 THEN b
                               ELSE IF i <= Len(c) THEN c[i] ELSE Zero]
  BY <1>4 DEF WriteBlock
<1>6. WriteBlock(c, 0, b) = [i \in 1..1 |-> b]
  BY <1>5
<1>7. WriteBlock(c, 0, b) = <<b>>
  BY <1>6
<1>8. QED  BY <1>2, <1>7 DEF c, b

LEMMA GotBlockEpoch ==
    ASSUME NEW g, NEW m, Epoch(g, m), Inv, NEW d \in Device, NEW w \in Worker,
           GotBlock(d, w)
    PROVE  Epoch(g, m)'
<1> DEFINE t == task[d][w]
           rows == files[d]
           dk == disk[d]
           n == [t EXCEPT !.at = "store"]
           z == Newest(g, m)
<1>0. /\ LogOK(g, m) /\ EpochFiles(g, m) /\ EpochWatch(g, m) /\ EpochRest(g)
      /\ EpochSends(g, m) /\ EpochIdx(g, m) /\ EpochTask(g, m)
      /\ Scanned(g, m) /\ Told(g, m) /\ Fetched(g, m)
  BY EpochParts
<1>1. /\ t.at = "answered"
      /\ UNCHANGED <<files, sends, idx, up, written, overrun>>
  BY DEF GotBlock
<1>2. /\ t \in Task /\ TaskIn(g, m, t, rows, dk, disk[t.peer]) /\ RowsOK(rows)
      /\ TableIn(g, m, rows, dk) /\ DiskIn(g, m, d, dk)
  BY <1>0 DEF Inv, TypeOK, EpochTask, EpochFiles
<1>3. /\ t.live /\ disk[t.peer][m] = z /\ FreshIn(g, m, rows)
      /\ TableIn(g, m, t.snap, dk) /\ FreshIn(g, m, t.snap)
      /\ FullRow(g, m, t.snap[t.pos]) /\ t.blk = 1 /\ t.ans = <<z[1]>>
  BY <1>1, <1>2 DEF TaskIn, Fetches, Downloading
<1>4. /\ WantedBlock(t).offset = 0 /\ WantedBlock(t).hash = z
      /\ t.snap[t.pos].name = m /\ z = <<z[1]>>
  BY <1>0, <1>3, AskedBlock
<1>5. t.ans # <<>> /\ t.ans[1] = z[1] /\ BlockHash(t.ans[1]) = WantedBlock(t).hash
  BY <1>3, <1>4 DEF BlockHash
<1>6. /\ disk' = [disk EXCEPT ![d][m] = WriteBlock(disk[d][m], 0, z[1])]
      /\ watch' = Notified(d)
      /\ task' = [task EXCEPT ![d][w].at = "store"]
  BY <1>4, <1>5 DEF GotBlock
<1>7. WriteBlock(dk[m], 0, z[1]) = z
  BY <1>0, <1>2, WrittenIsNewest
<1>m. m \in Name
  BY <1>0 DEF LogOK
<1> HIDE DEF z
<1>8. /\ disk'[d] = [dk EXCEPT ![m] = z]
      /\ \A e \in Device : e # d => disk'[e] = disk[e]
  BY <1>6, <1>7 DEF Inv, TypeOK
<1>9. dk \in [Name -> Content]
  BY DEF Inv, TypeOK
<1>10. disk'[d][m] = z /\ \A k \in Name \ {m} : disk'[d][k] = dk[k]
  BY <1>8, <1>9, <1>m
<1>11. Onward(g, m)
  <2>1. Ahead(g, m, dk, disk'[d])
    BY <1>10 DEF Ahead, z
  <2>2. QED  BY <1>1, <1>8, <2>1, AheadItself DEF Onward
<1>12. \A e \in Device, v \in Worker :
         task'[e][v] = IF e = d /\ v = w THEN n ELSE task[e][v]
  BY <1>6 DEF Inv, TypeOK
<1>13. /\ n.at = "store" /\ n.pos = t.pos /\ n.snap = t.snap /\ n.live = t.live
       /\ n.peer = t.peer /\ n.blk = t.blk
  BY <1>2 DEF Task
<1> HIDE DEF n
<1>14. task'[d][w] = n
  BY <1>12
<1>15. EpochTask(g, m)'
  <2>1. disk'[t.peer][m] = z
    <3>1. t.peer \in Device
      BY <1>2 DEF Task
    <3>2. QED  BY <1>3, <1>8, <1>10, <3>1
  <2>2. TableIn(g, m, t.snap, disk'[d])
    BY <1>3, <1>11, TableStays DEF Onward
  <2>3. TaskIn(g, m, n, files'[d], disk'[d], disk'[n.peer])
    BY <1>1, <1>3, <1>10, <1>13, <2>1, <2>2 DEF TaskIn, Fetches, Downloading, z
  <2>4. \A e \in Device, v \in Worker :
           \/ task'[e][v] = task[e][v]
           \/ TaskIn(g, m, task'[e][v], files'[e], disk'[e], disk'[task'[e][v].peer])
    BY <1>12, <1>14, <2>3
  <2>5. QED  BY <1>0, <1>11, <2>4, KeepEpochTask
<1>16. \A l \in Link :
          \/ watch'[l] = watch[l]
          \/ l[1] = d /\ watch'[l] = [watch[l] EXCEPT !.event = TRUE]
  BY <1>6 DEF Notified
<1>17. \A l \in Link :
          /\ watch[l] \in Watch
          /\ watch'[l].at = watch[l].at /\ watch'[l].live = watch[l].live
          /\ watch'[l].snap = watch[l].snap /\ watch'[l].left = watch[l].left
          /\ watch'[l].pend = watch[l].pend /\ watch'[l].changed = watch[l].changed
          /\ watch[l].event => watch'[l].event
  <2>1. \A l \in Link : watch[l] \in Watch
    BY DEF Inv, TypeOK
  <2>2. ASSUME NEW k \in Watch, NEW b, b = k \/ b = [k EXCEPT !.event = TRUE]
        PROVE  /\ b.at = k.at /\ b.live = k.live /\ b.snap = k.snap
               /\ b.left = k.left /\ b.pend = k.pend /\ b.changed = k.changed
               /\ k.event => b.event
    BY <2>2 DEF Watch
  <2>3. QED  BY <1>16, <2>1, <2>2
<1>18. EpochWatch(g, m)'
  <2>1. ASSUME NEW l \in Link, watch'[l] # watch[l]
        PROVE  WatchIn(g, m, watch'[l], l[1], files'[l[1]], disk'[l[1]])
    <3> DEFINE k == watch[l]
               b == watch'[l]
    <3>1. l[1] = d
      BY <1>16, <2>1
    <3>2. k \in Watch /\ WatchIn(g, m, k, d, rows, dk)
      BY <1>0, <1>17, <3>1 DEF EpochWatch
    <3>3. WatchIn(g, m, k, d, files'[d], disk'[d])
      BY <1>0, <1>11, <3>2, WatchInStays DEF Onward
    <3>4. /\ b.at = k.at /\ b.live = k.live /\ b.snap = k.snap
          /\ b.left = k.left /\ b.pend = k.pend /\ b.changed = k.changed
      BY <1>17
    <3> HIDE DEF k, b
    <3>5. WatchIn(g, m, b, d, files'[d], disk'[d])
      BY <1>1, <1>3, <3>3, <3>4 DEF WatchIn
    <3>6. QED  BY <3>1, <3>5 DEF b
  <2>2. QED  BY <1>0, <1>11, <2>1, KeepEpochWatch
<1>19. EpochFiles(g, m)' /\ EpochSends(g, m)' /\ EpochIdx(g, m)'
  <2>1. EpochFiles(g, m)'
    BY <1>0, <1>1, <1>11, KeepEpochFiles
  <2>2. EpochSends(g, m)'
    BY <1>0, <1>1, <1>11, KeepEpochSends
  <2>3. QED  BY <1>0, <1>1, <2>1, <2>2 DEF EpochIdx
<1>20. Scanned(g, m)'
  <2>1. \A l \in Link : Finds(m, watch[l]) => Finds(m, watch'[l])
    BY <1>17 DEF Finds
  <2>2. QED  BY <1>0, <1>11, <2>1, KeepScanned
<1>21. Told(g, m)'
  <2>1. Announces(n) /\ ~Hears(g, m, t)
    BY <1>1, <1>13 DEF Announces, Fetches, Hears
  <2>2. Source(d)'
    BY <1>14, <2>1 DEF Source
  <2>3. \A e \in Device : Source(e) => Source(e)'
    <3>1. \A e \in Device, v \in Worker : Announces(task[e][v]) => Announces(task'[e][v])
      BY <1>12, <2>1
    <3>2. QED  BY <1>17, <3>1, SourceStays
  <2>4. \A e \in Device : DoneIn(g, m, files'[e], disk'[e]) =>
              DoneIn(g, m, files[e], disk[e]) \/ Source(e)'
    BY <1>1, <1>8, <2>2
  <2>5. \A e \in Device, v \in Worker : Hears(g, m, task[e][v]) =>
              \/ FreshIn(g, m, files'[e])
              \/ \E u \in Worker : Hears(g, m, task'[e][u])
    BY <1>12, <2>1
  <2>6. QED  BY <1>0, <1>1, <1>11, <2>3, <2>4, <2>5, KeepTold
<1>22. Fetched(g, m)'
  <2>1. dk[m] = Absent => Complete(g, m, files'[d], disk'[d])
    BY <1>0, <1>1, <1>2, <1>3, <1>10, AbsentIsSynced DEF Complete, z
  <2>2. ASSUME NEW v \in Worker, Due(g, m, task[d][v], dk), dk[m] # Absent
        PROVE  Due(g, m, task'[d][v], disk'[d])
    <3>1. CASE v # w
      BY <1>12, <2>2, <3>1 DEF Due
    <3>2. CASE v = w
      <4>1. t.pos <= FindFile(t.snap, m) /\ ~SyncedIn(g, m, t.snap)
        BY <1>1, <2>2, <3>2 DEF Due
      <4>2. QED  BY <1>13, <1>14, <3>2, <4>1 DEF Due, Fetches
    <3>3. QED  BY <3>1, <3>2
  <2>3. ASSUME NEW e \in Device, NEW v \in Worker, Due(g, m, task[e][v], disk[e])
        PROVE  \/ Complete(g, m, files'[e], disk'[e])
               \/ \E u \in Worker : Due(g, m, task'[e][u], disk'[e])
    <3>1. CASE e = d
      BY <2>1, <2>2, <2>3, <3>1
    <3>2. CASE e # d
      BY <1>8, <1>12, <2>3, <3>2
    <3>3. QED  BY <3>1, <3>2
  <2>4. \A e \in Device : Complete(g, m, files[e], disk[e])
                             => Complete(g, m, files'[e], disk'[e])
    BY <1>1, <1>8, <1>10 DEF Complete, z
  <2>5. QED  BY <1>0, <1>1, <1>11, <2>3, <2>4, KeepFetched
<1>23. QED
  BY <1>1, <1>11, <1>15, <1>18, <1>19, <1>20, <1>21, <1>22, EpochStep

LEMMA StoreSyncedEpoch ==
    ASSUME NEW g, NEW m, Epoch(g, m), Inv, NEW d \in Device, NEW w \in Worker,
           StoreSynced(d, w)
    PROVE  Epoch(g, m)'
<1> DEFINE t == task[d][w]
           i == t.pos
           f == t.snap[i]
           row == Synced(f)
           rows == files[d]
           dk == disk[d]
           fit == VersionsFit(rows, i, row)
           new == UpdateSyncFile(rows, i, row)
           n == [t EXCEPT !.at = "next", !.pos = t.pos + 1]
           z == Len(g[m])
<1>1. /\ t.at = "store"
      /\ UNCHANGED <<disk, watch, sends, idx, up, written>>
  BY Zenon DEF StoreSynced
<1>2. /\ t \in Task /\ TaskOK(t, rows) /\ RowsOK(rows) /\ LogOK(g, m)
      /\ TaskIn(g, m, t, rows, dk, disk[t.peer]) /\ TableIn(g, m, rows, dk)
  BY EpochParts DEF Inv, TypeOK, EpochTask, EpochFiles
<1>3. /\ t.live /\ disk[t.peer][m] = Newest(g, m) /\ FreshIn(g, m, rows)
      /\ TableIn(g, m, t.snap, dk) /\ FreshIn(g, m, t.snap)
      /\ FullRow(g, m, f) /\ t.blk = 1 /\ dk[m] = Newest(g, m)
  BY <1>1, <1>2 DEF TaskIn, Fetches, Downloading
<1>4. /\ SnapOf(t.snap, rows) /\ RowsOK(t.snap) /\ i \in 1..Len(t.snap)
      /\ Len(t.snap) <= Len(rows) /\ Len(t.snap) \in Nat /\ Len(rows) \in Nat
      /\ rows \in Seq(File) /\ t.snap \in Seq(File)
  BY <1>1, <1>2 DEF TaskOK, Downloading, SnapOf, RowsOK
<1>5. RowOK(f) /\ f.name = m /\ Len(f.versions) = z /\ m \in Name
  BY <1>2, <1>3, <1>4 DEF FullRow, RowsOK, LogOK
<1>6. RowOK(row) /\ row.name = m /\ row.versions = f.versions /\ row.hash = f.hash
      /\ row.blocks = f.blocks /\ row.synced = z - 1
  <2> HIDE DEF f
  <2>1. RowOK(row)
    BY <1>5, SyncedOK
  <2>2. f \in File /\ IndexVersion(f) = Len(f.versions) - 1
    BY <1>5, RowFacts
  <2>3. QED  BY <1>5, <2>1, <2>2 DEF Synced, File
<1>7. FullRow(g, m, row) /\ Len(row.blocks) = 1
  <2>1. Len(f.blocks) = 1
    BY <1>2, <1>3, AskedBlock
  <2>2. ~(z < z)
    <3>1. z \in Nat
      BY <1>2, LogFacts
    <3> HIDE DEF z
    <3>2. QED  BY <3>1
  <2> HIDE DEF row, f
  <2>3. QED  BY <1>3, <1>5, <1>6, <2>1, <2>2 DEF FullRow, RowIn
<1>8. /\ i \in 0..Len(rows) /\ i \in 1..Len(rows) /\ i # 0
      /\ rows[i].name = m /\ RowIn(g, rows[i])
  <2>1. i \in 1..Len(rows) /\ i \in 0..Len(rows) /\ i # 0
    <3> HIDE DEF t
    <3>1. QED  BY <1>4
  <2>2. rows[i].name = f.name
    BY <1>4 DEF SnapOf
  <2>3. QED  BY <1>2, <1>5, <2>1, <2>2 DEF TableIn
<1>9. z = 1 \/ (HasRow(rows, m) /\ i = FindFile(rows, m))
  <2>1. CASE i = FindFile(t.snap, m)
    <3>1. HasRow(t.snap, m)
      BY <1>3 DEF FreshIn
    <3>2. QED  BY <1>4, <1>5, <2>1, <3>1, SnapFirst
  <2>2. CASE i # FindFile(t.snap, m)
    BY <1>3, <1>4, <1>5, <2>2 DEF TableIn
  <2>3. QED  BY <2>1, <2>2
<1>p. t.pos \in Nat
  BY <1>2 DEF Task
<1>10. /\ fit /\ TableIn(g, m, new, dk) /\ FreshIn(g, m, new) /\ SyncedIn(g, m, new)
  <2> HIDE DEF row, rows, dk, i
  <2>1. VersionsFit(rows, i, row) /\ UpdateSyncFile(rows, i, row) = PutRow(rows, i, row)
    BY <1>2, <1>6, <1>7, <1>8, UpdateIsPut
  <2>2. /\ TableIn(g, m, PutRow(rows, i, row), dk)
        /\ FreshIn(g, m, PutRow(rows, i, row))
        /\ row.synced = Len(g[m]) - 1 => SyncedIn(g, m, PutRow(rows, i, row))
    BY <1>2, <1>3, <1>6, <1>7, <1>8, <1>9, PutIn
  <2>3. QED  BY <1>6, <2>1, <2>2
<1>11. /\ files' = [files EXCEPT ![d] = new]
       /\ overrun' = IF fit THEN overrun ELSE overrun \cup {d}
       /\ task' = [task EXCEPT ![d][w] =
                     CASE ~fit -> IdleTask(d)
                       [] fit /\ t.blk < Len(row.blocks) -> Asking(d, t, t.blk + 1)
                       [] OTHER -> n]
  BY DEF StoreSynced
<1>12. ~(t.blk < Len(row.blocks))
  BY <1>3, <1>7
<1>13. /\ n.at = "next" /\ n.pos = t.pos + 1 /\ n.snap = t.snap
       /\ n.live = t.live /\ n.peer = t.peer
  BY <1>2 DEF Task
<1>14. task' = [task EXCEPT ![d][w] = n] /\ overrun' = overrun
  <2> HIDE DEF n, fit, row
  <2>1. QED  BY <1>10, <1>11, <1>12
<1> HIDE DEF n, new
<1>15. TaskIn(g, m, n, new, dk, disk[n.peer])
  BY <1>3, <1>10, <1>13 DEF TaskIn, Fetches, Downloading
<1>16. Announces(n) /\ Complete(g, m, new, dk)
  BY <1>3, <1>10, <1>13 DEF Announces, Fetches, Complete
<1>17. QED  BY <1>1, <1>10, <1>11, <1>14, <1>15, <1>16, HandlerStoreEpoch

LEMMA GetDirectoryEndEpoch ==
    ASSUME NEW g, NEW m, Epoch(g, m), Inv, NEW d \in Device, NEW w \in Worker,
           GetDirectoryEnd(d, w)
    PROVE  Epoch(g, m)'
<1> DEFINE t == task[d][w]
           rows == files[d]
           dk == disk[d]
           i == FindFile(t.snap, m)
           n == IdleTask(d)
<1>0. /\ LogOK(g, m) /\ EpochFiles(g, m) /\ EpochWatch(g, m) /\ EpochRest(g)
      /\ EpochSends(g, m) /\ EpochIdx(g, m) /\ EpochTask(g, m)
      /\ Scanned(g, m) /\ Told(g, m) /\ Fetched(g, m)
  BY EpochParts
<1>1. /\ t.at = "next" /\ t.pos > Len(t.snap) /\ sends' = DirectoryChanged(d)
      /\ task' = [task EXCEPT ![d][w] = n]
      /\ UNCHANGED <<disk, files, watch, idx, up, written, overrun>>
  BY DEF GetDirectoryEnd
<1>2. t \in Task /\ TaskIn(g, m, t, rows, dk, disk[t.peer]) /\ TaskOK(t, rows)
  BY <1>0 DEF Inv, TypeOK, EpochTask
<1>3. /\ FreshIn(g, m, rows) /\ FreshIn(g, m, t.snap)
      /\ i < t.pos => dk[m] = Newest(g, m)
  BY <1>1, <1>2 DEF TaskIn, Fetches
<1>4. i < t.pos /\ ~(t.pos <= i)
  <2>1. t.snap \in Seq(File) /\ Len(t.snap) \in Nat /\ t.pos \in Nat
    BY <1>2 DEF Task
  <2>2. i \in 1..Len(t.snap)
    BY <1>0, <1>3, <2>1, FindFileFirst DEF FreshIn, LogOK
  <2> HIDE DEF i, t
  <2>3. QED  BY <1>1, <2>1, <2>2
<1>5. DoneIn(g, m, rows, dk)
  BY <1>3, <1>4 DEF DoneIn
<1>6. /\ \A l \in Link : l[1] = d => sends'[l] > 0
      /\ \A l \in Link : l[1] # d => sends'[l] = sends[l]
  BY <1>0, <1>1, AnnouncesToAll
<1>7. Onward(g, m)
  BY <1>1, OnwardSame
<1> HIDE DEF n
<1>8. \A e \in Device, v \in Worker :
         task'[e][v] = IF e = d /\ v = w THEN n ELSE task[e][v]
  BY <1>1 DEF Inv, TypeOK
<1>9. EpochTask(g, m)'
  <2>1. \A pk : TaskIn(g, m, n, rows, dk, pk)
    BY IdleIn DEF n
  <2>2. \A e \in Device, v \in Worker :
           \/ task'[e][v] = task[e][v]
           \/ TaskIn(g, m, task'[e][v], files'[e], disk'[e], disk'[task'[e][v].peer])
    BY <1>1, <1>8, <2>1
  <2>3. QED  BY <1>0, <1>7, <2>2, KeepEpochTask
<1>10. EpochSends(g, m)'
  BY <1>0, <1>1, <1>5, <1>6, <1>7, KeepEpochSends
<1>11. EpochFiles(g, m)' /\ EpochIdx(g, m)' /\ EpochWatch(g, m)' /\ Scanned(g, m)'
  BY <1>0, <1>1 DEF EpochFiles, EpochIdx, EpochWatch, Scanned
<1>12. Told(g, m)'
  <2>1. ~Hears(g, m, t)
    BY <1>1 DEF Hears
  <2>2. \A e \in Device : Source(e) =>
            Source(e)' \/ \A l \in Link : l[1] = e => sends'[l] > 0
    <3>1. ASSUME NEW e \in Device, Source(e), e # d PROVE Source(e)'
      <4>1. \A v \in Worker : task'[e][v] = task[e][v]
        BY <1>8, <3>1
      <4>2. QED  BY <1>1, <3>1, <4>1, SourceStays
    <3>2. QED  BY <1>6, <3>1
  <2>3. \A e \in Device, v \in Worker : Hears(g, m, task[e][v]) =>
              \/ FreshIn(g, m, files'[e])
              \/ \E u \in Worker : Hears(g, m, task'[e][u])
    BY <1>8, <2>1
  <2>4. QED  BY <1>0, <1>1, <1>6, <1>7, <2>2, <2>3, KeepTold
<1>13. Fetched(g, m)'
  <2>1. ~Due(g, m, t, dk)
    BY <1>1, <1>4 DEF Due
  <2>2. \A e \in Device, v \in Worker : Due(g, m, task[e][v], disk[e]) =>
              \E u \in Worker : Due(g, m, task'[e][u], disk'[e])
    BY <1>1, <1>8, <2>1
  <2>3. QED  BY <1>0, <1>1, <1>7, <2>2, KeepFetched
<1>14. QED
  BY <1>1, <1>7, <1>9, <1>10, <1>11, <1>12, <1>13, EpochStep

LEMMA TaskStepEpoch ==
    ASSUME NEW g, NEW m, Epoch(g, m), Inv, NEW d \in Device, NEW w \in Worker,
           TaskStep(d, w)
    PROVE  Epoch(g, m)'
  BY IndexFileEpoch, IndexEndEpoch, GetDirectoryEpoch, GetFileEpoch,
     HandleRequestEpoch, GotBlockEpoch, StoreSyncedEpoch, GetDirectoryEndEpoch
     DEF TaskStep
-----------------------------------------------------------------------------
(***************************************************************************)
(* Between two epochs: every device has the same, and nothing is under way.*)
(***************************************************************************)
RestIn(g, rows, dk) ==
    /\ \A i \in 1..Len(rows) :
          /\ RowIn(g, rows[i])
          /\ IF FindFile(rows, rows[i].name) = i
             THEN /\ Len(rows[i].versions) = Len(g[rows[i].name])
                  /\ rows[i].synced = Len(rows[i].versions) - 1
             ELSE Len(rows[i].versions) = 1
    /\ \A n \in Name : g[n] # <<>> => HasRow(rows, n)
    /\ \A n \in Name : dk[n] = IF g[n] = <<>> THEN Absent ELSE Newest(g, n)

Texts(g) ==
    /\ g \in [Name -> Seq(Edit)]
    /\ \A n \in Name : \A k \in 1..Len(g[n]) : Len(g[n][k].text) = 1

Rest(g) ==
    /\ Texts(g) /\ EpochRest(g)
    /\ \A d \in Device : RestIn(g, files[d], disk[d])
    /\ \A d \in Device, w \in Worker : task[d][w].at = "idle" /\ ~task[d][w].changed
    /\ \A l \in Link : sends[l] = 0 /\ idx[l] = <<>>
    /\ \A l \in Link : /\ watch[l].at \in {"off", "idle"} /\ ~watch[l].event
                       /\ watch[l].at = "idle" => watch[l].live

LEMMA InitRest == Init => Rest([n \in Name |-> <<>>])
<1> SUFFICES ASSUME Init PROVE Rest([n \in Name |-> <<>>])
  OBVIOUS
<1> DEFINE g == [n \in Name |-> <<>>]
<1>1. g \in [Name -> Seq(Edit)] /\ \A n \in Name : g[n] = <<>> /\ Len(g[n]) = 0
  OBVIOUS
<1>2. EpochRest(g)
  <2>1. \A n \in Name : [k \in 1..Len(g[n]) |-> g[n][k].text] = <<>>
    BY <1>1
  <2>2. [n \in Name |-> [k \in 1..Len(g[n]) |-> g[n][k].text]] = [n \in Name |-> <<>>]
    BY <2>1
  <2>3. QED  BY <2>2 DEF EpochRest, Init
<1> HIDE DEF g
<1>3. Texts(g)
  BY <1>1 DEF Texts
<1>4. \A d \in Device : RestIn(g, files[d], disk[d])
  <2>1. \A d \in Device : files[d] = <<>> /\ \A n \in Name : disk[d][n] = Absent
    BY DEF Init
  <2>2. Len(<<>>) = 0 /\ 1..0 = {}
    OBVIOUS
  <2>3. ASSUME NEW dk, \A n \in Name : dk[n] = Absent
        PROVE  RestIn(g, <<>>, dk)
    BY <1>1, <2>2, <2>3 DEF RestIn
  <2>4. QED  BY <2>1, <2>3
<1>5. \A d \in Device, w \in Worker : task[d][w].at = "idle" /\ ~task[d][w].changed
  <2>1. \A d \in Device, w \in Worker : task[d][w] = IdleTask(d)
    BY DEF Init
  <2>2. \A d \in Device : IdleTask(d).at = "idle" /\ ~IdleTask(d).changed
    BY DEF IdleTask
  <2>3. QED  BY <2>1, <2>2
<1>6. \A l \in Link : sends[l] = 0 /\ idx[l] = <<>>
  BY DEF Init
<1>7. \A l \in Link : /\ watch[l].at \in {"off", "idle"} /\ ~watch[l].event
                      /\ watch[l].at = "idle" => watch[l].live
  BY DEF Init, WatchOff
<1>8. QED  BY <1>2, <1>3, <1>4, <1>5, <1>6, <1>7 DEF Rest, g

\* Every device has a connection.
LEMMA HasPeer ==
    ASSUME OneByOne, NEW d \in Device
    PROVE  \E l \in Link : l[1] = d
<1>1. /\ Link # {}
      /\ \A S \in SUBSET Device :
            S # {} /\ S # Device => \E l \in Link : l[1] \in S /\ l[2] \notin S
  BY DEF OneByOne, Connected
<1>2. CASE {d} # Device
  <2>1. {d} \in SUBSET Device /\ {d} # {}
    OBVIOUS
  <2>2. \E l \in Link : l[1] \in {d} /\ l[2] \notin {d}
    BY <1>1, <1>2, <2>1
  <2>3. QED  BY <2>2
<1>3. CASE {d} = Device
  <2>1. PICK l \in Link : TRUE
    BY <1>1
  <2>2. l[1] \in {d}
    BY <1>3, LinkEnds
  <2>3. QED  BY <2>2
<1>4. QED  BY <1>2, <1>3

\* When all activity has ended every device is done: the author's scan has found
\* the edit, each device that was done has told its peers, and they have fetched.
LEMMA SettledDone ==
    ASSUME OneByOne, NEW g, NEW m, Epoch(g, m), Inv, Settled
    PROVE  \A d \in Device : /\ DoneIn(g, m, files[d], disk[d])
                             /\ SyncedIn(g, m, files[d])
<1>0. /\ LogOK(g, m) /\ EpochFiles(g, m) /\ EpochWatch(g, m)
      /\ Scanned(g, m) /\ Told(g, m) /\ Fetched(g, m)
  BY EpochParts
<1>1. /\ \A d \in Device, w \in Worker : task[d][w].at = "idle"
      /\ \A l \in Link : /\ ~(sends[l] > 0) /\ idx[l] = <<>>
                         /\ watch[l].at # "scan" /\ watch[l].at # "store"
                         /\ ~watch[l].event
  BY DEF Settled, Quiescent
<1>2. \A d \in Device : ~Source(d)
  BY <1>1 DEF Source, Announces, Fetches
<1>3. \A d \in Device, w \in Worker :
         ~Hears(g, m, task[d][w]) /\ ~Due(g, m, task[d][w], disk[d])
  BY <1>1 DEF Hears, Due, Fetches
<1>4. \A d \in Device : FreshIn(g, m, files[d]) => Complete(g, m, files[d], disk[d])
  BY <1>0, <1>3 DEF Fetched
<1> DEFINE a == Author(g, m)
           S == {d \in Device : DoneIn(g, m, files[d], disk[d])}
<1>5. a \in Device
  BY <1>0, LogFacts DEF LogOK
<1>6. a \in S
  <2>1. PICK l \in Link : l[1] = a
    BY <1>5, HasPeer
  <2>2. FreshIn(g, m, files[a])
    BY <1>0, <1>1, <2>1 DEF Scanned
  <2>3. disk[a][m] = Newest(g, m)
    BY <1>0, <1>5 DEF EpochFiles, DiskIn
  <2>4. QED  BY <1>5, <2>2, <2>3 DEF DoneIn
<1>7. S = Device
  <2>1. SUFFICES ASSUME S # Device PROVE FALSE
    OBVIOUS
  <2>2. S \in SUBSET Device /\ S # {}
    BY <1>6
  <2>3. PICK l \in Link : l[1] \in S /\ l[2] \notin S
    BY <2>1, <2>2 DEF OneByOne, Connected
  <2>4. l[1] \in Device /\ l[2] \in Device /\ DoneIn(g, m, files[l[1]], disk[l[1]])
    BY <2>3, LinkEnds
  <2>5. FreshIn(g, m, files[l[2]])
    BY <1>0, <1>1, <1>2, <1>3, <2>4 DEF Told
  <2>6. DoneIn(g, m, files[l[2]], disk[l[2]])
    BY <1>4, <2>4, <2>5 DEF Complete, DoneIn
  <2>7. QED  BY <2>3, <2>4, <2>6
<1>8. QED  BY <1>4, <1>7 DEF Complete, DoneIn

LEMMA SettledRest ==
    ASSUME OneByOne, NEW g, NEW m, Epoch(g, m), Inv, Settled
    PROVE  Rest(g)
<1>0. /\ LogOK(g, m) /\ EpochRest(g) /\ EpochFiles(g, m) /\ EpochWatch(g, m)
      /\ EpochTask(g, m)
  BY EpochParts
<1>1. \A d \in Device : DoneIn(g, m, files[d], disk[d]) /\ SyncedIn(g, m, files[d])
  BY SettledDone
<1>2. ASSUME NEW d \in Device PROVE RestIn(g, files[d], disk[d])
  <2> DEFINE rows == files[d]
             dk == disk[d]
  <2>1. /\ TableIn(g, m, rows, dk) /\ DiskIn(g, m, d, dk) /\ FreshIn(g, m, rows)
        /\ SyncedIn(g, m, rows) /\ dk[m] = Newest(g, m) /\ m \in Name /\ g[m] # <<>>
    BY <1>0, <1>1 DEF EpochFiles, DoneIn, LogOK
  <2> HIDE DEF rows, dk
  <2>2. ASSUME NEW i \in 1..Len(rows), FindFile(rows, rows[i].name) = i
        PROVE  /\ Len(rows[i].versions) = Len(g[rows[i].name])
               /\ rows[i].synced = Len(rows[i].versions) - 1
    <3>1. CASE rows[i].name # m
      BY <2>1, <2>2, <3>1 DEF TableIn, FirstIn
    <3>2. CASE rows[i].name = m
      BY <2>1, <2>2, <3>2 DEF FreshIn, SyncedIn
    <3>3. QED  BY <3>1, <3>2
  <2>3. \A n \in Name : g[n] # <<>> => HasRow(rows, n)
    BY <2>1 DEF TableIn, FreshIn
  <2>4. \A n \in Name : dk[n] = IF g[n] = <<>> THEN Absent ELSE Newest(g, n)
    BY <2>1 DEF DiskIn
  <2>5. RestIn(g, rows, dk)
    BY <2>1, <2>2, <2>3, <2>4 DEF RestIn, TableIn
  <2>6. QED  BY <2>5 DEF rows, dk
<1>3. Texts(g)
  BY <1>0 DEF LogOK, Texts
<1>4. \A d \in Device, w \in Worker : task[d][w].at = "idle" /\ ~task[d][w].changed
  BY <1>0 DEF EpochTask, TaskIn, Settled, Quiescent
<1>5. \A l \in Link : sends[l] = 0 /\ idx[l] = <<>>
  BY DEF Settled, Quiescent
<1>6. \A l \in Link : /\ watch[l].at \in {"off", "idle"} /\ ~watch[l].event
                      /\ watch[l].at = "idle" => watch[l].live
  BY <1>0 DEF EpochWatch, WatchIn, Settled, Quiescent
<1>7. QED  BY <1>0, <1>2, <1>3, <1>4, <1>5, <1>6 DEF Rest

(***************************************************************************)
(* A user starts an epoch.                                                 *)
(***************************************************************************)
Logged(g, n, d, c) == [g EXCEPT ![n] = Append(@, [by |-> d, text |-> c])]

LEMMA LoggedFacts ==
    ASSUME NEW g, Texts(g), NEW n \in Name, NEW d \in Device, NEW c \in Content,
           Len(c) = 1
    PROVE  LET h == Logged(g, n, d, c)
           IN  /\ Texts(h)
               /\ \A k \in Name \ {n} : h[k] = g[k]
               /\ Len(g[n]) \in Nat /\ Len(h[n]) = Len(g[n]) + 1
               /\ h[n] # <<>>
               /\ \A k \in 1..Len(g[n]) : h[n][k] = g[n][k]
               /\ Newest(h, n) = c /\ Author(h, n) = d
               /\ Earlier(h, n) = IF g[n] = <<>> THEN Absent ELSE Newest(g, n)
<1> DEFINE h == Logged(g, n, d, c)
           e == [by |-> d, text |-> c]
           s == g[n]
           q == h[n]
           z == Len(s)
<1>1. e \in Edit /\ e.by = d /\ e.text = c
  BY DEF Edit
<1>2. s \in Seq(Edit) /\ g \in [Name -> Seq(Edit)] /\ \A k \in 1..Len(s) : Len(s[k].text) = 1
  BY DEF Texts
<1>3. h = [g EXCEPT ![n] = Append(s, e)]
  BY DEF Logged
<1>4. q = Append(s, e) /\ \A k \in Name \ {n} : h[k] = g[k]
  BY <1>2, <1>3
<1> HIDE DEF e
<1>5. Append(s, e) \in Seq(Edit)
  <2> HIDE DEF s
  <2>1. QED  BY <1>1, <1>2
<1>6. h \in [Name -> Seq(Edit)]
  BY <1>2, <1>3, <1>5
<1> HIDE DEF h, s
<1>7. /\ z \in Nat /\ Len(q) = z + 1
      /\ \A k \in 1..z : q[k] = s[k]
      /\ q[z + 1] = e
  <2>1. z \in Nat /\ Len(Append(s, e)) = z + 1
    BY <1>1, <1>2
  <2>2. Append(s, e)[z + 1] = e /\ \A k \in 1..z : Append(s, e)[k] = s[k]
    BY <1>1, <1>2
  <2>3. QED  BY <1>4, <2>1, <2>2
<1>8. Newest(h, n) = c /\ Author(h, n) = d
  BY <1>1, <1>7 DEF Newest, Author
<1>9. q # <<>>
  <2> HIDE DEF q, z
  <2>1. Len(<<>>) = 0 /\ z + 1 # 0
    BY <1>7
  <2>2. QED  BY <1>7, <2>1
<1>10. (s = <<>>) <=> (z = 0)
  BY <1>2, EmptySeq
<1>11. Earlier(h, n) = IF s = <<>> THEN Absent ELSE s[z].text
  <2>1. Earlier(h, n) = IF z + 1 = 1 THEN Absent ELSE q[z + 1 - 1].text
    BY <1>7 DEF Earlier
  <2> HIDE DEF z, q
  <2>2. CASE z = 0
    BY <1>10, <2>1, <2>2
  <2>3. CASE z # 0
    <3>1. z + 1 # 1 /\ z + 1 - 1 = z /\ z \in 1..z
      BY <1>7, <2>3
    <3>2. QED  BY <1>7, <1>10, <2>1, <2>3, <3>1
  <2>4. QED  BY <2>2, <2>3
<1>12. s[z].text = Newest(g, n)
  BY DEF Newest, s
<1>13. ASSUME NEW k \in Name, NEW j \in 1..Len(h[k]) PROVE Len(h[k][j].text) = 1
  <2>1. CASE k # n
    BY <1>4, <2>1 DEF Texts
  <2>2. CASE k = n
    <3>1. j \in 1..z \/ j = z + 1
      <4> HIDE DEF z
      <4>1. j \in 1..(z + 1)
        BY <1>7, <2>2
      <4>2. QED  BY <1>7, <4>1
    <3>2. QED  BY <1>1, <1>2, <1>7, <2>2, <3>1
  <2>3. QED  BY <2>1, <2>2
<1>14. Texts(h)
  BY <1>6, <1>13 DEF Texts
<1>15. QED  BY <1>4, <1>7, <1>8, <1>9, <1>11, <1>12, <1>14 DEF h, s

LEMMA UserWriteTable ==
    ASSUME NEW g, Texts(g), NEW n \in Name, NEW d \in Device, NEW c \in Content,
           Len(c) = 1, NEW rows, RowsOK(rows), NEW dk, RestIn(g, rows, dk), NEW dn
    PROVE  LET h == Logged(g, n, d, c)
           IN  TableIn(h, n, rows, dn) /\ ~FreshIn(h, n, rows)
<1> DEFINE h == Logged(g, n, d, c)
           z == Len(g[n])
           y == Len(h[n])
<1>1. /\ Texts(h)
      /\ \A k \in Name \ {n} : h[k] = g[k]
      /\ z \in Nat /\ y = z + 1 /\ h[n] # <<>>
      /\ \A k \in 1..z : h[n][k] = g[n][k]
      /\ Newest(h, n) = c /\ Author(h, n) = d
      /\ Earlier(h, n) = IF g[n] = <<>> THEN Absent ELSE Newest(g, n)
  BY LoggedFacts
<1> HIDE DEF h
<1>2. \A k \in Name \ {n} : Newest(h, k) = Newest(g, k)
  BY <1>1 DEF Newest
<1>e. (g[n] = <<>>) <=> (z = 0)
  BY EmptySeq DEF Texts
<1>3. ASSUME NEW i \in 1..Len(rows)
      PROVE  /\ RowIn(h, rows[i])
             /\ IF FindFile(rows, rows[i].name) = i THEN FirstIn(h, n, rows[i])
                ELSE Len(rows[i].versions) = 1
  <2> DEFINE f == rows[i]
             k == f.name
             v == Len(f.versions)
  <2>1. /\ RowOK(f) /\ RowIn(g, f)
        /\ IF FindFile(rows, k) = i
           THEN v = Len(g[k]) /\ f.synced = v - 1
           ELSE v = 1
    BY DEF RowsOK, RestIn
  <2>2. k \in Name /\ v \in Nat /\ v >= 1 /\ f.synced \in Nat /\ f.synced < v
    BY <2>1, RowFacts
  <2> HIDE DEF f
  <2>3. CASE k # n
    <3>1. h[k] = g[k] /\ Newest(h, k) = Newest(g, k)
      BY <1>1, <1>2, <2>2, <2>3
    <3>2. RowIn(h, f)
      BY <2>1, <3>1 DEF RowIn, Follows
    <3>3. FindFile(rows, k) = i => FirstIn(h, n, f)
      BY <2>1, <2>3, <3>1 DEF FirstIn
    <3>4. QED  BY <2>1, <3>2, <3>3 DEF f
  <2>4. CASE k = n
    <3>1. v <= z /\ \A j \in 1..v : f.versions[j] = [user |-> g[n][j].by, val |-> j - 1]
      BY <2>1, <2>4 DEF RowIn, Follows
    <3>2. /\ v < y /\ v # y /\ v <= y /\ \A j \in 1..v : j \in 1..z
      <4> HIDE DEF v, z, y
      <4>1. QED  BY <1>1, <2>2, <3>1
    <3>3. \A j \in 1..v : f.versions[j] = [user |-> h[n][j].by, val |-> j - 1]
      BY <1>1, <3>1, <3>2
    <3>4. f.synced = v - 1
      <4> HIDE DEF v
      <4>1. QED  BY <2>1, <2>2
    <3>5. RowIn(h, f)
      BY <2>4, <3>2, <3>3, <3>4 DEF RowIn, Follows
    <3>6. ASSUME FindFile(rows, k) = i PROVE FirstIn(h, n, f)
      <4>1. v = z
        BY <2>1, <2>4, <3>6
      <4>2. v = y - 1 /\ z # 0
        <5> HIDE DEF v, z, y
        <5>1. QED  BY <1>1, <2>2, <4>1
      <4>3. f.hash = Newest(g, n)
        BY <2>1, <2>4, <4>1 DEF RowIn
      <4>4. Earlier(h, n) = Newest(g, n)
        BY <1>1, <1>e, <4>2
      <4>5. QED  BY <2>4, <4>2, <4>3, <4>4 DEF FirstIn
    <3>7. QED  BY <2>1, <3>5, <3>6 DEF f
  <2>5. QED  BY <2>3, <2>4
<1>4. ~FreshIn(h, n, rows)
  <2>1. SUFFICES ASSUME FreshIn(h, n, rows) PROVE FALSE
    OBVIOUS
  <2> DEFINE i == FindFile(rows, n)
             v == Len(rows[i].versions)
  <2>2. HasRow(rows, n) /\ v = y
    BY <2>1 DEF FreshIn
  <2>3. i \in 1..Len(rows) /\ rows[i].name = n
    BY <2>2, FindFileFirst DEF RowsOK
  <2>4. v = z
    BY <2>3 DEF RestIn
  <2> HIDE DEF v, z, y
  <2>5. QED  BY <1>1, <2>2, <2>4
<1>5. \A k \in Name : h[k] # <<>> /\ (k = n => Len(h[k]) > 1) => HasRow(rows, k)
  <2>1. ASSUME NEW k \in Name, h[k] # <<>>, k = n => Len(h[k]) > 1
        PROVE  HasRow(rows, k)
    <3>1. CASE k # n
      BY <1>1, <2>1, <3>1 DEF RestIn
    <3>2. CASE k = n
      <4>1. y > 1
        BY <2>1, <3>2
      <4>2. z # 0
        <5> HIDE DEF y, z
        <5>1. QED  BY <1>1, <4>1
      <4>3. QED  BY <1>e, <3>2, <4>2 DEF RestIn
    <3>3. QED  BY <3>1, <3>2
  <2>2. QED  BY <2>1
<1>6. TableIn(h, n, rows, dn)
  BY <1>3, <1>4, <1>5 DEF TableIn
<1>7. QED  BY <1>4, <1>6 DEF h

\* The log says what the users did.
LEMMA LoggedWritten ==
    ASSUME Inv, NEW g, Texts(g), EpochRest(g), NEW n \in Name, NEW d \in Device,
           NEW c \in Content, Len(c) = 1,
           written' = [written EXCEPT ![n] = Append(@, c)],
           UNCHANGED <<up, overrun>>
    PROVE  EpochRest(Logged(g, n, d, c))'
<1> DEFINE h == Logged(g, n, d, c)
           s == g[n]
           q == h[n]
           z == Len(s)
           r == written[n]
<1>1. /\ \A k \in Name \ {n} : h[k] = g[k]
      /\ z \in Nat /\ Len(q) = z + 1
      /\ \A k \in 1..z : q[k] = s[k]
      /\ q[z + 1].text = c /\ Texts(h)
  <2>1. /\ Texts(h)
        /\ \A k \in Name \ {n} : h[k] = g[k]
        /\ z \in Nat /\ Len(q) = z + 1
        /\ \A k \in 1..z : q[k] = s[k]
        /\ Newest(h, n) = c
    BY LoggedFacts
  <2>2. QED  BY <2>1 DEF Newest
<1>2. written = [k \in Name |-> [j \in 1..Len(g[k]) |-> g[k][j].text]]
  BY DEF EpochRest
<1> HIDE DEF h
<1>3. r = [j \in 1..z |-> s[j].text]
  BY <1>2
<1>4. r \in Seq(Content)
  BY DEF Inv, TypeOK
<1>5. Len(r) = z /\ \A j \in 1..z : r[j] = s[j].text
  <2> HIDE DEF r, z
  <2>1. DOMAIN r = 1..z
    BY <1>3
  <2>2. QED  BY <1>1, <1>3, <1>4, <2>1
<1> DEFINE u == [j \in 1..(z + 1) |-> q[j].text]
<1>6. Append(r, c) = u
  <2> HIDE DEF r, z, s
  <2>1. Append(r, c) \in Seq(Content) /\ Len(Append(r, c)) = z + 1
    BY <1>4, <1>5
  <2>2. \A j \in 1..(z + 1) : Append(r, c)[j] = q[j].text
    <3>1. ASSUME NEW j \in 1..(z + 1) PROVE Append(r, c)[j] = q[j].text
      <4>1. CASE j = z + 1
        BY <1>1, <1>4, <1>5, <4>1
      <4>2. CASE j # z + 1
        <5>1. j \in 1..z
          BY <1>1, <4>2
        <5>2. Append(r, c)[j] = r[j]
          BY <1>4, <1>5, <5>1
        <5>3. QED  BY <1>1, <1>5, <5>1, <5>2
      <4>3. QED  BY <4>1, <4>2
    <3>2. QED  BY <3>1
  <2>3. Append(r, c) = [j \in 1..(z + 1) |-> Append(r, c)[j]]
    <3> DEFINE a == Append(r, c)
    <3>1. a \in Seq(Content) /\ Len(a) = z + 1
      BY <2>1
    <3> HIDE DEF a
    <3>2. a = [j \in 1..Len(a) |-> a[j]]
      BY <3>1
    <3>3. a = [j \in 1..(z + 1) |-> a[j]]
      BY <3>1, <3>2
    <3>4. QED  BY <3>3 DEF a
  <2>4. QED  BY <2>2, <2>3
<1>7. written' = [k \in Name |-> [j \in 1..Len(h[k]) |-> h[k][j].text]]
  <2>1. [j \in 1..Len(q) |-> q[j].text] = u
    BY <1>1
  <2>2. \A k \in Name : written'[k] = IF k = n THEN Append(r, c) ELSE written[k]
    BY DEF Inv, TypeOK
  <2>3. written' = [k \in Name |-> written'[k]]
    BY DEF Inv, TypeOK
  <2>4. ASSUME NEW k \in Name
        PROVE  written'[k] = [j \in 1..Len(h[k]) |-> h[k][j].text]
    <3>1. CASE k = n
      BY <1>6, <2>1, <2>2, <3>1
    <3>2. CASE k # n
      <4>1. h[k] = g[k]
        BY <1>1, <3>2
      <4>2. QED  BY <1>2, <2>2, <3>2, <4>1
    <3>3. QED  BY <3>1, <3>2
  <2>5. QED  BY <2>3, <2>4
<1>8. up' = Link /\ overrun' = {}
  BY DEF EpochRest
<1>9. QED  BY <1>7, <1>8 DEF EpochRest, h

LEMMA UserWriteEpoch ==
    ASSUME OneByOne, Inv, NEW g, Rest(g), NEW d \in Editor, NEW n \in Name,
           NEW c \in UserContent, UserWrite(d, n, c)
    PROVE  Epoch(Logged(g, n, d, c), n)'
<1> DEFINE h == Logged(g, n, d, c)
<1>0. /\ disk[d][n] # c /\ Settled /\ disk' = [disk EXCEPT ![d][n] = c]
      /\ written' = [written EXCEPT ![n] = Append(@, c)] /\ watch' = Notified(d)
      /\ UNCHANGED <<files, task, sends, idx, up, overrun>>
  BY DEF UserWrite, OneByOne
<1>1. d \in Device /\ c \in Content /\ Len(c) = 1
  BY UserAssumption DEF OneByOne
<1>2. /\ Texts(g) /\ EpochRest(g) /\ \A e \in Device : RestIn(g, files[e], disk[e])
      /\ \A e \in Device, w \in Worker : task[e][w].at = "idle" /\ ~task[e][w].changed
      /\ \A l \in Link : sends[l] = 0 /\ idx[l] = <<>>
  BY DEF Rest
<1>3. /\ Texts(h)
      /\ \A k \in Name \ {n} : h[k] = g[k]
      /\ h[n] # <<>>
      /\ Newest(h, n) = c /\ Author(h, n) = d
      /\ Earlier(h, n) = IF g[n] = <<>> THEN Absent ELSE Newest(g, n)
  BY <1>1, <1>2, LoggedFacts
<1>4. EpochRest(h)'
  BY <1>0, <1>1, <1>2, LoggedWritten
<1>5. \A e \in Device : TableIn(h, n, files[e], disk'[e]) /\ ~FreshIn(h, n, files[e])
  <2>1. \A e \in Device : RowsOK(files[e])
    BY DEF Inv
  <2>2. QED  BY <1>1, <1>2, <2>1, UserWriteTable
<1> HIDE DEF h
<1>6. \A k \in Name \ {n} : Newest(h, k) = Newest(g, k)
  BY <1>3 DEF Newest
<1>7. \A e \in Device, k \in Name :
         disk'[e][k] = IF e = d /\ k = n THEN c ELSE disk[e][k]
  BY <1>0 DEF Inv, TypeOK
<1>8. \A e \in Device : /\ \A k \in Name \ {n} : disk[e][k] =
                              IF h[k] = <<>> THEN Absent ELSE Newest(h, k)
                        /\ disk[e][n] = Earlier(h, n)
  BY <1>2, <1>3, <1>6 DEF RestIn
<1>9. LogOK(h, n)
  BY <1>0, <1>1, <1>3, <1>8 DEF LogOK, Texts
<1>10. EpochFiles(h, n)'
  <2>1. \A e \in Device : DiskIn(h, n, e, disk'[e])
    BY <1>3, <1>7, <1>8 DEF DiskIn
  <2>2. QED  BY <1>0, <1>5, <2>1 DEF EpochFiles
<1>11. ASSUME NEW l \in Link
       PROVE  /\ watch'[l].at = "idle" /\ watch'[l].live
              /\ watch'[l].event <=> l[1] = d
  <2>1. /\ watch[l] \in Watch /\ watch[l].at = "idle" /\ watch[l].live
        /\ ~watch[l].event
    BY <1>0 DEF Inv, TypeOK, Rest, Settled, Quiescent
  <2>2. watch'[l] = IF l[1] = d THEN [watch[l] EXCEPT !.event = TRUE] ELSE watch[l]
    BY <1>0, <2>1 DEF Notified
  <2>3. QED  BY <2>1, <2>2 DEF Watch
<1>12. EpochWatch(h, n)'
  BY <1>3, <1>11 DEF EpochWatch, WatchIn
<1>13. EpochSends(h, n)' /\ EpochIdx(h, n)'
  <2>1. \A l \in Link : ~(sends'[l] > 0) /\ idx'[l] = <<>> /\ Len(idx'[l]) = 0
    BY <1>0, <1>2
  <2>2. QED  BY <2>1 DEF EpochSends, EpochIdx
<1>14. EpochTask(h, n)'
  <2>1. \A e \in Device, w \in Worker : task'[e][w].at = "idle" /\ ~task'[e][w].changed
    BY <1>0, <1>2
  <2>2. ASSUME NEW t, t.at = "idle", ~t.changed, NEW rows, NEW dk, NEW pk
        PROVE  TaskIn(h, n, t, rows, dk, pk)
    BY <2>2 DEF TaskIn, Fetches, Downloading
  <2>3. QED  BY <2>1, <2>2 DEF EpochTask
<1>15. Scanned(h, n)'
  BY <1>3, <1>11 DEF Scanned
<1>16. \A e \in Device : ~FreshIn(h, n, files'[e])
  BY <1>0, <1>5
<1>17. Told(h, n)' /\ Fetched(h, n)'
  BY <1>16, LinkEnds DEF Told, Fetched, DoneIn
<1>18. Epoch(h, n)'
  BY <1>4, <1>9, <1>10, <1>12, <1>13, <1>14, <1>15, <1>17 DEF Epoch
<1>19. QED  BY <1>18 DEF h

\* At rest only watchers start, other than a user's action.
LEMMA RestStays ==
    ASSUME Inv, NEW g, Rest(g), NEW l \in Link, WatchStart(l)
    PROVE  Rest(g)'
<1> DEFINE k == [WatchOff EXCEPT !.at = "idle", !.live = TRUE]
<1>1. /\ watch' = [watch EXCEPT ![l] = k]
      /\ UNCHANGED <<disk, files, task, sends, idx, up, written, overrun>>
  BY DEF WatchStart
<1>2. k.at = "idle" /\ k.live /\ ~k.event
  BY DEF WatchOff
<1> HIDE DEF k
<1>3. \A j \in Link : watch'[j] = IF j = l THEN k ELSE watch[j]
  BY <1>1, WatchPut
<1>4. EpochRest(g)'
  BY <1>1 DEF Rest, EpochRest
<1>5. QED  BY <1>1, <1>2, <1>3, <1>4 DEF Rest

LEMMA RestIsQuiet ==
    ASSUME Inv, NEW g, Rest(g)
    PROVE  /\ \A l \in Link : /\ ~SendIndex(l) /\ ~HandleSomeIndex(l[2], l[1])
                              /\ WatchStep(l) => WatchStart(l)
           /\ \A d \in Device, w \in Worker : ~TaskStep(d, w)
<1>1. ASSUME NEW l \in Link
      PROVE  /\ ~SendIndex(l) /\ ~HandleSomeIndex(l[2], l[1])
             /\ WatchStep(l) => WatchStart(l)
  <2>1. /\ ~(sends[l] > 0) /\ idx[l] = <<>> /\ watch[l].at \in {"off", "idle"}
        /\ ~watch[l].event
    BY DEF Rest
  <2>2. ~SendIndex(l)
    BY <2>1 DEF SendIndex
  <2>3. idx[<<l[1], l[2]>>] = <<>>
    BY <2>1, LinkEnds
  <2>4. ~HandleSomeIndex(l[2], l[1])
    <3>1. 1..Len(<<>>) = {}
      OBVIOUS
    <3>2. QED  BY <2>3, <3>1 DEF HandleSomeIndex
  <2>5. WatchStep(l) => WatchStart(l)
    BY <2>1 DEF WatchStep, GenerateIndex, ScanFile, ScanStore, ScanEnd
  <2>6. QED  BY <2>2, <2>4, <2>5
<1>2. ASSUME NEW d \in Device, NEW w \in Worker, TaskStep(d, w) PROVE FALSE
  <2>1. task[d][w].at = "idle"
    BY DEF Rest
  <2>2. ~IndexFile(d, w) /\ ~IndexEnd(d, w) /\ ~GetDirectory(d, w)
    BY <2>1 DEF IndexFile, IndexEnd, GetDirectory
  <2>3. ~GetFile(d, w) /\ ~HandleRequest(d, w) /\ ~GotBlock(d, w)
    BY <2>1 DEF GetFile, HandleRequest, GotBlock
  <2>4. ~StoreSynced(d, w) /\ ~GetDirectoryEnd(d, w)
    BY <2>1 DEF StoreSynced, GetDirectoryEnd
  <2>5. QED  BY <1>2, <2>2, <2>3, <2>4 DEF TaskStep
<1>3. QED  BY <1>1, <1>2

\* No connection is lost or made.
LEMMA NoFaults ==
    ASSUME OneByOne, Inv, up = Link
    PROVE  /\ \A l \in Link : ~Disconnect(l) /\ ~Connect(l)
           /\ \A d \in Device : ~Crash(d)
<1>1. ~(faults < MaxFaults)
  BY DEF OneByOne, Inv, TypeOK
<1>2. QED  BY <1>1 DEF Disconnect, Connect, Crash

(***************************************************************************)
(* The invariant: between two epochs, or in one.                           *)
(***************************************************************************)
Agreement == \E g : Rest(g) \/ \E m : Epoch(g, m)

LEMMA InitAgreement == Init => Agreement
  BY InitRest DEF Agreement

LEMMA NextAgreement ==
    ASSUME OneByOne, Inv, Agreement, [Next]_vars
    PROVE  Agreement'
<1>0. PICK g : Rest(g) \/ \E m : Epoch(g, m)
  BY DEF Agreement
<1>1. up = Link
  BY <1>0 DEF Rest, Epoch, EpochRest
<1>2. /\ \A l \in Link : ~Disconnect(l) /\ ~Connect(l)
      /\ \A d \in Device : ~Crash(d)
  BY <1>1, NoFaults
<1>3. CASE UNCHANGED vars
  <2>1. CASE Rest(g)
    <3>1. Rest(g)'
      BY <1>3, <2>1 DEF vars, Rest, EpochRest
    <3>2. QED  BY <3>1 DEF Agreement
  <2>2. ASSUME NEW m, Epoch(g, m) PROVE Agreement'
    <3>1. Epoch(g, m)'
      BY <1>3, <2>2 DEF vars, Epoch, EpochRest, EpochFiles, EpochWatch, EpochSends,
         EpochIdx, EpochTask, Scanned, Told, Fetched, Source
    <3>2. QED  BY <3>1 DEF Agreement
  <2>3. QED  BY <1>0, <2>1, <2>2
<1>4. ASSUME NEW d \in Editor, NEW n \in Name, NEW c \in UserContent,
             UserWrite(d, n, c)
      PROVE  Agreement'
  <2>1. Settled
    BY <1>4 DEF UserWrite, OneByOne
  <2>2. Rest(g)
    BY <1>0, <2>1, SettledRest
  <2>3. Epoch(Logged(g, n, d, c), n)'
    BY <1>4, <2>2, UserWriteEpoch
  <2>4. QED  BY <2>3 DEF Agreement
<1>5. CASE Rest(g)
  <2>1. /\ \A l \in Link : /\ ~SendIndex(l) /\ ~HandleSomeIndex(l[2], l[1])
                           /\ WatchStep(l) => WatchStart(l)
        /\ \A d \in Device, w \in Worker : ~TaskStep(d, w)
    BY <1>5, RestIsQuiet
  <2>2. ASSUME NEW l \in Link, WatchStart(l) PROVE Agreement'
    <3>1. Rest(g)'
      BY <1>5, <2>2, RestStays
    <3>2. QED  BY <3>1 DEF Agreement
  <2>3. QED  BY <1>2, <1>3, <1>4, <2>1, <2>2 DEF Next
<1>6. ASSUME NEW m, Epoch(g, m) PROVE Agreement'
  <2>1. ASSUME NEW l \in Link, WatchStep(l) \/ SendIndex(l) PROVE Epoch(g, m)'
    BY <1>6, <2>1, WatchStepEpoch, SendIndexEpoch
  <2>2. ASSUME NEW l \in Link, HandleSomeIndex(l[2], l[1]) PROVE Epoch(g, m)'
    BY <1>6, <2>2, LinkEnds, HandleIndexEpoch DEF HandleSomeIndex
  <2>3. ASSUME NEW d \in Device, NEW w \in Worker, TaskStep(d, w)
        PROVE  Epoch(g, m)'
    BY <1>6, <2>3, TaskStepEpoch
  <2>4. Epoch(g, m)' => Agreement'
    BY DEF Agreement
  <2>5. QED  BY <1>2, <1>3, <1>4, <2>1, <2>2, <2>3, <2>4 DEF Next
<1>7. QED  BY <1>0, <1>5, <1>6

\* What both say of the tables.
LEMMA AgreementTables ==
    ASSUME Inv, NEW g, Rest(g) \/ \E m : Epoch(g, m)
    PROVE  /\ overrun = {} /\ Texts(g)
           /\ \A n \in Name : written[n] = [k \in 1..Len(g[n]) |-> g[n][k].text]
           /\ \A d \in Device : \A i \in 1..Len(files[d]) : RowIn(g, files[d][i])
<1>1. CASE Rest(g)
  BY <1>1 DEF Rest, EpochRest, RestIn
<1>2. ASSUME NEW m, Epoch(g, m)
      PROVE  /\ overrun = {} /\ Texts(g)
             /\ \A n \in Name : written[n] = [k \in 1..Len(g[n]) |-> g[n][k].text]
             /\ \A d \in Device : \A i \in 1..Len(files[d]) : RowIn(g, files[d][i])
  BY <1>2 DEF Epoch, EpochRest, EpochFiles, TableIn, LogOK, Texts
<1>3. QED  BY <1>1, <1>2

LEMMA WrittenLog ==
    ASSUME NEW g, Texts(g), NEW n \in Name,
           written[n] = [k \in 1..Len(g[n]) |-> g[n][k].text], Inv
    PROVE  Len(written[n]) = Len(g[n]) /\ Len(g[n]) \in Nat
<1> DEFINE z == Len(g[n])
           r == written[n]
<1>1. z \in Nat /\ r \in Seq(Content) /\ DOMAIN r = 1..z
  BY DEF Texts, Inv, TypeOK
<1> HIDE DEF z, r
<1>2. Len(r) = z
  BY <1>1
<1>3. QED  BY <1>1, <1>2 DEF z, r

LEMMA AgreementCounts == ASSUME Inv, Agreement PROVE NoOverrun /\ VersionsPerEdit
<1>0. PICK g : Rest(g) \/ \E m : Epoch(g, m)
  BY DEF Agreement
<1>1. /\ overrun = {} /\ Texts(g)
      /\ \A n \in Name : written[n] = [k \in 1..Len(g[n]) |-> g[n][k].text]
      /\ \A d \in Device : \A i \in 1..Len(files[d]) : RowIn(g, files[d][i])
  BY <1>0, AgreementTables
<1>2. ASSUME NEW d \in Device, NEW i \in 1..Len(files[d])
      PROVE  Len(files[d][i].versions) <= Len(written[files[d][i].name])
  <2> DEFINE f == files[d][i]
  <2>1. RowOK(f) /\ RowIn(g, f)
    BY <1>1 DEF Inv, RowsOK
  <2> HIDE DEF f
  <2>2. f.name \in Name
    BY <2>1, RowFacts
  <2>3. Len(f.versions) <= Len(g[f.name])
    BY <2>1 DEF RowIn, Follows
  <2>4. Len(written[f.name]) = Len(g[f.name])
    BY <1>1, <2>2, WrittenLog
  <2>5. QED  BY <2>3, <2>4 DEF f
<1>3. QED  BY <1>1, <1>2 DEF NoOverrun, VersionsPerEdit

\* At rest the first row for a file has all of its history and its last content.
LEMMA RestFirst ==
    ASSUME NEW g, Texts(g), NEW rows, RowsOK(rows), NEW dk, RestIn(g, rows, dk),
           NEW n \in Name, HasRow(rows, n)
    PROVE  LET f == rows[FindFile(rows, n)]
           IN  /\ f.versions \in Seq(Version) /\ Len(f.versions) = Len(g[n])
               /\ \A k \in 1..Len(g[n]) :
                     f.versions[k] = [user |-> g[n][k].by, val |-> k - 1]
               /\ f.hash = Newest(g, n) /\ g[n] # <<>>
<1> DEFINE i == FindFile(rows, n)
           f == rows[i]
<1>1. i \in 1..Len(rows) /\ f.name = n
  BY FindFileFirst DEF RowsOK
<1>2. /\ RowOK(f) /\ RowIn(g, f) /\ Len(f.versions) = Len(g[n])
  <2>1. FindFile(rows, f.name) = i
    BY <1>1
  <2>2. QED  BY <1>1, <2>1 DEF RowsOK, RestIn
<1> HIDE DEF f
<1>3. f.versions \in Seq(Version) /\ Len(f.versions) >= 1
  BY <1>2, RowFacts
<1>4. f.hash = Newest(g, n) /\ Follows(g, n, f.versions)
  BY <1>1, <1>2 DEF RowIn
<1>5. g[n] # <<>>
  <2>1. Len(<<>>) = 0 /\ ~(0 >= 1)
    OBVIOUS
  <2>2. Len(g[n]) >= 1
    BY <1>2, <1>3
  <2>3. QED  BY <2>1, <2>2
<1>6. \A k \in 1..Len(g[n]) : f.versions[k] = [user |-> g[n][k].by, val |-> k - 1]
  BY <1>2, <1>4 DEF Follows
<1>7. QED  BY <1>2, <1>3, <1>4, <1>5, <1>6 DEF f

LEMMA AgreementSettled ==
    ASSUME OneByOne, Inv, Agreement
    PROVE  LastEditEverywhere /\ HistoriesAgree
<1> SUFFICES ASSUME Settled
    PROVE  /\ \A d \in Device, n \in Name :
                 written[n] # <<>> => disk[d][n] = written[n][Len(written[n])]
           /\ \A n \in Name, d, e \in Device :
                 Knows(d, n) => /\ Knows(e, n)
                                /\ RowOf(d, n).versions = RowOf(e, n).versions
  BY DEF LastEditEverywhere, HistoriesAgree
<1>0. PICK g : Rest(g)
  BY SettledRest DEF Agreement
<1>1. /\ Texts(g) /\ \A d \in Device : RestIn(g, files[d], disk[d])
      /\ \A n \in Name : written[n] = [k \in 1..Len(g[n]) |-> g[n][k].text]
  BY <1>0, AgreementTables DEF Rest
<1>2. ASSUME NEW d \in Device, NEW n \in Name, written[n] # <<>>
      PROVE  disk[d][n] = written[n][Len(written[n])]
  <2> DEFINE z == Len(g[n])
             r == written[n]
  <2>1. Len(r) = z /\ z \in Nat /\ r \in Seq(Content)
    BY <1>1, WrittenLog DEF Inv, TypeOK
  <2>2. z # 0 /\ g[n] # <<>>
    <3>1. z # 0
      BY <1>2, <2>1, EmptySeq
    <3>2. Len(<<>>) = 0
      OBVIOUS
    <3>3. QED  BY <3>1, <3>2
  <2>3. z \in 1..z
    <3> HIDE DEF z
    <3>1. QED  BY <2>1, <2>2
  <2>4. r[z] = Newest(g, n)
    BY <1>1, <2>3 DEF Newest
  <2>5. disk[d][n] = Newest(g, n)
    BY <1>1, <2>2 DEF RestIn
  <2>6. QED  BY <2>1, <2>4, <2>5
<1>3. ASSUME NEW n \in Name, NEW d \in Device, NEW e \in Device, Knows(d, n)
      PROVE  Knows(e, n) /\ RowOf(d, n).versions = RowOf(e, n).versions
  <2> DEFINE a == RowOf(d, n).versions
             b == RowOf(e, n).versions
  <2>1. ASSUME NEW c \in Device, HasRow(files[c], n)
        PROVE  /\ RowOf(c, n).versions \in Seq(Version) /\ g[n] # <<>>
               /\ Len(RowOf(c, n).versions) = Len(g[n])
               /\ \A k \in 1..Len(g[n]) :
                     RowOf(c, n).versions[k] = [user |-> g[n][k].by, val |-> k - 1]
    <3>1. RowsOK(files[c]) /\ RestIn(g, files[c], disk[c])
      BY <1>1 DEF Inv
    <3>2. QED  BY <1>1, <2>1, <3>1, RestFirst DEF RowOf
  <2>2. /\ a \in Seq(Version) /\ Len(a) = Len(g[n]) /\ g[n] # <<>>
        /\ \A k \in 1..Len(g[n]) : a[k] = [user |-> g[n][k].by, val |-> k - 1]
    BY <1>3, <2>1 DEF Knows
  <2>3. HasRow(files[e], n)
    BY <1>1, <2>2 DEF RestIn
  <2>4. /\ b \in Seq(Version) /\ Len(b) = Len(g[n])
        /\ \A k \in 1..Len(g[n]) : b[k] = [user |-> g[n][k].by, val |-> k - 1]
    BY <2>3, <2>1
  <2> HIDE DEF a, b
  <2>5. a = b
    <3>1. Len(a) = Len(b) /\ \A k \in 1..Len(a) : a[k] = b[k]
      BY <2>2, <2>4
    <3>2. QED  BY <2>2, <2>4, <3>1, SeqEqual
  <2>6. QED  BY <2>3, <2>5 DEF Knows, a, b
<1>4. QED  BY <1>2, <1>3

\* In an epoch too, the first row's history tells its hash.
LEMMA EpochFirst ==
    ASSUME NEW g, NEW m, LogOK(g, m), NEW rows, RowsOK(rows), NEW dk,
           TableIn(g, m, rows, dk), NEW n \in Name, HasRow(rows, n)
    PROVE  LET f == rows[FindFile(rows, n)]
           IN  f.hash = IF Len(f.versions) = Len(g[n]) THEN Newest(g, n)
                        ELSE Earlier(g, m)
<1> DEFINE f == rows[FindFile(rows, n)]
<1>1. f.name = n /\ RowIn(g, f) /\ FirstIn(g, m, f)
  BY FirstFacts
<1> HIDE DEF f
<1>2. CASE Len(f.versions) = Len(g[n])
  BY <1>1, <1>2 DEF RowIn, f
<1>3. CASE Len(f.versions) # Len(g[n])
  BY <1>1, <1>3 DEF FirstIn, f
<1>4. QED  BY <1>2, <1>3

LEMMA AgreementContent == ASSUME Inv, Agreement PROVE VersionNamesContent
<1> SUFFICES ASSUME NEW n \in Name, NEW d \in Device, NEW e \in Device,
                    Knows(d, n), Knows(e, n),
                    RowOf(d, n).versions = RowOf(e, n).versions
             PROVE  RowOf(d, n).hash = RowOf(e, n).hash
  BY DEF VersionNamesContent
<1>0. PICK g : Rest(g) \/ \E m : Epoch(g, m)
  BY DEF Agreement
<1>1. /\ RowsOK(files[d]) /\ RowsOK(files[e])
      /\ HasRow(files[d], n) /\ HasRow(files[e], n)
  BY DEF Inv, Knows
<1>2. CASE Rest(g)
  BY <1>1, <1>2, RestFirst DEF Rest, RowOf
<1>3. ASSUME NEW m, Epoch(g, m)
      PROVE  RowOf(d, n).hash = RowOf(e, n).hash
  <2>1. /\ LogOK(g, m) /\ TableIn(g, m, files[d], disk[d])
        /\ TableIn(g, m, files[e], disk[e])
    BY <1>3, EpochParts DEF EpochFiles
  <2>2. /\ RowOf(d, n).hash = IF Len(RowOf(d, n).versions) = Len(g[n])
                              THEN Newest(g, n) ELSE Earlier(g, m)
        /\ RowOf(e, n).hash = IF Len(RowOf(e, n).versions) = Len(g[n])
                              THEN Newest(g, n) ELSE Earlier(g, m)
    BY <1>1, <2>1, EpochFirst DEF RowOf
  <2>3. QED  BY <2>2
<1>4. QED  BY <1>0, <1>2, <1>3

LEMMA AlwaysAgreement == ASSUME OneByOne PROVE Spec => [](Inv /\ Agreement)
<1>1. Init => Inv /\ Agreement
  BY InitInv, InitAgreement
<1>2. Inv /\ Agreement /\ [Next]_vars => (Inv /\ Agreement)'
  BY NextInv, NextAgreement
<1>3. QED  BY <1>1, <1>2, PTL DEF Spec
-----------------------------------------------------------------------------
(***************************************************************************)
(* For any connected network, any number of files, handlers and edits:     *)
(* while users act one at a time on files of one block and no connection   *)
(* is lost, the assertion in update_sync_file never fails, however the     *)
(* watchers of a device, its Index handlers and its downloads interleave.  *)
(***************************************************************************)
THEOREM AssertionNeverFails == ASSUME OneByOne PROVE Spec => []NoOverrun
<1>1. Inv /\ Agreement => NoOverrun
  BY AgreementCounts
<1>2. QED  BY <1>1, AlwaysAgreement, PTL

(***************************************************************************)
(* ... a version stands for an edit: generate_index never takes what a     *)
(* download has written for a change by the user, nor does a second watcher*)
(* count a change twice.                                                   *)
(***************************************************************************)
THEOREM NoVersionWithoutEdit == ASSUME OneByOne PROVE Spec => []VersionsPerEdit
<1>1. Inv /\ Agreement => VersionsPerEdit
  BY AgreementCounts
<1>2. QED  BY <1>1, AlwaysAgreement, PTL

(***************************************************************************)
(* ... when all activity has ended, every device has the content that was  *)
(* written last: the scan, the Index and the download that an edit calls   *)
(* for are not forgotten on any way through the network.                   *)
(***************************************************************************)
THEOREM LastEditArrives == ASSUME OneByOne PROVE Spec => []LastEditEverywhere
<1>1. Inv /\ Agreement => LastEditEverywhere
  BY AgreementSettled
<1>2. QED  BY <1>1, AlwaysAgreement, PTL

(***************************************************************************)
(* ... and then all tables have the same history of each file.             *)
(***************************************************************************)
THEOREM HistoriesComeToAgree == ASSUME OneByOne PROVE Spec => []HistoriesAgree
<1>1. Inv /\ Agreement => HistoriesAgree
  BY AgreementSettled
<1>2. QED  BY <1>1, AlwaysAgreement, PTL

(***************************************************************************)
(* ... at all times, tables with the same history of a file have the same  *)
(* hash for it, whether a scan or an announcement has stored the row.      *)
(***************************************************************************)
THEOREM HistoryNamesContent == ASSUME OneByOne PROVE Spec => []VersionNamesContent
<1>1. Inv /\ Agreement => VersionNamesContent
  BY AgreementContent
<1>2. QED  BY <1>1, AlwaysAgreement, PTL
=============================================================================
