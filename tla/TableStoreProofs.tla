-------------------------- MODULE TableStoreProofs --------------------------
(***************************************************************************)
(* update_sync_file as a list of statements implements the table that the  *)
(* rest of the program sees, for any number of tasks, rows and crashes.    *)
(***************************************************************************)
EXTENDS TableStore, SyncFilesProofs, FiniteSetTheorems

(***************************************************************************)
(* The parts of a row, and of a row put together from such parts.          *)
(***************************************************************************)
LEMMA FileParts ==
    ASSUME NEW f \in File
    PROVE  /\ f.name \in Name /\ f.hash \in Content /\ f.synced \in Nat
           /\ f.versions \in Seq(Version) /\ f.blocks \in Seq(SyncBlock)
  BY DEF File

LEMMA StoredIsFile ==
    ASSUME NEW f \in File, NEW vs \in Seq(Version), NEW bs \in Seq(SyncBlock)
    PROVE  /\ Stored(f, vs, bs) \in File
           /\ Stored(f, vs, bs).name = f.name
           /\ Stored(f, vs, bs).hash = f.hash
           /\ Stored(f, vs, bs).synced = f.synced
           /\ Stored(f, vs, bs).versions = vs
           /\ Stored(f, vs, bs).blocks = bs
  BY FileParts DEF Stored, File

LEMMA RowIsFile ==
    ASSUME NEW f \in Row
    PROVE  /\ f \in File
           /\ f.versions \in Seq(Version) /\ f.versions # <<>>
           /\ f.blocks \in Seq(SyncBlock) /\ f.blocks # <<>>
           /\ f.name \in Name
  BY RowAssumption, FileParts

LEMMA StoredWhole ==
    ASSUME NEW f \in File
    PROVE  Stored(f, f.versions, f.blocks) = f
  BY DEF Stored, File

(***************************************************************************)
(* The versions that are inserted go behind those that are there; into a   *)
(* row that has none, all of the caller's go.                              *)
(***************************************************************************)
LEMMA MergeExtends ==
    ASSUME NEW old \in Seq(Version), NEW new \in Seq(Version), Len(old) <= Len(new)
    PROVE  /\ MergeVersions(old, new) \in Seq(Version)
           /\ Len(MergeVersions(old, new)) = Len(new)
           /\ \A k \in 1..Len(old) : MergeVersions(old, new)[k] = old[k]
  <1> DEFINE m == MergeVersions(old, new)
  <1>1. m \in [1..Len(new) -> Version]
    BY ElementOfSeq DEF MergeVersions
  <1>2. m \in Seq(Version) /\ Len(m) = Len(new)
    BY <1>1, FunIsSeq
  <1>3. \A k \in 1..Len(new) : m[k] = IF k <= Len(old) THEN old[k] ELSE new[k]
    BY DEF MergeVersions
  <1> QED  BY <1>2, <1>3

LEMMA MergeIntoNone ==
    ASSUME NEW old \in Seq(Version), Len(old) = 0, NEW vs \in Seq(Version)
    PROVE  MergeVersions(old, vs) = vs
  <1> DEFINE m == MergeVersions(old, vs)
  <1>1. m \in [1..Len(vs) -> Version]
    BY ElementOfSeq DEF MergeVersions
  <1>2. m \in Seq(Version) /\ Len(m) = Len(vs)
    BY <1>1, FunIsSeq
  <1>3. \A k \in 1..Len(vs) : m[k] = vs[k]
    BY DEF MergeVersions
  <1> HIDE DEF m
  <1>4. m = vs
    BY <1>2, <1>3, SeqEqual
  <1> QED  BY <1>4 DEF m

(***************************************************************************)
(* Where an update has come to: new is tab with the row of the update, the *)
(* one with the id or the one after the last, made g.                      *)
(***************************************************************************)
OldVersions(tab, id) == IF id = 0 THEN <<>> ELSE tab[id].versions
OldBlocks(tab, id)   == IF id = 0 THEN <<>> ELSE tab[id].blocks

WithRow(new, tab, id, g) ==
    /\ new \in Seq(File) /\ g \in File
    /\ Len(new) = IF id = 0 THEN Len(tab) + 1 ELSE Len(tab)
    /\ \A i \in 1..Len(new) : new[i] = IF i = RowId(tab, id) THEN g ELSE tab[i]

LEMMA OldIsTyped ==
    ASSUME NEW tab \in Seq(File), NEW id \in 0..Len(tab)
    PROVE  /\ OldVersions(tab, id) \in Seq(Version)
           /\ OldBlocks(tab, id) \in Seq(SyncBlock)
  <1>1. CASE id = 0
    BY <1>1 DEF OldVersions, OldBlocks
  <1>2. CASE id # 0
    BY <1>2, FileParts DEF OldVersions, OldBlocks
  <1> QED  BY <1>1, <1>2

LEMMA WithRowUnique ==
    ASSUME NEW tab, NEW id, NEW g, NEW new, NEW other,
           WithRow(new, tab, id, g), WithRow(other, tab, id, g)
    PROVE  new = other
  <1>1. new \in Seq(File) /\ other \in Seq(File) /\ Len(new) = Len(other)
    BY DEF WithRow
  <1>2. \A i \in 1..Len(new) : new[i] = other[i]
    BY <1>1 DEF WithRow
  <1> QED  BY <1>1, <1>2, SeqEqual

LEMMA RowIdInTable ==
    ASSUME NEW tab \in Seq(File), NEW id \in 0..Len(tab), NEW new, NEW g,
           WithRow(new, tab, id, g)
    PROVE  /\ RowId(tab, id) \in 1..Len(new)
           /\ new[RowId(tab, id)] = g
  <1>1. RowId(tab, id) \in 1..Len(new)
    BY DEF WithRow, RowId
  <1> QED  BY <1>1 DEF WithRow

\* A statement that makes the row of the update another one.
LEMMA ChangeRow ==
    ASSUME NEW tab \in Seq(File), NEW id \in 0..Len(tab), NEW new, NEW g,
           WithRow(new, tab, id, g), NEW h \in File
    PROVE  WithRow([new EXCEPT ![RowId(tab, id)] = h], tab, id, h)
  <1> DEFINE k == RowId(tab, id)
  <1>1. k \in 1..Len(new) /\ new \in Seq(File)
    BY RowIdInTable DEF WithRow
  <1> HIDE DEF k
  <1>2. /\ [new EXCEPT ![k] = h] \in Seq(File)
        /\ Len([new EXCEPT ![k] = h]) = Len(new)
        /\ \A i \in 1..Len(new) :
              [new EXCEPT ![k] = h][i] = IF i = k THEN h ELSE new[i]
    BY <1>1, ExceptSeq
  <1>3. \A i \in 1..Len(new) : i # k => new[i] = tab[i]
    BY DEF WithRow, k
  <1> QED  BY <1>2, <1>3 DEF WithRow, k

LEMMA ColumnsRow ==
    ASSUME NEW tab \in Seq(File), NEW id \in 0..Len(tab), NEW f \in Row
    PROVE  WithRow(Columns(tab, id, f), tab, id,
                   Stored(f, OldVersions(tab, id), OldBlocks(tab, id)))
  <1> DEFINE g == Stored(f, OldVersions(tab, id), OldBlocks(tab, id))
             new == Columns(tab, id, f)
  <1>1. g \in File
    BY OldIsTyped, RowIsFile, StoredIsFile
  <1>2. CASE id = 0
    <2>1. new = Append(tab, g)
      BY <1>2 DEF Columns, OldVersions, OldBlocks
    <2> HIDE DEF g, new
    <2>2. new \in Seq(File) /\ Len(new) = Len(tab) + 1
      BY <1>1, <2>1, AppendProperties
    <2>3. \A i \in 1..Len(new) : new[i] = IF i = Len(tab) + 1 THEN g ELSE tab[i]
      BY <1>1, <2>1, <2>2, AppendProperties
    <2> QED  BY <1>1, <1>2, <2>2, <2>3 DEF WithRow, RowId, g, new
  <1>3. CASE id # 0
    <2>1. new = [tab EXCEPT ![id] = g]
      BY <1>3 DEF Columns, OldVersions, OldBlocks
    <2> HIDE DEF g, new
    <2>2. /\ new \in Seq(File) /\ Len(new) = Len(tab)
          /\ \A i \in 1..Len(tab) : new[i] = IF i = id THEN g ELSE tab[i]
      BY <1>1, <1>3, <2>1, ExceptSeq
    <2> QED  BY <1>1, <1>3, <2>2 DEF WithRow, RowId, g, new
  <1> QED  BY <1>2, <1>3

\* The stored versions are the first of the merged ones when the assertion holds.
LEMMA FitMerges ==
    ASSUME NEW tab \in Seq(File), NEW id \in 0..Len(tab), NEW f \in Row,
           VersionsFit(tab, id, f)
    PROVE  LET old == OldVersions(tab, id)
               m   == MergeVersions(old, f.versions)
           IN  /\ m \in Seq(Version) /\ Len(old) <= Len(m)
               /\ \A k \in 1..Len(old) : m[k] = old[k]
  <1> DEFINE old == OldVersions(tab, id)
  <1>1. old \in Seq(Version) /\ f.versions \in Seq(Version)
    BY OldIsTyped, RowIsFile
  <1>2. Len(old) <= Len(f.versions)
    <2>1. CASE id = 0
      <3>1. Len(old) = 0 /\ Len(f.versions) \in Nat
        BY <2>1, <1>1, LenProperties DEF OldVersions
      <3> QED  BY <3>1
    <2>2. CASE id # 0
      BY <2>2 DEF OldVersions, VersionsFit
    <2> QED  BY <2>1, <2>2
  <1> HIDE DEF old
  <1>3. /\ MergeVersions(old, f.versions) \in Seq(Version)
        /\ Len(MergeVersions(old, f.versions)) = Len(f.versions)
        /\ \A k \in 1..Len(old) : MergeVersions(old, f.versions)[k] = old[k]
    BY <1>1, <1>2, MergeExtends
  <1> QED  BY <1>2, <1>3 DEF old

LEMMA VersionsRow ==
    ASSUME NEW tab \in Seq(File), NEW id \in 0..Len(tab), NEW f \in Row,
           VersionsFit(tab, id, f)
    PROVE  WithRow(WithVersions(tab, id, f), tab, id,
                   Stored(f, MergeVersions(OldVersions(tab, id), f.versions),
                          OldBlocks(tab, id)))
  <1> DEFINE vs  == OldVersions(tab, id)
             bs  == OldBlocks(tab, id)
             m   == MergeVersions(vs, f.versions)
             new == Columns(tab, id, f)
             k   == RowId(tab, id)
  <1>1. /\ f \in File /\ vs \in Seq(Version) /\ bs \in Seq(SyncBlock)
        /\ m \in Seq(Version)
    BY OldIsTyped, RowIsFile, FitMerges
  <1>2. WithRow(new, tab, id, Stored(f, vs, bs))
    BY ColumnsRow
  <1>3. WithVersions(tab, id, f) =
            [new EXCEPT ![k] = Stored(new[k], MergeVersions(new[k].versions, f.versions),
                                      new[k].blocks)]
    BY DEF WithVersions, AddVersions
  <1> HIDE DEF vs, bs, m, new, k
  <1>4. new[k] = Stored(f, vs, bs)
    BY <1>2, RowIdInTable DEF k
  <1>5. new[k].versions = vs /\ new[k].blocks = bs
    BY <1>1, <1>4, StoredIsFile
  <1>a. Stored(new[k], m, bs) = Stored(f, m, bs)
    BY <1>4 DEF Stored
  <1>6. WithVersions(tab, id, f) = [new EXCEPT ![k] = Stored(f, m, bs)]
    BY <1>3, <1>5, <1>a, Zenon DEF m
  <1>7. Stored(f, m, bs) \in File
    BY <1>1, StoredIsFile
  <1>8. WithRow([new EXCEPT ![k] = Stored(f, m, bs)], tab, id, Stored(f, m, bs))
    BY <1>2, <1>7, ChangeRow DEF k
  <1> QED  BY <1>6, <1>8 DEF vs, bs, m

\* A statement on the blocks of the row.
LEMMA BlocksRow ==
    ASSUME NEW tab \in Seq(File), NEW id \in 0..Len(tab), NEW f \in File,
           NEW vs \in Seq(Version), NEW bs \in Seq(SyncBlock), NEW cs \in Seq(SyncBlock),
           NEW new, WithRow(new, tab, id, Stored(f, vs, bs))
    PROVE  WithRow(SetBlocks(new, RowId(tab, id), cs), tab, id, Stored(f, vs, cs))
  <1> DEFINE k == RowId(tab, id)
  <1>1. SetBlocks(new, k, cs) = [new EXCEPT ![k] = Stored(new[k], new[k].versions, cs)]
    BY DEF SetBlocks
  <1> HIDE DEF k
  <1>2. new[k] = Stored(f, vs, bs)
    BY RowIdInTable DEF k
  <1>3. new[k].versions = vs
    BY <1>2, StoredIsFile
  <1>a. Stored(new[k], vs, cs) = Stored(f, vs, cs)
    BY <1>2 DEF Stored
  <1>4. SetBlocks(new, k, cs) = [new EXCEPT ![k] = Stored(f, vs, cs)]
    BY <1>1, <1>3, <1>a, Zenon
  <1>5. Stored(f, vs, cs) \in File
    BY StoredIsFile
  <1>6. WithRow([new EXCEPT ![k] = Stored(f, vs, cs)], tab, id, Stored(f, vs, cs))
    BY <1>5, ChangeRow DEF k
  <1> QED  BY <1>4, <1>6 DEF k

LEMMA WithoutBlocksRow ==
    ASSUME NEW tab \in Seq(File), NEW id \in 0..Len(tab), NEW f \in Row,
           VersionsFit(tab, id, f)
    PROVE  WithRow(WithoutBlocks(tab, id, f), tab, id,
                   Stored(f, MergeVersions(OldVersions(tab, id), f.versions), <<>>))
  <1> DEFINE m == MergeVersions(OldVersions(tab, id), f.versions)
  <1>1. f \in File /\ m \in Seq(Version) /\ OldBlocks(tab, id) \in Seq(SyncBlock)
    BY OldIsTyped, RowIsFile, FitMerges
  <1>2. WithRow(WithVersions(tab, id, f), tab, id, Stored(f, m, OldBlocks(tab, id)))
    BY VersionsRow
  <1>3. <<>> \in Seq(SyncBlock)
    OBVIOUS
  <1> HIDE DEF m
  <1>4. WithRow(SetBlocks(WithVersions(tab, id, f), RowId(tab, id), <<>>), tab, id,
                Stored(f, m, <<>>))
    BY <1>1, <1>2, <1>3, BlocksRow
  <1> QED  BY <1>4 DEF WithoutBlocks, m

(***************************************************************************)
(* The last statement makes of the table what update_sync_file as one step *)
(* makes of it; and so does the first, when the assertion fails.           *)
(***************************************************************************)
LEMMA UpdateRow ==
    ASSUME NEW tab \in Seq(File), NEW id \in 0..Len(tab), NEW f \in Row,
           VersionsFit(tab, id, f)
    PROVE  WithRow(UpdateSyncFile(tab, id, f), tab, id,
                   Stored(f, MergeVersions(OldVersions(tab, id), f.versions), f.blocks))
  <1> DEFINE m == MergeVersions(OldVersions(tab, id), f.versions)
             g == Stored(f, m, f.blocks)
             new == UpdateSyncFile(tab, id, f)
  <1>1. g \in File
    BY RowIsFile, FitMerges, StoredIsFile
  <1>2. CASE id = 0
    <2>1. m = f.versions
      <3>1. OldVersions(tab, id) \in Seq(Version) /\ Len(OldVersions(tab, id)) = 0
        BY <1>2, OldIsTyped DEF OldVersions
      <3> QED  BY <3>1, RowIsFile, MergeIntoNone
    <2>2. g = f
      BY <2>1, RowIsFile, StoredWhole
    <2>3. new = Append(tab, g)
      BY <1>2, <2>2 DEF UpdateSyncFile
    <2> HIDE DEF g, new
    <2>4. new \in Seq(File) /\ Len(new) = Len(tab) + 1
      BY <1>1, <2>3, AppendProperties
    <2>5. \A i \in 1..Len(new) : new[i] = IF i = Len(tab) + 1 THEN g ELSE tab[i]
      BY <1>1, <2>3, <2>4, AppendProperties
    <2> QED  BY <1>1, <1>2, <2>4, <2>5 DEF WithRow, RowId, g, new
  <1>3. CASE id # 0
    <2>1. f.blocks # <<>>
      BY RowIsFile
    <2>2. new = [tab EXCEPT ![id] = g]
      BY <1>3, <2>1 DEF UpdateSyncFile, OldVersions, Stored
    <2> HIDE DEF g, new
    <2>3. /\ new \in Seq(File) /\ Len(new) = Len(tab)
          /\ \A i \in 1..Len(tab) : new[i] = IF i = id THEN g ELSE tab[i]
      BY <1>1, <1>3, <2>2, ExceptSeq
    <2> QED  BY <1>1, <1>3, <2>3 DEF WithRow, RowId, g, new
  <1> QED  BY <1>2, <1>3

LEMMA StatementsUpdate ==
    ASSUME NEW tab \in Seq(File), NEW id \in 0..Len(tab), NEW f \in Row,
           VersionsFit(tab, id, f)
    PROVE  SetBlocks(WithoutBlocks(tab, id, f), RowId(tab, id), f.blocks)
              = UpdateSyncFile(tab, id, f)
  <1> DEFINE m == MergeVersions(OldVersions(tab, id), f.versions)
  <1>1. f \in File /\ m \in Seq(Version) /\ f.blocks \in Seq(SyncBlock)
    BY RowIsFile, FitMerges
  <1>2. <<>> \in Seq(SyncBlock)
    OBVIOUS
  <1>3. /\ WithRow(WithoutBlocks(tab, id, f), tab, id, Stored(f, m, <<>>))
        /\ WithRow(UpdateSyncFile(tab, id, f), tab, id, Stored(f, m, f.blocks))
    BY WithoutBlocksRow, UpdateRow
  <1> HIDE DEF m
  <1>4. WithRow(SetBlocks(WithoutBlocks(tab, id, f), RowId(tab, id), f.blocks), tab, id,
                Stored(f, m, f.blocks))
    BY <1>1, <1>2, <1>3, BlocksRow
  <1> QED  BY <1>3, <1>4, WithRowUnique

LEMMA FailedUpdate ==
    ASSUME NEW tab \in Seq(File), NEW id \in 0..Len(tab), NEW f \in Row,
           ~VersionsFit(tab, id, f)
    PROVE  Columns(tab, id, f) = UpdateSyncFile(tab, id, f)
  <1>1. id # 0
    BY DEF VersionsFit
  <1> QED  BY <1>1 DEF Columns, UpdateSyncFile, Stored

(***************************************************************************)
(* What a statement on the row of the update does to the histories.        *)
(***************************************************************************)
LEMMA RowExtends ==
    ASSUME NEW tab \in Seq(File), NEW id \in 0..Len(tab), NEW new, NEW other, NEW g, NEW h,
           WithRow(new, tab, id, g), WithRow(other, tab, id, h), h.name = g.name,
           Len(g.versions) <= Len(h.versions),
           \A k \in 1..Len(g.versions) : h.versions[k] = g.versions[k]
    PROVE  Extends(new, other)
  <1>1. new \in Seq(File) /\ other \in Seq(File) /\ Len(other) = Len(new) /\ Len(new) \in Nat
    BY DEF WithRow
  <1>2. ASSUME NEW i \in 1..Len(new)
        PROVE  /\ other[i].name = new[i].name
               /\ Len(new[i].versions) <= Len(other[i].versions)
               /\ \A k \in 1..Len(new[i].versions) : other[i].versions[k] = new[i].versions[k]
    <2>1. CASE i = RowId(tab, id)
      <3>1. new[i] = g /\ other[i] = h
        BY <2>1, <1>1 DEF WithRow
      <3> QED  BY <3>1
    <2>2. CASE i # RowId(tab, id)
      <3>1. new[i] = other[i]
        BY <2>2, <1>1 DEF WithRow
      <3>2. Len(new[i].versions) \in Nat
        BY <1>1, FileParts
      <3> QED  BY <3>1, <3>2
    <2> QED  BY <2>1, <2>2
  <1> QED  BY <1>1, <1>2 DEF Extends

LEMMA UpdatedExtends ==
    ASSUME NEW tab \in Seq(File), NEW id \in 0..Len(tab), NEW new, NEW g,
           WithRow(new, tab, id, g), id # 0 => tab[id].name = g.name,
           Len(OldVersions(tab, id)) <= Len(g.versions),
           \A k \in 1..Len(OldVersions(tab, id)) :
              g.versions[k] = OldVersions(tab, id)[k]
    PROVE  Extends(tab, new)
  <1>1. /\ new \in Seq(File) /\ Len(tab) \in Nat
        /\ Len(new) = IF id = 0 THEN Len(tab) + 1 ELSE Len(tab)
    BY DEF WithRow
  <1>2. ASSUME NEW i \in 1..Len(tab)
        PROVE  /\ new[i].name = tab[i].name
               /\ Len(tab[i].versions) <= Len(new[i].versions)
               /\ \A k \in 1..Len(tab[i].versions) : new[i].versions[k] = tab[i].versions[k]
    <2>1. CASE i = id
      <3>1. new[i] = g /\ OldVersions(tab, id) = tab[i].versions
        BY <2>1, <1>1 DEF WithRow, RowId, OldVersions
      <3> QED  BY <2>1, <3>1
    <2>2. CASE i # id
      <3>1. new[i] = tab[i]
        BY <2>2, <1>1 DEF WithRow, RowId
      <3>2. Len(tab[i].versions) \in Nat
        BY FileParts
      <3> QED  BY <3>1, <3>2
    <2> QED  BY <2>1, <2>2
  <1> QED  BY <1>1, <1>2 DEF Extends

LEMMA SameFilesStay ==
    ASSUME NEW snap \in Seq(File), NEW tab \in Seq(File), NEW new \in Seq(File),
           SameFiles(snap, tab), Extends(tab, new)
    PROVE  SameFiles(snap, new)
  BY DEF SameFiles, Extends

LEMMA ExtendsSame ==
    ASSUME NEW tab \in Seq(File)
    PROVE  Extends(tab, tab)
  <1>1. \A i \in 1..Len(tab) : Len(tab[i].versions) \in Nat
    BY FileParts
  <1> QED  BY <1>1 DEF Extends

\* The rows an update leaves at each of its statements.
LEMMA StatementsExtend ==
    ASSUME NEW tab \in Seq(File), NEW id \in 0..Len(tab), NEW f \in Row,
           id # 0 => tab[id].name = f.name
    PROVE  /\ Columns(tab, id, f) \in Seq(File)
           /\ Extends(tab, Columns(tab, id, f))
           /\ VersionsFit(tab, id, f) =>
                 /\ WithVersions(tab, id, f) \in Seq(File)
                 /\ WithoutBlocks(tab, id, f) \in Seq(File)
                 /\ UpdateSyncFile(tab, id, f) \in Seq(File)
                 /\ Extends(Columns(tab, id, f), WithVersions(tab, id, f))
                 /\ Extends(WithVersions(tab, id, f), WithoutBlocks(tab, id, f))
                 /\ Extends(WithoutBlocks(tab, id, f), UpdateSyncFile(tab, id, f))
                 /\ Extends(tab, UpdateSyncFile(tab, id, f))
  <1> DEFINE vs == OldVersions(tab, id)
             bs == OldBlocks(tab, id)
             m  == MergeVersions(vs, f.versions)
  <1>1. /\ f \in File /\ vs \in Seq(Version) /\ bs \in Seq(SyncBlock)
        /\ f.blocks \in Seq(SyncBlock) /\ <<>> \in Seq(SyncBlock) /\ Len(vs) \in Nat
    BY OldIsTyped, RowIsFile, LenProperties
  <1>2. WithRow(Columns(tab, id, f), tab, id, Stored(f, vs, bs))
    BY ColumnsRow
  <1>3. Stored(f, vs, bs).versions = vs /\ Stored(f, vs, bs).name = f.name
    BY <1>1, StoredIsFile
  <1>4. Columns(tab, id, f) \in Seq(File) /\ Extends(tab, Columns(tab, id, f))
    <2> DEFINE g == Stored(f, vs, bs)
    <2>1. Columns(tab, id, f) \in Seq(File)
      BY <1>2 DEF WithRow
    <2>2. WithRow(Columns(tab, id, f), tab, id, g) /\ g.versions = vs /\ g.name = f.name
      BY <1>2, <1>3
    <2> HIDE DEF g
    <2>3. /\ id # 0 => tab[id].name = g.name
          /\ Len(vs) <= Len(g.versions)
          /\ \A k \in 1..Len(vs) : g.versions[k] = vs[k]
      BY <1>1, <2>2
    <2> QED  BY <2>1, <2>2, <2>3, UpdatedExtends
  <1>5. ASSUME VersionsFit(tab, id, f)
        PROVE  /\ WithVersions(tab, id, f) \in Seq(File)
               /\ WithoutBlocks(tab, id, f) \in Seq(File)
               /\ UpdateSyncFile(tab, id, f) \in Seq(File)
               /\ Extends(Columns(tab, id, f), WithVersions(tab, id, f))
               /\ Extends(WithVersions(tab, id, f), WithoutBlocks(tab, id, f))
               /\ Extends(WithoutBlocks(tab, id, f), UpdateSyncFile(tab, id, f))
               /\ Extends(tab, UpdateSyncFile(tab, id, f))
    <2>1. /\ WithRow(WithVersions(tab, id, f), tab, id, Stored(f, m, bs))
          /\ WithRow(WithoutBlocks(tab, id, f), tab, id, Stored(f, m, <<>>))
          /\ WithRow(UpdateSyncFile(tab, id, f), tab, id, Stored(f, m, f.blocks))
      BY <1>5, VersionsRow, WithoutBlocksRow, UpdateRow
    <2>2. m \in Seq(Version) /\ Len(vs) <= Len(m) /\ \A k \in 1..Len(vs) : m[k] = vs[k]
      BY <1>5, FitMerges
    <2> HIDE DEF vs, bs, m
    <2>3. Len(m) \in Nat
      BY <2>2, LenProperties
    <2>4. /\ Stored(f, m, bs).versions = m /\ Stored(f, m, bs).name = f.name
          /\ Stored(f, m, <<>>).versions = m /\ Stored(f, m, <<>>).name = f.name
          /\ Stored(f, m, f.blocks).versions = m /\ Stored(f, m, f.blocks).name = f.name
      <3>1. \A cs \in Seq(SyncBlock) :
                Stored(f, m, cs).versions = m /\ Stored(f, m, cs).name = f.name
        BY <1>1, <2>2, StoredIsFile
      <3> QED  BY <1>1, <3>1
    <2>5. /\ WithVersions(tab, id, f) \in Seq(File)
          /\ WithoutBlocks(tab, id, f) \in Seq(File)
          /\ UpdateSyncFile(tab, id, f) \in Seq(File)
      BY <2>1 DEF WithRow
    <2>6. Extends(Columns(tab, id, f), WithVersions(tab, id, f))
      BY <1>2, <1>3, <2>1, <2>2, <2>4, RowExtends
    <2>7. Extends(WithVersions(tab, id, f), WithoutBlocks(tab, id, f))
      BY <2>1, <2>3, <2>4, RowExtends
    <2>8. Extends(WithoutBlocks(tab, id, f), UpdateSyncFile(tab, id, f))
      BY <2>1, <2>3, <2>4, RowExtends
    <2>9. Extends(tab, UpdateSyncFile(tab, id, f))
      BY <2>1, <2>2, <2>4, UpdatedExtends DEF vs
    <2> QED  BY <2>5, <2>6, <2>7, <2>8, <2>9
  <1> QED  BY <1>4, <1>5
-----------------------------------------------------------------------------
(***************************************************************************)
(* The inductive invariant.                                                *)
(***************************************************************************)
Good == TypeOK /\ StoreInv

\* FileTable's update and what may be left of it are those of SyncFiles.
LEMMA SeenUpdate ==
    ASSUME NEW tab, NEW id, NEW f
    PROVE  /\ Seen!UpdateSyncFile(tab, id, f) = UpdateSyncFile(tab, id, f)
           /\ Seen!Torn(tab, id, f) = Torn(tab, id, f)
  <1>1. /\ Seen!VersionsFit(tab, id, f) = VersionsFit(tab, id, f)
        /\ Seen!Columns(tab, id, f) = Columns(tab, id, f)
        /\ Seen!RowId(tab, id) = RowId(tab, id)
    BY Zenon DEF Seen!VersionsFit, VersionsFit, Seen!Columns, Columns,
                 Seen!RowId, RowId, Seen!Stored, Stored
  <1>2. \A old, new : Seen!MergeVersions(old, new) = MergeVersions(old, new)
    BY Zenon DEF Seen!MergeVersions, MergeVersions
  <1>3. Seen!UpdateSyncFile(tab, id, f) = UpdateSyncFile(tab, id, f)
    BY <1>1, <1>2, Zenon DEF Seen!UpdateSyncFile, UpdateSyncFile
  <1>4. \A t, k, vs : Seen!AddVersions(t, k, vs) = AddVersions(t, k, vs)
    BY <1>2, Zenon DEF Seen!AddVersions, AddVersions, Seen!Stored, Stored
  <1>5. \A t, k, bs : Seen!SetBlocks(t, k, bs) = SetBlocks(t, k, bs)
    BY Zenon DEF Seen!SetBlocks, SetBlocks, Seen!Stored, Stored
  <1>6. /\ Seen!WithVersions(tab, id, f) = WithVersions(tab, id, f)
        /\ Seen!WithoutBlocks(tab, id, f) = WithoutBlocks(tab, id, f)
    BY <1>1, <1>4, <1>5, Zenon DEF Seen!WithVersions, WithVersions,
                                   Seen!WithoutBlocks, WithoutBlocks
  <1>7. Seen!Torn(tab, id, f) = Torn(tab, id, f)
    BY <1>1, <1>6, Zenon DEF Seen!Torn, Torn
  <1> QED  BY <1>3, <1>7

\* What is known of the update that holds the lock.
LEMMA Holder ==
    ASSUME Good, call # <<>>
    PROVE  /\ before \in Seq(File) /\ Args.id \in 0..Len(before) /\ Args.row \in Row
           /\ Args.id # 0 => before[Args.id].name = Args.row.name
           /\ rows = Made(Args.id, Args.row)
           /\ at \in {"versions", "delete", "insert"} =>
                 VersionsFit(before, Args.id, Args.row)
           /\ Table = before /\ at # "idle"
  <1>1. call[1] \in Call
    BY EmptySeq DEF Good, TypeOK
  <1>2. Args.row \in Row
    BY <1>1 DEF Args, Call
  <1>3. Table = before /\ at # "idle"
    BY DEF Good, TypeOK, Table
  <1> QED  BY <1>2, <1>3 DEF Good, TypeOK, StoreInv, UpdateOnCourse

\* What the tasks have read stays valid while no row goes and none is renamed.
LEMMA SeenStays ==
    ASSUME TypeOK, SeenValid, Table \in Seq(File), Table' \in Seq(File),
           Extends(Table, Table'), UNCHANGED seen
    PROVE  SeenValid'
  <1> SUFFICES ASSUME NEW c \in Caller, seen[c] # <<>>
               PROVE  SameFiles(seen[c][1], Table')
    BY DEF SeenValid
  <1>1. seen[c][1] \in Seq(File) /\ SameFiles(seen[c][1], Table)
    BY EmptySeq DEF TypeOK, SeenValid
  <1> QED  BY <1>1, SameFilesStay

LEMMA TableIsTable ==
    ASSUME TypeOK
    PROVE  Table \in Seq(File)
  BY DEF TypeOK, Table

\* An update that has not finished: nothing changes for the others.
LEMMA StepOfUpdate ==
    ASSUME Good, call # <<>>, UNCHANGED <<seen, call, before, crashes>>,
           at' \in {"columns", "count", "versions", "delete", "insert"},
           rows' \in Seq(File), rows' = Made(Args.id, Args.row)',
           at' \in {"versions", "delete", "insert"} =>
              VersionsFit(before, Args.id, Args.row)
    PROVE  Good' /\ UNCHANGED <<Table, seen>>
  <1>1. TypeOK'
    BY DEF Good, TypeOK
  <1>2. UNCHANGED Table
    BY DEF Table
  <1>3. SeenValid'
    BY <1>2 DEF Good, StoreInv, SeenValid
  <1>4. UpdateOnCourse'
    BY Holder DEF UpdateOnCourse, Args
  <1> QED  BY <1>1, <1>2, <1>3, <1>4 DEF Good, StoreInv

\* An update that gives the lock back.
LEMMA ReleaseGood ==
    ASSUME Good, call # <<>>, Release, UNCHANGED <<seen, crashes>>,
           rows' \in Seq(File), Extends(before, rows')
    PROVE  Good' /\ Table' = rows'
  <1>1. TypeOK'
    BY DEF Good, TypeOK, Release
  <1>2. Table' = rows' /\ Table = before
    BY Holder DEF Table, Release
  <1>3. Table \in Seq(File)
    BY TableIsTable DEF Good
  <1>4. SeenValid'
    BY <1>2, <1>3, SeenStays DEF Good, StoreInv
  <1>5. UpdateOnCourse'
    BY DEF UpdateOnCourse, Release
  <1> QED  BY <1>1, <1>2, <1>4, <1>5 DEF Good, StoreInv

(***************************************************************************)
(* One lemma per action: the invariant is kept, no history loses anything, *)
(* and the others see nothing, a read, an update or a restart.             *)
(***************************************************************************)
LEMMA GetSyncFilesGood ==
    ASSUME Good, NEW c \in Caller, GetSyncFiles(c)
    PROVE  Good' /\ Extends(rows, rows') /\ Seen!Read(c)
  <1>1. rows \in Seq(File) /\ rows' = rows /\ call' = <<>> /\ call = <<>>
    BY DEF Good, TypeOK, GetSyncFiles
  <1>2. Table = rows /\ Table' = rows
    BY <1>1 DEF Table
  <1>3. TypeOK'
    <2>1. <<rows>> \in Seq(Seq(File))
      BY <1>1
    <2>2. seen' \in [Caller -> Seq(Seq(File))]
      BY <2>1 DEF Good, TypeOK, GetSyncFiles
    <2> QED  BY <2>2 DEF Good, TypeOK, GetSyncFiles
  <1>4. SeenValid'
    <2> SUFFICES ASSUME NEW d \in Caller, seen'[d] # <<>>
                 PROVE  SameFiles(seen'[d][1], rows)
      BY <1>2 DEF SeenValid
    <2>1. seen' = [seen EXCEPT ![c] = <<rows>>] /\ seen \in [Caller -> Seq(Seq(File))]
      BY DEF Good, TypeOK, GetSyncFiles
    <2>2. CASE d = c
      <3>1. seen'[d][1] = rows
        BY <2>1, <2>2
      <3> QED  BY <1>1, <3>1 DEF SameFiles
    <2>3. CASE d # c
      <3>1. seen'[d] = seen[d]
        BY <2>1, <2>3
      <3> QED  BY <1>2, <3>1 DEF Good, StoreInv, SeenValid
    <2> QED  BY <2>2, <2>3
  <1>5. UpdateOnCourse'
    BY <1>1 DEF UpdateOnCourse
  <1>6. Seen!Read(c)
    BY <1>2 DEF Seen!Read, GetSyncFiles
  <1> QED  BY <1>1, <1>3, <1>4, <1>5, <1>6, ExtendsSame DEF Good, StoreInv

LEMMA UpdateSyncFileBeginGood ==
    ASSUME Good, NEW c \in Caller, NEW f \in Row, UpdateSyncFileBegin(c, f)
    PROVE  Good' /\ Extends(rows, rows') /\ UNCHANGED <<Table, seen>>
  <1> DEFINE snap == seen[c][1]
             id   == FindFile(snap, f.name)
  <1>1. /\ rows \in Seq(File) /\ rows' = rows /\ before' = rows /\ seen' = seen
        /\ call = <<>> /\ call' = <<[id |-> id, row |-> f]>> /\ at' = "columns"
        /\ seen[c] # <<>> /\ crashes' = crashes
    BY DEF Good, TypeOK, UpdateSyncFileBegin
  <1>2. snap \in Seq(File)
    BY <1>1, EmptySeq DEF Good, TypeOK
  <1>3. Table = rows /\ Table' = rows
    BY <1>1 DEF Table
  <1>4. SameFiles(snap, rows)
    BY <1>1, <1>3 DEF Good, StoreInv, SeenValid
  <1>5. f.name \in Name
    BY RowIsFile
  <1> HIDE DEF snap
  <1>6. id \in 0..Len(snap) /\ (id # 0 => snap[id].name = f.name)
    BY <1>2, <1>5, FindFileFinds
  <1> HIDE DEF id
  <1>7. id \in 0..Len(rows) /\ (id # 0 => rows[id].name = f.name)
    BY <1>1, <1>2, <1>4, <1>6 DEF SameFiles
  <1>8. [id |-> id, row |-> f] \in Call
    BY <1>1, <1>7 DEF Call
  <1>9. TypeOK'
    BY <1>1, <1>8 DEF Good, TypeOK
  <1>10. SeenValid'
    BY <1>1, <1>3 DEF Good, StoreInv, SeenValid
  <1>11. UpdateOnCourse'
    <2>1. Args'.id = id /\ Args'.row = f
      BY <1>1 DEF Args
    <2>2. Made(id, f)' = rows
      BY <1>1 DEF Made
    <2> QED  BY <1>1, <1>7, <2>1, <2>2 DEF UpdateOnCourse, Made
  <1> QED  BY <1>1, <1>3, <1>9, <1>10, <1>11, ExtendsSame DEF Good, StoreInv

LEMMA UpsertColumnsGood ==
    ASSUME Good, UpsertColumns
    PROVE  Good' /\ Extends(rows, rows') /\ UNCHANGED <<Table, seen>>
  <1>1. call # <<>> /\ at = "columns" /\ at' = "count"
    BY DEF Good, TypeOK, UpsertColumns
  <1>2. rows = before /\ rows' = Columns(before, Args.id, Args.row)
    BY <1>1, Holder DEF Made, UpsertColumns
  <1>3. rows' \in Seq(File) /\ Extends(rows, rows')
    BY <1>1, <1>2, Holder, StatementsExtend
  <1>4. rows' = Made(Args.id, Args.row)'
    BY <1>1, <1>2 DEF Made, UpsertColumns, Args
  <1> QED  BY <1>1, <1>3, <1>4, StepOfUpdate DEF UpsertColumns

LEMMA CountVersionsGood ==
    ASSUME Good, CountVersions
    PROVE  /\ Good' /\ Extends(rows, rows')
           /\ UNCHANGED <<Table, seen>> \/ Seen!Update
  <1> DEFINE id == Args.id
             f  == Args.row
             vs == OldVersions(before, id)
  <1>1. call # <<>> /\ at = "count" /\ UNCHANGED <<rows, seen, crashes>>
    BY DEF Good, TypeOK, CountVersions
  <1>2. /\ before \in Seq(File) /\ id \in 0..Len(before) /\ f \in Row
        /\ id # 0 => before[id].name = f.name
        /\ Table = before
    BY <1>1, Holder
  <1>3. rows = Columns(before, id, f)
    BY <1>1, Holder DEF Made
  <1>4. rows \in Seq(File) /\ Extends(before, rows)
    BY <1>2, <1>3, StatementsExtend
  <1>5. (Len(Now.versions) <= Len(f.versions)) <=> VersionsFit(before, id, f)
    <2> HIDE DEF id, f
    <2>1. Now = Stored(f, vs, OldBlocks(before, id))
      BY <1>2, <1>3, ColumnsRow, RowIdInTable DEF Now, Inserted, id
    <2>2. Now.versions = vs
      BY <1>2, <2>1, OldIsTyped, RowIsFile, StoredIsFile
    <2>3. CASE id = 0
      <3>1. Len(vs) = 0
        BY <2>3 DEF OldVersions
      <3>2. Len(f.versions) \in Nat
        BY <1>2, RowIsFile, LenProperties
      <3> QED  BY <2>2, <2>3, <3>1, <3>2 DEF VersionsFit
    <2>4. CASE id # 0
      BY <2>2, <2>4 DEF VersionsFit, OldVersions
    <2> QED  BY <2>3, <2>4
  <1>6. CASE VersionsFit(before, id, f)
    <2>1. at' = "versions" /\ UNCHANGED <<call, before>>
      BY <1>5, <1>6 DEF CountVersions
    <2>2. rows' = Made(Args.id, Args.row)'
      BY <1>1, <1>3, <2>1 DEF Made, Args
    <2>3. Good' /\ UNCHANGED <<Table, seen>>
      BY <1>1, <1>4, <1>6, <2>1, <2>2, StepOfUpdate
    <2> QED  BY <1>1, <1>4, <2>3, ExtendsSame
  <1>7. CASE ~VersionsFit(before, id, f)
    <2>1. Release
      BY <1>5, <1>7 DEF CountVersions
    <2>2. Good' /\ Table' = rows
      BY <1>1, <1>4, <2>1, ReleaseGood
    <2>3. Table' = UpdateSyncFile(Table, id, f)
      BY <1>2, <1>3, <1>7, <2>2, FailedUpdate
    <2>4. Seen!Update
      <3> HIDE DEF id, f
      <3> QED  BY <1>1, <1>2, <2>3, SeenUpdate DEF Seen!Update
    <2> QED  BY <1>1, <1>4, <2>2, <2>4, ExtendsSame
  <1> QED  BY <1>6, <1>7

LEMMA InsertVersionsGood ==
    ASSUME Good, InsertVersions
    PROVE  Good' /\ Extends(rows, rows') /\ UNCHANGED <<Table, seen>>
  <1>1. call # <<>> /\ at = "versions" /\ at' = "delete"
    BY DEF Good, TypeOK, InsertVersions
  <1>2. VersionsFit(before, Args.id, Args.row)
    BY <1>1, Holder
  <1>3. /\ rows = Columns(before, Args.id, Args.row)
        /\ rows' = WithVersions(before, Args.id, Args.row)
    BY <1>1, Holder DEF Made, InsertVersions, Inserted, WithVersions
  <1>4. rows' \in Seq(File) /\ Extends(rows, rows')
    BY <1>1, <1>2, <1>3, Holder, StatementsExtend
  <1>5. rows' = Made(Args.id, Args.row)'
    BY <1>1, <1>3 DEF Made, InsertVersions, Args
  <1> QED  BY <1>1, <1>2, <1>4, <1>5, StepOfUpdate DEF InsertVersions

LEMMA DeleteBlocksGood ==
    ASSUME Good, DeleteBlocks
    PROVE  Good' /\ Extends(rows, rows') /\ UNCHANGED <<Table, seen>>
  <1>1. call # <<>> /\ at = "delete" /\ at' = "insert"
    BY DEF Good, TypeOK, DeleteBlocks
  <1>2. VersionsFit(before, Args.id, Args.row)
    BY <1>1, Holder
  <1>3. /\ rows = WithVersions(before, Args.id, Args.row)
        /\ rows' = WithoutBlocks(before, Args.id, Args.row)
    BY <1>1, Holder DEF Made, DeleteBlocks, Inserted, WithoutBlocks
  <1>4. rows' \in Seq(File) /\ Extends(rows, rows')
    BY <1>1, <1>2, <1>3, Holder, StatementsExtend
  <1>5. rows' = Made(Args.id, Args.row)'
    BY <1>1, <1>3 DEF Made, DeleteBlocks, Args
  <1> QED  BY <1>1, <1>2, <1>4, <1>5, StepOfUpdate DEF DeleteBlocks

LEMMA InsertBlocksGood ==
    ASSUME Good, InsertBlocks
    PROVE  Good' /\ Extends(rows, rows') /\ Seen!Update
  <1>1. call # <<>> /\ at = "insert" /\ Release /\ UNCHANGED <<seen, crashes>>
    BY DEF Good, TypeOK, InsertBlocks
  <1>2. VersionsFit(before, Args.id, Args.row)
    BY <1>1, Holder
  <1>3. rows = WithoutBlocks(before, Args.id, Args.row)
    BY <1>1, Holder DEF Made
  <1>4. rows' = UpdateSyncFile(before, Args.id, Args.row)
    BY <1>1, <1>2, <1>3, Holder, StatementsUpdate DEF InsertBlocks, Inserted
  <1>5. rows' \in Seq(File) /\ Extends(rows, rows') /\ Extends(before, rows')
    BY <1>1, <1>2, <1>3, <1>4, Holder, StatementsExtend
  <1>6. Good' /\ Table' = rows'
    BY <1>1, <1>5, ReleaseGood
  <1>7. Seen!Update
    <2> DEFINE id == Args.id
               f  == Args.row
    <2>1. id \in 0..Len(Table) /\ f \in Row
      BY <1>1, Holder
    <2>2. Table' = UpdateSyncFile(Table, id, f)
      BY <1>1, <1>4, <1>6, Holder
    <2> HIDE DEF id, f
    <2> QED  BY <1>1, <2>1, <2>2, SeenUpdate DEF Seen!Update
  <1> QED  BY <1>5, <1>6, <1>7

LEMMA CrashGood ==
    ASSUME Good, Crash
    PROVE  Good' /\ Extends(rows, rows') /\ Seen!Restart
  <1>1. /\ rows \in Seq(File) /\ rows' = rows /\ Release
        /\ seen' = [c \in Caller |-> <<>>]
    BY DEF Good, TypeOK, Crash
  <1>2. TypeOK'
    <2>1. seen' \in [Caller -> Seq(Seq(File))]
      BY <1>1
    <2>2. crashes' \in Nat
      BY DEF Good, TypeOK, Crash
    <2> QED  BY <1>1, <2>1, <2>2 DEF TypeOK, Release
  <1>3. SeenValid' /\ UpdateOnCourse'
    BY <1>1 DEF SeenValid, UpdateOnCourse, Release
  <1>4. Table' = rows
    BY <1>1 DEF Table, Release
  <1>5. Seen!Restart
    <2>1. CASE call = <<>>
      BY <1>1, <1>4, <2>1 DEF Seen!Restart, Table
    <2>2. CASE call # <<>>
      <3>1. rows \in Torn(before, Args.id, Args.row)
        <4>1. at \in {"columns", "count", "versions", "delete", "insert"}
          BY <2>2 DEF Good, TypeOK
        <4>2. rows = Made(Args.id, Args.row)
          BY <2>2, Holder
        <4>3. at \in {"versions", "delete", "insert"} =>
                 VersionsFit(before, Args.id, Args.row)
          BY <2>2, Holder
        <4> QED  BY <4>1, <4>2, <4>3 DEF Torn, Made
      <3> DEFINE id == Args.id
                 f  == Args.row
      <3>2. id \in 0..Len(Table) /\ f \in Row /\ Table' \in Torn(Table, id, f)
        BY <1>4, <2>2, <3>1, Holder
      <3> HIDE DEF id, f
      <3> QED  BY <1>1, <3>2, SeenUpdate DEF Seen!Restart
    <2> QED  BY <2>1, <2>2
  <1> QED  BY <1>1, <1>2, <1>3, <1>5, ExtendsSame DEF Good, StoreInv
-----------------------------------------------------------------------------
LEMMA InitGood == Init => Good /\ Seen!Init
  <1> SUFFICES ASSUME Init PROVE Good /\ Seen!Init
    OBVIOUS
  <1>1. TypeOK
    <2>1. seen \in [Caller -> Seq(Seq(File))]
      BY DEF Init
    <2> QED  BY <2>1 DEF Init, TypeOK
  <1>2. SeenValid /\ UpdateOnCourse
    BY DEF Init, SeenValid, UpdateOnCourse
  <1>3. Seen!Init
    BY DEF Init, Seen!Init, Table
  <1> QED  BY <1>1, <1>2, <1>3 DEF Good, StoreInv

LEMMA NextGood ==
    ASSUME Good, [Next]_vars
    PROVE  /\ Good'
           /\ [Extends(rows, rows')]_vars
           /\ [Seen!Next]_<<Table, seen>>
  <1>1. ASSUME NEW c \in Caller, GetSyncFiles(c)
        PROVE  Good' /\ Extends(rows, rows') /\ Seen!Next
    BY <1>1, GetSyncFilesGood DEF Seen!Next
  <1>2. ASSUME NEW c \in Caller, NEW f \in Row, UpdateSyncFileBegin(c, f)
        PROVE  Good' /\ Extends(rows, rows') /\ UNCHANGED <<Table, seen>>
    BY <1>2, UpdateSyncFileBeginGood
  <1>3. CASE UpsertColumns
    BY <1>3, UpsertColumnsGood
  <1>4. CASE CountVersions
    BY <1>4, CountVersionsGood DEF Seen!Next
  <1>5. CASE InsertVersions
    BY <1>5, InsertVersionsGood
  <1>6. CASE DeleteBlocks
    BY <1>6, DeleteBlocksGood
  <1>7. CASE InsertBlocks
    BY <1>7, InsertBlocksGood DEF Seen!Next
  <1>8. CASE Crash
    BY <1>8, CrashGood DEF Seen!Next
  <1>9. CASE UNCHANGED vars
    BY <1>9 DEF vars, Good, TypeOK, StoreInv, SeenValid, UpdateOnCourse, Table, Args, Made
  <1> QED  BY <1>1, <1>2, <1>3, <1>4, <1>5, <1>6, <1>7, <1>8, <1>9 DEF Next

LEMMA SpecGood == Spec => []Good
  <1>1. Init => Good
    BY InitGood
  <1>2. Good /\ [Next]_vars => Good'
    BY NextGood
  <1> QED  BY <1>1, <1>2, PTL DEF Spec

(***************************************************************************)
(* The tables always hold rows of the right form, and the lock is held     *)
(* exactly while an update is under way.                                   *)
(***************************************************************************)
THEOREM StoreTypeCorrect == Spec => []TypeOK
  <1>1. Good => TypeOK
    BY DEF Good
  <1> QED  BY <1>1, SpecGood, PTL

(***************************************************************************)
(* The id that an update uses, found in a list that was read before the    *)
(* lock was taken, is the id of its file; between its statements the table *)
(* is what the statements so far have made of it.                          *)
(***************************************************************************)
THEOREM StaleIdsStayValid == Spec => []StoreInv
  <1>1. Good => StoreInv
    BY DEF Good
  <1> QED  BY <1>1, SpecGood, PTL

(***************************************************************************)
(* No statement of update_sync_file and no crash between two of them takes *)
(* a row or a version from what is stored.                                 *)
(***************************************************************************)
THEOREM StoredHistorySurvives == Spec => HistorySurvives
  <1>1. Good /\ [Next]_vars => [Extends(rows, rows')]_vars
    BY NextGood
  <1> QED  BY <1>1, SpecGood, PTL DEF Spec, HistorySurvives

(***************************************************************************)
(* Refinement: the statements of update_sync_file under the lock implement *)
(* the table that is updated in one step, up to what a crash leaves.       *)
(***************************************************************************)
THEOREM UpdatesAreAtomic == Spec => ReadsAreAtomic
  <1>1. Init => Seen!Init
    BY InitGood
  <1>2. Good /\ [Next]_vars => [Seen!Next]_<<Table, seen>>
    BY NextGood
  <1> QED  BY <1>1, <1>2, SpecGood, PTL DEF Spec, ReadsAreAtomic, Seen!Spec
-----------------------------------------------------------------------------
(***************************************************************************)
(* How many rows are incomplete.  While an update is under way, the table  *)
(* that counts is the one before it: its own row may lack anything.        *)
(***************************************************************************)
Holes(tab) == {i \in 1..Len(tab) : tab[i].versions = <<>> \/ tab[i].blocks = <<>>}

FewHoles == Cardinality(Holes(Table)) <= crashes

LEMMA HolesFinite ==
    ASSUME NEW tab \in Seq(File)
    PROVE  IsFiniteSet(Holes(tab)) /\ Cardinality(Holes(tab)) \in Nat
  <1>1. IsFiniteSet(1..Len(tab))
    BY FS_Interval
  <1>2. Holes(tab) \in SUBSET (1..Len(tab))
    BY DEF Holes
  <1>3. IsFiniteSet(Holes(tab))
    BY <1>1, <1>2, FS_Subset
  <1> QED  BY <1>3, FS_CardinalityType

LEMMA FewerHoles ==
    ASSUME NEW tab \in Seq(File), NEW new \in Seq(File), Holes(new) \subseteq Holes(tab)
    PROVE  Cardinality(Holes(new)) <= Cardinality(Holes(tab))
  BY HolesFinite, FS_Subset

\* A statement makes at most the row of its update incomplete, and none when it
\* leaves that row with versions and blocks, or with those it had.
LEMMA OneMoreHole ==
    ASSUME NEW tab \in Seq(File), NEW id \in 0..Len(tab), NEW new, NEW g,
           WithRow(new, tab, id, g)
    PROVE  /\ new \in Seq(File)
           /\ Cardinality(Holes(new)) <= Cardinality(Holes(tab)) + 1
  <1> DEFINE k == RowId(tab, id)
             H == Holes(tab) \cup {k}
  <1>1. new \in Seq(File)
    BY DEF WithRow
  <1>2. Holes(new) \subseteq H
    BY DEF WithRow, Holes, RowId
  <1>3. IsFiniteSet(Holes(tab)) /\ Cardinality(Holes(tab)) \in Nat
    BY HolesFinite
  <1> HIDE DEF k
  <1>4. IsFiniteSet(H) /\ Cardinality(H) <= Cardinality(Holes(tab)) + 1
    BY <1>3, FS_AddElement
  <1>5. Cardinality(Holes(new)) <= Cardinality(H)
    BY <1>2, <1>4, FS_Subset
  <1>6. Cardinality(Holes(new)) \in Nat /\ Cardinality(H) \in Nat
    BY <1>1, <1>4, HolesFinite, FS_CardinalityType
  <1> QED  BY <1>1, <1>3, <1>4, <1>5, <1>6

LEMMA NoMoreHoles ==
    ASSUME NEW tab \in Seq(File), NEW id \in 0..Len(tab), NEW new, NEW g,
           WithRow(new, tab, id, g),
           \/ g.versions # <<>> /\ g.blocks # <<>>
           \/ id # 0 /\ g.versions = tab[id].versions /\ g.blocks = tab[id].blocks
    PROVE  /\ new \in Seq(File)
           /\ Cardinality(Holes(new)) <= Cardinality(Holes(tab))
  <1>1. new \in Seq(File)
    BY DEF WithRow
  <1>2. Holes(new) \subseteq Holes(tab)
    <2> SUFFICES ASSUME NEW i \in Holes(new) PROVE i \in Holes(tab)
      OBVIOUS
    <2>1. i \in 1..Len(new) /\ (new[i].versions = <<>> \/ new[i].blocks = <<>>)
      BY DEF Holes
    <2>2. CASE i = RowId(tab, id)
      <3>1. new[i] = g
        BY <2>1, <2>2 DEF WithRow
      <3>2. id # 0 /\ g.versions = tab[id].versions /\ g.blocks = tab[id].blocks
        BY <2>1, <3>1
      <3> QED  BY <2>1, <2>2, <3>1, <3>2 DEF Holes, RowId
    <2>3. CASE i # RowId(tab, id)
      BY <2>1, <2>3 DEF WithRow, Holes, RowId
    <2> QED  BY <2>2, <2>3
  <1> QED  BY <1>1, <1>2, FewerHoles

\* What is left by a crash, by a failed assertion and by an update that is done.
LEMMA TornHoles ==
    ASSUME NEW tab \in Seq(File), NEW id \in 0..Len(tab), NEW f \in Row,
           NEW new \in Torn(tab, id, f)
    PROVE  Cardinality(Holes(new)) <= Cardinality(Holes(tab)) + 1
  <1>1. Cardinality(Holes(tab)) \in Nat
    BY HolesFinite
  <1>2. CASE new = tab
    BY <1>1, <1>2
  <1>3. CASE new = Columns(tab, id, f)
    BY <1>3, ColumnsRow, OneMoreHole
  <1>4. CASE VersionsFit(tab, id, f) /\ new = WithVersions(tab, id, f)
    BY <1>4, VersionsRow, OneMoreHole
  <1>5. CASE VersionsFit(tab, id, f) /\ new = WithoutBlocks(tab, id, f)
    BY <1>5, WithoutBlocksRow, OneMoreHole
  <1> QED  BY <1>2, <1>3, <1>4, <1>5 DEF Torn

LEMMA DoneHoles ==
    ASSUME NEW tab \in Seq(File), NEW id \in 0..Len(tab), NEW f \in Row
    PROVE  Cardinality(Holes(UpdateSyncFile(tab, id, f))) <= Cardinality(Holes(tab))
  <1> DEFINE old == OldVersions(tab, id)
             m   == MergeVersions(old, f.versions)
  <1>1. f \in File /\ f.versions \in Seq(Version) /\ f.versions # <<>>
        /\ f.blocks \in Seq(SyncBlock) /\ f.blocks # <<>>
    BY RowIsFile
  <1>2. old \in Seq(Version) /\ OldBlocks(tab, id) \in Seq(SyncBlock)
    BY OldIsTyped
  <1>3. CASE VersionsFit(tab, id, f)
    <2>1. Len(old) <= Len(f.versions)
      BY <1>1, <1>3 DEF VersionsFit, OldVersions
    <2>2. m \in Seq(Version) /\ m # <<>>
      BY <1>1, <1>2, <2>1, MergeExtends, EmptySeq
    <2>3. Stored(f, m, f.blocks).versions = m /\ Stored(f, m, f.blocks).blocks = f.blocks
      BY <1>1, <2>2, StoredIsFile
    <2> QED  BY <1>1, <1>3, <2>2, <2>3, UpdateRow, NoMoreHoles
  <1>4. CASE ~VersionsFit(tab, id, f)
    <2> DEFINE g == Stored(f, old, OldBlocks(tab, id))
    <2>1. id # 0
      BY <1>4 DEF VersionsFit
    <2>2. g.versions = tab[id].versions /\ g.blocks = tab[id].blocks
      BY <1>1, <1>2, <2>1, StoredIsFile DEF OldVersions, OldBlocks
    <2>3. WithRow(UpdateSyncFile(tab, id, f), tab, id, g)
      BY <1>4, ColumnsRow, FailedUpdate
    <2> HIDE DEF g
    <2> QED  BY <2>1, <2>2, <2>3, NoMoreHoles
  <1> QED  BY <1>3, <1>4

\* The table that others see: an update never adds a hole, a restart only one.
LEMMA SeenHoles ==
    ASSUME Good
    PROVE  /\ Seen!Update => Cardinality(Holes(Table')) <= Cardinality(Holes(Table))
           /\ Seen!Restart => Cardinality(Holes(Table')) <= Cardinality(Holes(Table)) + 1
  <1>1. Table \in Seq(File) /\ Cardinality(Holes(Table)) \in Nat
    BY TableIsTable, HolesFinite DEF Good
  <1>2. ASSUME Seen!Update
        PROVE  Cardinality(Holes(Table')) <= Cardinality(Holes(Table))
    <2>1. PICK id \in 0..Len(Table), f \in Row : Table' = UpdateSyncFile(Table, id, f)
      BY <1>2, SeenUpdate DEF Seen!Update
    <2> QED  BY <1>1, <2>1, DoneHoles
  <1>3. ASSUME Seen!Restart
        PROVE  Cardinality(Holes(Table')) <= Cardinality(Holes(Table)) + 1
    <2>1. CASE Table' = Table
      BY <1>1, <2>1
    <2>2. CASE \E id \in 0..Len(Table), f \in Row : Table' \in Torn(Table, id, f)
      BY <1>1, <2>2, TornHoles
    <2> QED  BY <1>3, <2>1, <2>2, SeenUpdate DEF Seen!Restart
  <1> QED  BY <1>2, <1>3

LEMMA FewHolesStay ==
    ASSUME Good, FewHoles, [Next]_vars
    PROVE  FewHoles'
  <1>1. /\ Table \in Seq(File) /\ Cardinality(Holes(Table)) \in Nat /\ crashes \in Nat
    BY TableIsTable, HolesFinite DEF Good, TypeOK
  <1>2. Table' \in Seq(File) /\ Cardinality(Holes(Table')) \in Nat
    <2>1. Good'
      BY NextGood
    <2>2. Table' \in Seq(File)
      BY <2>1 DEF Good, TypeOK, Table
    <2> QED  BY <2>2, HolesFinite
  <1>3. ASSUME NEW c \in Caller, GetSyncFiles(c) PROVE UNCHANGED <<Table, crashes>>
    BY <1>3 DEF GetSyncFiles, Table
  <1>4. ASSUME NEW c \in Caller, NEW f \in Row, UpdateSyncFileBegin(c, f)
        PROVE  UNCHANGED <<Table, crashes>>
    BY <1>4, UpdateSyncFileBeginGood DEF UpdateSyncFileBegin
  <1>5. CASE UpsertColumns \/ InsertVersions \/ DeleteBlocks
    <2>1. Table' = Table
      BY <1>5, UpsertColumnsGood, InsertVersionsGood, DeleteBlocksGood
    <2>2. crashes' = crashes
      BY <1>5 DEF UpsertColumns, InsertVersions, DeleteBlocks
    <2> QED  BY <2>1, <2>2 DEF FewHoles
  <1>6. CASE CountVersions \/ InsertBlocks
    <2>1. UNCHANGED Table \/ Seen!Update
      BY <1>6, CountVersionsGood, InsertBlocksGood
    <2>2. crashes' = crashes
      BY <1>6 DEF CountVersions, InsertBlocks
    <2> QED  BY <1>1, <1>2, <2>1, <2>2, SeenHoles DEF FewHoles
  <1>7. CASE Crash
    <2>1. Seen!Restart /\ crashes' = crashes + 1
      BY <1>7, CrashGood DEF Crash
    <2>2. Cardinality(Holes(Table')) <= Cardinality(Holes(Table)) + 1
      BY <2>1, SeenHoles
    <2> QED  BY <1>1, <1>2, <2>1, <2>2 DEF FewHoles
  <1>8. CASE UNCHANGED vars
    BY <1>8 DEF vars, Table, FewHoles
  <1> QED  BY <1>3, <1>4, <1>5, <1>6, <1>7, <1>8 DEF Next, FewHoles

(***************************************************************************)
(* A failed assertion leaves no incomplete row, a crash at most one, and   *)
(* whoever finds the lock free finds no more of them than there were       *)
(* crashes.                                                                *)
(***************************************************************************)
THEOREM CrashTearsOneRow == Spec => []OneTornRowPerCrash
  <1>1. Init => FewHoles
    <2> SUFFICES ASSUME Init PROVE FewHoles
      OBVIOUS
    <2>1. Holes(Table) = {} /\ crashes = 0
      BY DEF Init, Table, Holes
    <2> QED  BY <2>1, FS_EmptySet DEF FewHoles
  <1>2. Good /\ FewHoles /\ [Next]_vars => FewHoles'
    BY FewHolesStay
  <1>3. FewHoles => OneTornRowPerCrash
    BY DEF FewHoles, OneTornRowPerCrash, Holes, Incomplete, Table
  <1> QED  BY <1>1, <1>2, <1>3, SpecGood, PTL DEF Spec
=============================================================================
