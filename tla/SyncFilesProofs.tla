--------------------------- MODULE SyncFilesProofs ---------------------------
(***************************************************************************)
(* What the operators on a table of files return, for every table.         *)
(***************************************************************************)
EXTENDS SyncFiles, SequenceTheorems, WellFoundedInduction, TLAPS

(***************************************************************************)
(* A list defined element by element is a sequence.                        *)
(***************************************************************************)
LEMMA FunIsSeq ==
    ASSUME NEW S, NEW n \in Nat, NEW f \in [1..n -> S]
    PROVE  f \in Seq(S) /\ Len(f) = n
  OBVIOUS

(***************************************************************************)
(* Any set of numbers has a least one: why iter().find() has a first match.*)
(***************************************************************************)
LEMMA LeastNatural ==
    ASSUME NEW T, T \subseteq Nat, T # {}
    PROVE  \E m \in T : \A k \in T : m <= k
<1>1. PICK m \in T : \A k \in T : ~(<<k, m>> \in OpToRel(<, Nat))
  BY NatLessThanWellFounded, WFMin, Zenon
<1>2. \A k \in T : ~(k < m)
  BY <1>1 DEF OpToRel
<1>3. QED  BY <1>2

(***************************************************************************)
(* FindFile returns the id of a row for the name, if there is one.         *)
(***************************************************************************)
LEMMA FindFileFinds ==
    ASSUME NEW rows \in Seq(File), NEW n \in Name
    PROVE  /\ FindFile(rows, n) \in 0..Len(rows)
           /\ (FindFile(rows, n) # 0) <=> HasRow(rows, n)
           /\ FindFile(rows, n) # 0 => rows[FindFile(rows, n)].name = n
<1>1. CASE ~HasRow(rows, n)
  BY <1>1 DEF FindFile
<1>2. CASE HasRow(rows, n)
  <2> DEFINE T == {i \in 1..Len(rows) : rows[i].name = n}
  <2>1. T \subseteq Nat /\ T # {}
    BY <1>2 DEF HasRow
  <2>2. PICK m \in T : \A k \in T : m <= k
    BY <2>1, LeastNatural, Zenon
  <2>3. \E i \in 1..Len(rows) : /\ rows[i].name = n
                                /\ \A j \in 1..(i - 1) : rows[j].name # n
    <3>1. m \in 1..Len(rows) /\ rows[m].name = n
      BY <2>2
    <3>2. ASSUME NEW j \in 1..(m - 1) PROVE rows[j].name # n
      BY <2>2, <3>1
    <3>3. QED  BY <3>1, <3>2
  <2>4. /\ FindFile(rows, n) \in 1..Len(rows)
        /\ rows[FindFile(rows, n)].name = n
    BY <1>2, <2>3 DEF FindFile
  <2>5. QED  BY <1>2, <2>4
<1>3. QED  BY <1>1, <1>2

(***************************************************************************)
(* The last counter of a history of k + 1 versions is k.                   *)
(***************************************************************************)
LEMMA IndexVersionIsLast ==
    ASSUME NEW f, f.versions \in Seq(Version), Consecutive(f.versions)
    PROVE  IndexVersion(f) = Len(f.versions) - 1 /\ Len(f.versions) \in Nat \ {0}
<1>1. Len(f.versions) \in Nat \ {0}
  BY EmptySeq DEF Consecutive
<1>2. QED  BY <1>1 DEF Consecutive, IndexVersion

(***************************************************************************)
(* Appending to a history the suffix of a longer one gives a history that  *)
(* extends the first, though the two need not agree on their authors.      *)
(***************************************************************************)
LEMMA MergeIsHistory ==
    ASSUME NEW old \in Seq(Version), NEW new \in Seq(Version),
           Consecutive(old), Consecutive(new), Len(old) <= Len(new)
    PROVE  /\ MergeVersions(old, new) \in Seq(Version)
           /\ Len(MergeVersions(old, new)) = Len(new)
           /\ Consecutive(MergeVersions(old, new))
           /\ \A k \in 1..Len(old) : MergeVersions(old, new)[k] = old[k]
<1> DEFINE m == MergeVersions(old, new)
<1>1. m \in [1..Len(new) -> Version]
  BY ElementOfSeq DEF MergeVersions
<1>2. m \in Seq(Version) /\ Len(m) = Len(new)
  BY <1>1, FunIsSeq
<1>3. \A k \in 1..Len(new) : m[k] = IF k <= Len(old) THEN old[k] ELSE new[k]
  BY DEF MergeVersions
<1>4. Len(new) # 0
  BY EmptySeq DEF Consecutive
<1>5. Consecutive(m)
  <2> HIDE DEF m
  <2>1. m # <<>>
    BY <1>2, <1>4, EmptySeq
  <2>2. \A k \in 1..Len(new) : m[k].val = k - 1
    BY <1>3 DEF Consecutive
  <2>3. QED  BY <1>2, <2>1, <2>2 DEF Consecutive
<1>6. QED  BY <1>2, <1>3, <1>5

(***************************************************************************)
(* update_sync_file, for a row that is new or keeps its name: all rows stay*)
(* good, and no history loses or changes what it had, also when the        *)
(* assertion fails half-way.                                               *)
(***************************************************************************)
LEMMA UpdateExtends ==
    ASSUME NEW rows, RowsOK(rows), NEW id \in 0..Len(rows), NEW f, RowOK(f),
           id # 0 => f.name = rows[id].name
    PROVE  /\ RowsOK(UpdateSyncFile(rows, id, f))
           /\ Extends(rows, UpdateSyncFile(rows, id, f))
<1> DEFINE new == UpdateSyncFile(rows, id, f)
<1>0. rows \in Seq(File) /\ f \in File /\ Len(rows) \in Nat
  BY DEF RowsOK, RowOK
<1>a. \A i \in 1..Len(rows) : RowOK(rows[i]) /\ rows[i].versions \in Seq(Version)
  BY DEF RowsOK, RowOK, File
<1>1. CASE id = 0
  <2>1. new = Append(rows, f)
    BY <1>1 DEF UpdateSyncFile
  <2>2. new \in Seq(File) /\ Len(new) = Len(rows) + 1
    BY <2>1, <1>0
  <2>3. \A i \in 1..Len(new) : new[i] = IF i <= Len(rows) THEN rows[i] ELSE f
    BY <2>1, <1>0
  <2>4. RowsOK(new)
    BY <2>2, <2>3, <1>0 DEF RowsOK
  <2>5. Extends(rows, new)
    BY <2>2, <2>3, <1>0, <1>a, LenProperties DEF Extends
  <2>6. QED  BY <2>4, <2>5
<1>2. CASE id # 0
  <2> DEFINE old == rows[id]
             fit == VersionsFit(rows, id, f)
             vs == IF fit THEN MergeVersions(old.versions, f.versions)
                   ELSE old.versions
             bs == IF fit /\ f.blocks # <<>> THEN f.blocks ELSE old.blocks
             row == [name |-> f.name, hash |-> f.hash, synced |-> f.synced,
                     versions |-> vs, blocks |-> bs]
  <2>1. id \in 1..Len(rows) /\ RowOK(old)
    BY <1>2, <1>0 DEF RowsOK
  <2>2. new = [rows EXCEPT ![id] = row]
    BY <1>2 DEF UpdateSyncFile
  <2>3. /\ old.versions \in Seq(Version) /\ f.versions \in Seq(Version)
        /\ Len(old.versions) \in Nat /\ Len(f.versions) \in Nat
    BY <2>1 DEF RowOK, File
  <2>4. fit <=> Len(old.versions) <= Len(f.versions)
    BY <1>2 DEF VersionsFit
  <2>5. /\ vs \in Seq(Version) /\ Consecutive(vs)
        /\ Len(old.versions) <= Len(vs) /\ Len(f.versions) <= Len(vs)
        /\ \A k \in 1..Len(old.versions) : vs[k] = old.versions[k]
    <3>1. CASE fit
      BY <3>1, <2>1, <2>3, <2>4, MergeIsHistory DEF RowOK
    <3>2. CASE ~fit
      BY <3>2, <2>1, <2>3, <2>4 DEF RowOK
    <3>3. QED  BY <3>1, <3>2
  <2>6. RowOK(row)
    <3>1. bs \in Seq(SyncBlock) /\ bs # <<>>
      BY <2>1 DEF RowOK, File
    <3>2. row \in File
      BY <3>1, <2>5 DEF RowOK, File
    <3>3. row.synced < Len(row.versions)
      BY <2>3, <2>5 DEF RowOK, File
    <3>4. QED  BY <3>1, <3>2, <3>3, <2>5 DEF RowOK
  <2>7. /\ new \in Seq(File) /\ Len(new) = Len(rows)
        /\ \A i \in 1..Len(rows) : new[i] = IF i = id THEN row ELSE rows[i]
    <3> HIDE DEF row
    <3>1. row \in File
      BY <2>6 DEF RowOK
    <3>2. QED  BY <3>1, <2>1, <2>2, <1>0, ExceptSeq
  <2>8. RowsOK(new)
    <3> HIDE DEF row
    <3>1. QED  BY <2>6, <2>7, <1>a DEF RowsOK
  <2>9. Extends(rows, new)
    <3>1. row.name = old.name /\ row.versions = vs
      BY <1>2
    <3> HIDE DEF row, vs
    <3>2. QED  BY <2>3, <2>5, <2>7, <3>1, <1>a, LenProperties DEF Extends
  <2>10. QED  BY <2>8, <2>9
<1>3. QED  BY <1>1, <1>2

(***************************************************************************)
(* A snapshot stays one while the table grows.                             *)
(***************************************************************************)
LEMMA SnapStays ==
    ASSUME NEW snap, NEW rows, NEW new, SnapOf(snap, rows), Extends(rows, new),
           rows \in Seq(File), new \in Seq(File)
    PROVE  SnapOf(snap, new)
<1>1. Len(snap) \in Nat /\ Len(rows) \in Nat /\ Len(new) \in Nat
  BY DEF SnapOf, RowsOK
<1>2. QED  BY <1>1 DEF SnapOf, Extends

LEMMA ExtendsItself ==
    ASSUME NEW rows, RowsOK(rows)
    PROVE  Extends(rows, rows) /\ SnapOf(rows, rows)
<1>1. Len(rows) \in Nat /\ \A i \in 1..Len(rows) : Len(rows[i].versions) \in Nat
  BY DEF RowsOK, RowOK, File
<1>2. QED  BY <1>1 DEF Extends, SnapOf

(***************************************************************************)
(* A file that exists has blocks, all of them well formed.                 *)
(***************************************************************************)
LEMMA GenBlocksOfFile ==
    ASSUME NEW c \in Content
    PROVE  /\ GenBlocks(c) \in Seq(SyncBlock)
           /\ c # Absent => GenBlocks(c) # <<>>
<1>1. GenBlocks(c) \in [1..Len(c) -> SyncBlock]
  <2>1. ASSUME NEW k \in 1..Len(c)
        PROVE  [offset |-> k - 1, hash |-> BlockHash(c[k])] \in SyncBlock
    BY DEF SyncBlock, Content, BlockHash
  <2>2. QED  BY <2>1 DEF GenBlocks
<1>2. GenBlocks(c) \in Seq(SyncBlock) /\ Len(GenBlocks(c)) = Len(c)
  BY <1>1, FunIsSeq DEF Content
<1>3. QED  BY <1>2, EmptySeq DEF Content, Absent

LEMMA WriteBlockIsContent ==
    ASSUME NEW c \in Content, NEW o \in Nat, NEW b \in Block
    PROVE  WriteBlock(c, o, b) \in Content
<1> DEFINE n == IF o + 1 > Len(c) THEN o + 1 ELSE Len(c)
<1>1. n \in Nat
  BY DEF Content
<1>2. WriteBlock(c, o, b) \in [1..n -> Block]
  BY ZeroAssumption, ElementOfSeq DEF WriteBlock, Content
<1>3. QED  BY <1>1, <1>2, FunIsSeq DEF Content
=============================================================================
