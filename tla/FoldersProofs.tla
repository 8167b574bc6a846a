---------------------------- MODULE FoldersProofs ----------------------------
(***************************************************************************)
(* For any number of devices, folders, connections and faults: only a      *)
(* device that the user knows can put a folder in front of him; an Index   *)
(* finds its folder; and a reader dies of a ClusterConfig only when        *)
(* somebody else has had a hand in a folder of it.                         *)
(***************************************************************************)
EXTENDS Folders, TLAPS

(***************************************************************************)
(* The inductive invariant.                                                *)
(***************************************************************************)

\* The types of what a folder on offer depends on.
OfferTypes ==
    /\ peers \in [Device -> SUBSET Device]
    /\ folder \in [Device -> [Folder -> {"none", "pending", "local"}]]
    /\ shares \in [Device -> SUBSET (Folder \X Device)]
    /\ conn \in [Link -> {"down", "verify", "index", "config", "up"}]
    /\ trust \in [Link -> SUBSET Device] /\ told \in [Link -> SUBSET Folder]
    /\ reader \in [Link -> Reader]

\* The folders that p shares with d.
SharedBy(p, d) == {f \in Folder : <<f, d>> \in shares[p]}

\* The verifier goes by a list of peers that was read earlier: they are still
\* peers.  A connection past it is to a peer.
Vouched ==
    \A l \in Link :
        /\ trust[l] \subseteq peers[l[1]]
        /\ conn[l] \in {"index", "config", "up"} => l[2] \in peers[l[1]]
        /\ reader[l].at # "off" => l[2] \in peers[l[1]]

\* What a ClusterConfig tells, and what is left of it to be handled by the
\* reader, are folders that the other end shares with this one.
Truthful ==
    \A l \in Link :
        /\ told[l] \subseteq SharedBy(l[1], l[2])
        /\ reader[l].todo \cup reader[l].cur \subseteq SharedBy(l[2], l[1])

OfferInv == OfferTypes /\ Vouched /\ Truthful /\ OffersFromPeers
-----------------------------------------------------------------------------
LEMMA LinkEnds ==
    ASSUME NEW l \in Link
    PROVE  /\ l[1] \in Device /\ l[2] \in Device /\ Reverse(l) \in Link
           /\ Reverse(l)[1] = l[2] /\ Reverse(l)[2] = l[1]
  BY FoldersAssumption DEF Reverse

LEMMA ReaderOffIsReader ==
    ReaderOff \in Reader /\ ReaderOff.at = "off" /\ ReaderOff.todo = {} /\ ReaderOff.cur = {}
  BY DEF ReaderOff, Reader

\* Peers and shares are only ever added: what was vouched for, true or on offer
\* stays so, as long as connections and folders stay and no reader has more to do.
LEMMA MorePeersAndShares ==
    ASSUME OfferInv,
           peers' \in [Device -> SUBSET Device], shares' \in [Device -> SUBSET (Folder \X Device)],
           \A d \in Device : peers[d] \subseteq peers'[d] /\ shares[d] \subseteq shares'[d],
           taken \subseteq taken',
           UNCHANGED <<folder, conn, trust, told>>,
           reader' \in [Link -> Reader],
           \A l \in Link :
              /\ reader'[l].todo \subseteq reader[l].todo
              /\ reader'[l].cur \subseteq reader[l].cur
              /\ reader'[l].at # "off" => reader[l].at # "off"
    PROVE  OfferInv'
  <1>1. OfferTypes'
    BY DEF OfferInv, OfferTypes
  <1>2. Vouched'
    BY LinkEnds DEF OfferInv, Vouched
  <1>3. Truthful'
    <2> SUFFICES ASSUME NEW l \in Link
                 PROVE  /\ told[l] \subseteq SharedBy(l[1], l[2])'
                        /\ reader'[l].todo \cup reader'[l].cur \subseteq SharedBy(l[2], l[1])'
      BY DEF Truthful
    <2>1. /\ SharedBy(l[1], l[2]) \subseteq SharedBy(l[1], l[2])'
          /\ SharedBy(l[2], l[1]) \subseteq SharedBy(l[2], l[1])'
      BY LinkEnds DEF SharedBy
    <2> QED  BY <2>1 DEF OfferInv, Truthful
  <1>4. OffersFromPeers'
    <2> SUFFICES ASSUME NEW d \in Device, NEW f \in Folder,
                        folder[d][f] = "pending", <<d, f>> \notin taken'
                 PROVE  \E p \in peers'[d] : <<f, d>> \in shares'[p]
      BY DEF OffersFromPeers
    <2>1. PICK p \in peers[d] : <<f, d>> \in shares[p]
      BY DEF OfferInv, OffersFromPeers
    <2>2. p \in Device
      BY DEF OfferInv, OfferTypes
    <2> QED  BY <2>1, <2>2
  <1> QED  BY <1>1, <1>2, <1>3, <1>4 DEF OfferInv

\* A folder changes at one device: it is not pending, or the user has taken it
\* away, or it is offered by a peer.
LEMMA FolderChanges ==
    ASSUME OfferInv, NEW d \in Device, NEW f \in Folder,
           NEW s \in {"none", "pending", "local"},
           folder' = [folder EXCEPT ![d][f] = s],
           s = "pending" => \/ <<d, f>> \in taken'
                            \/ \E p \in peers[d] : <<f, d>> \in shares[p],
           taken \subseteq taken',
           UNCHANGED <<peers, shares>>
    PROVE  OffersFromPeers' /\ folder' \in [Device -> [Folder -> {"none", "pending", "local"}]]
  <1>1. folder' \in [Device -> [Folder -> {"none", "pending", "local"}]]
    BY DEF OfferInv, OfferTypes
  <1>2. \A e \in Device, g \in Folder :
            folder'[e][g] = IF e = d /\ g = f THEN s ELSE folder[e][g]
    BY DEF OfferInv, OfferTypes
  <1>3. OffersFromPeers'
    <2> SUFFICES ASSUME NEW e \in Device, NEW g \in Folder,
                        folder'[e][g] = "pending", <<e, g>> \notin taken'
                 PROVE  \E p \in peers[e] : <<g, e>> \in shares[p]
      BY DEF OffersFromPeers
    <2>1. CASE e = d /\ g = f
      BY <1>2, <2>1
    <2>2. CASE ~(e = d /\ g = f)
      BY <1>2, <2>2 DEF OfferInv, OffersFromPeers
    <2> QED  BY <2>1, <2>2
  <1> QED  BY <1>1, <1>3

\* A connection or its reader changes at some links, or is gone.
LEMMA LinksChange ==
    ASSUME OfferInv, UNCHANGED <<peers, shares, folder, taken>>,
           conn' \in [Link -> {"down", "verify", "index", "config", "up"}],
           trust' \in [Link -> SUBSET Device], told' \in [Link -> SUBSET Folder],
           reader' \in [Link -> Reader],
           \A l \in Link :
              /\ trust'[l] \subseteq peers[l[1]]
              /\ conn'[l] \in {"index", "config", "up"} => l[2] \in peers[l[1]]
              /\ reader'[l].at # "off" => l[2] \in peers[l[1]]
              /\ told'[l] \subseteq SharedBy(l[1], l[2])
              /\ reader'[l].todo \cup reader'[l].cur \subseteq SharedBy(l[2], l[1])
    PROVE  OfferInv'
  <1>1. OfferTypes'
    BY DEF OfferInv, OfferTypes
  <1>2. Vouched' /\ Truthful'
    BY DEF Vouched, Truthful, SharedBy
  <1>3. OffersFromPeers'
    BY DEF OfferInv, OffersFromPeers
  <1> QED  BY <1>1, <1>2, <1>3 DEF OfferInv

\* Steps that touch none of it.
LEMMA NothingChanges ==
    ASSUME OfferInv, UNCHANGED <<peers, shares, folder, conn, trust, told, reader, taken>>
    PROVE  OfferInv'
  <1>1. OfferTypes'
    BY DEF OfferInv, OfferTypes
  <1>2. Vouched' /\ Truthful'
    BY DEF OfferInv, Vouched, Truthful, SharedBy
  <1>3. OffersFromPeers'
    BY DEF OfferInv, OffersFromPeers
  <1> QED  BY <1>1, <1>2, <1>3 DEF OfferInv

(***************************************************************************)
(* What users do.                                                          *)
(***************************************************************************)
LEMMA PeersAndSharesSteps ==
    ASSUME OfferInv, NEW l \in Link,
           \/ AddPeer(l[1], l[2])
           \/ \E f \in Folder : SyncDirectoryWithPeer(l[1], f, l[2])
    PROVE  OfferInv'
  <1>1. UNCHANGED <<folder, conn, trust, told, reader, taken>>
    BY DEF AddPeer, SyncDirectoryWithPeer, link, history
  <1>2. /\ peers \in [Device -> SUBSET Device]
        /\ shares \in [Device -> SUBSET (Folder \X Device)]
        /\ reader \in [Link -> Reader]
    BY DEF OfferInv, OfferTypes
  <1>3. /\ peers' \in [Device -> SUBSET Device]
        /\ shares' \in [Device -> SUBSET (Folder \X Device)]
        /\ \A d \in Device : peers[d] \subseteq peers'[d] /\ shares[d] \subseteq shares'[d]
    <2>1. CASE AddPeer(l[1], l[2])
      BY <1>2, <2>1, LinkEnds DEF AddPeer
    <2>2. ASSUME NEW f \in Folder, SyncDirectoryWithPeer(l[1], f, l[2])
          PROVE  /\ peers' \in [Device -> SUBSET Device]
                 /\ shares' \in [Device -> SUBSET (Folder \X Device)]
                 /\ \A d \in Device : /\ peers[d] \subseteq peers'[d]
                                      /\ shares[d] \subseteq shares'[d]
      BY <1>2, <2>2, LinkEnds DEF SyncDirectoryWithPeer
    <2> QED  BY <2>1, <2>2
  <1> QED  BY <1>1, <1>2, <1>3, MorePeersAndShares

LEMMA UserFolderSteps ==
    ASSUME OfferInv, NEW d \in Device, NEW f \in Folder,
           \/ AddSyncDirectory(d, f) \/ AcceptFolder(d, f)
           \/ ForgetPath(d, f) \/ RemoveSyncDirectory(d, f)
    PROVE  OfferInv'
  <1>1. UNCHANGED <<peers, shares, conn, trust, told, reader>> /\ taken \subseteq taken'
    BY DEF AddSyncDirectory, AcceptFolder, ForgetPath, RemoveSyncDirectory, link, history
  <1>2. \E s \in {"none", "pending", "local"} :
            /\ folder' = [folder EXCEPT ![d][f] = s]
            /\ s = "pending" => <<d, f>> \in taken'
    BY DEF AddSyncDirectory, AcceptFolder, ForgetPath, RemoveSyncDirectory
  <1>3. OffersFromPeers' /\ folder' \in [Device -> [Folder -> {"none", "pending", "local"}]]
    BY <1>1, <1>2, FolderChanges
  <1>4. OfferTypes'
    BY <1>1, <1>3 DEF OfferInv, OfferTypes
  <1>5. Vouched' /\ Truthful'
    BY <1>1 DEF OfferInv, Vouched, Truthful, SharedBy
  <1> QED  BY <1>3, <1>4, <1>5 DEF OfferInv

(***************************************************************************)
(* Connections.                                                            *)
(***************************************************************************)
LEMMA DialStep ==
    ASSUME OfferInv, NEW l \in Link, Dial(l)
    PROVE  OfferInv'
  <1> DEFINE S == {l, Reverse(l)}
  <1>1. /\ UNCHANGED <<peers, shares, folder, taken, told, reader>>
        /\ conn' = [m \in Link |-> IF m \in S THEN "verify" ELSE conn[m]]
        /\ trust' = [m \in Link |-> IF m \in S THEN peers[m[1]] ELSE trust[m]]
    BY DEF Dial, device, history
  <1> HIDE DEF S
  <1>2. /\ conn' \in [Link -> {"down", "verify", "index", "config", "up"}]
        /\ trust' \in [Link -> SUBSET Device]
    BY <1>1, LinkEnds DEF OfferInv, OfferTypes
  <1>3. \A m \in Link :
           /\ trust'[m] \subseteq peers[m[1]]
           /\ conn'[m] \in {"index", "config", "up"} => m[2] \in peers[m[1]]
    BY <1>1 DEF OfferInv, Vouched
  <1> QED  BY <1>1, <1>2, <1>3, LinksChange DEF OfferInv, OfferTypes, Vouched, Truthful

LEMMA GoneStep ==
    ASSUME OfferInv, NEW S, Gone(S), UNCHANGED <<device, history>>
    PROVE  OfferInv'
  <1>1. UNCHANGED <<peers, shares, folder, taken>>
    BY DEF device, history
  <1>2. /\ conn' \in [Link -> {"down", "verify", "index", "config", "up"}]
        /\ trust' \in [Link -> SUBSET Device] /\ told' \in [Link -> SUBSET Folder]
        /\ reader' \in [Link -> Reader]
    BY ReaderOffIsReader DEF OfferInv, OfferTypes, Gone
  <1>3. \A m \in Link :
           /\ \/ conn'[m] = "down" /\ trust'[m] = {} /\ told'[m] = {}
              \/ conn'[m] = conn[m] /\ trust'[m] = trust[m] /\ told'[m] = told[m]
           /\ reader'[m] = ReaderOff \/ reader'[m] = reader[m]
    BY DEF Gone
  <1>4. \A m \in Link :
           /\ trust'[m] \subseteq peers[m[1]]
           /\ conn'[m] \in {"index", "config", "up"} => m[2] \in peers[m[1]]
           /\ reader'[m].at # "off" => m[2] \in peers[m[1]]
           /\ told'[m] \subseteq SharedBy(m[1], m[2])
           /\ reader'[m].todo \cup reader'[m].cur \subseteq SharedBy(m[2], m[1])
    BY <1>3, ReaderOffIsReader DEF OfferInv, Vouched, Truthful
  <1> QED  BY <1>1, <1>2, <1>4, LinksChange

LEMMA VerifyStep ==
    ASSUME OfferInv, NEW l \in Link, Verify(l)
    PROVE  OfferInv'
  <1>1. CASE l[2] \in trust[l]
    <2>1. /\ UNCHANGED <<peers, shares, folder, taken, trust, told, reader>>
          /\ conn' = [conn EXCEPT ![l] = "index"]
      BY <1>1 DEF Verify, device, history
    <2>2. /\ conn' \in [Link -> {"down", "verify", "index", "config", "up"}]
          /\ \A m \in Link : conn'[m] = IF m = l THEN "index" ELSE conn[m]
      BY <2>1 DEF OfferInv, OfferTypes
    <2>3. \A m \in Link : conn'[m] \in {"index", "config", "up"} => m[2] \in peers[m[1]]
      BY <1>1, <2>2 DEF OfferInv, Vouched
    <2> QED  BY <2>1, <2>2, <2>3, LinksChange DEF OfferInv, OfferTypes, Vouched, Truthful
  <1>2. CASE l[2] \notin trust[l]
    BY <1>2, GoneStep DEF Verify
  <1> QED  BY <1>1, <1>2

LEMMA FirstIndexStep ==
    ASSUME OfferInv, NEW l \in Link, FirstIndex(l)
    PROVE  OfferInv'
  <1>1. CASE CanSend(l)
    <2>1. /\ UNCHANGED <<peers, shares, folder, taken, trust, told>>
          /\ conn[l] = "index" /\ conn' = [conn EXCEPT ![l] = "config"]
          /\ reader' = [reader EXCEPT ![l].at = "config"]
      BY <1>1 DEF FirstIndex, device, history
    <2>2. /\ conn' \in [Link -> {"down", "verify", "index", "config", "up"}]
          /\ \A m \in Link : conn'[m] = IF m = l THEN "config" ELSE conn[m]
      BY <2>1 DEF OfferInv, OfferTypes
    <2>3. /\ reader' \in [Link -> Reader]
          /\ \A m \in Link :
                /\ m # l => reader'[m].at = reader[m].at
                /\ reader'[m].todo = reader[m].todo /\ reader'[m].cur = reader[m].cur
      BY <2>1 DEF OfferInv, OfferTypes, Reader
    <2>4. l[2] \in peers[l[1]]
      BY <2>1 DEF OfferInv, Vouched
    <2>5. \A m \in Link :
             /\ conn'[m] \in {"index", "config", "up"} => m[2] \in peers[m[1]]
             /\ reader'[m].at # "off" => m[2] \in peers[m[1]]
             /\ reader'[m].todo \cup reader'[m].cur \subseteq SharedBy(m[2], m[1])
      BY <2>2, <2>3, <2>4 DEF OfferInv, Vouched, Truthful
    <2> QED  BY <2>1, <2>2, <2>3, <2>5, LinksChange
             DEF OfferInv, OfferTypes, Vouched, Truthful
  <1>2. CASE ~CanSend(l)
    BY <1>2, GoneStep DEF FirstIndex
  <1> QED  BY <1>1, <1>2

LEMMA ClusterConfigStep ==
    ASSUME OfferInv, NEW l \in Link, ClusterConfig(l)
    PROVE  OfferInv'
  <1>1. /\ UNCHANGED <<peers, shares, folder, taken, trust, reader>>
        /\ conn[l] = "config" /\ conn' = [conn EXCEPT ![l] = "up"]
        /\ told' = [told EXCEPT ![l] = Synced(l[1], l[2])]
    BY DEF ClusterConfig, device, history
  <1>2. Synced(l[1], l[2]) \subseteq SharedBy(l[1], l[2])
    BY DEF Synced, SharedBy, Known
  <1>3. /\ conn' \in [Link -> {"down", "verify", "index", "config", "up"}]
        /\ \A m \in Link : conn'[m] = IF m = l THEN "up" ELSE conn[m]
    BY <1>1 DEF OfferInv, OfferTypes
  <1>4. /\ told' \in [Link -> SUBSET Folder]
        /\ \A m \in Link : told'[m] = IF m = l THEN Synced(l[1], l[2]) ELSE told[m]
    BY <1>1 DEF OfferInv, OfferTypes, Synced, Known
  <1>5. \A m \in Link :
           /\ conn'[m] \in {"index", "config", "up"} => m[2] \in peers[m[1]]
           /\ told'[m] \subseteq SharedBy(m[1], m[2])
    BY <1>1, <1>2, <1>3, <1>4 DEF OfferInv, Vouched, Truthful
  <1> QED  BY <1>1, <1>3, <1>4, <1>5, LinksChange DEF OfferInv, OfferTypes, Vouched, Truthful

(***************************************************************************)
(* The reader handles the ClusterConfig.                                   *)
(***************************************************************************)
LEMMA ReaderParts ==
    ASSUME OfferInv, NEW l \in Link
    PROVE  reader[l].todo \in SUBSET Folder /\ reader[l].cur \in SUBSET Folder
  BY DEF OfferInv, OfferTypes, Reader

LEMMA ReaderGoesOn ==
    ASSUME OfferInv, NEW l \in Link, reader[l].at # "off",
           NEW at \in {"off", "lookup", "add", "share", "loop", "dead"},
           NEW todo \in SUBSET Folder, NEW cur \in SUBSET Folder,
           todo \cup cur \subseteq SharedBy(l[2], l[1]),
           SetReader(l, at, todo, cur),
           UNCHANGED <<peers, shares, folder, taken, conn, trust, told>>
    PROVE  OfferInv'
  <1>1. /\ reader' \in [Link -> Reader]
        /\ reader'[l].todo = todo /\ reader'[l].cur = cur
        /\ \A m \in Link \ {l} : reader'[m] = reader[m]
    BY DEF OfferInv, OfferTypes, SetReader, Reader
  <1>2. \A m \in Link :
           /\ reader'[m].at # "off" => m[2] \in peers[m[1]]
           /\ reader'[m].todo \cup reader'[m].cur \subseteq SharedBy(m[2], m[1])
    BY <1>1 DEF OfferInv, Vouched, Truthful
  <1> QED  BY <1>1, <1>2, LinksChange DEF OfferInv, OfferTypes, Vouched, Truthful

LEMMA ConfigEndsSets ==
    ASSUME NEW l, NEW at, ConfigEnds(l, at)
    PROVE  \E a \in {"off", at} : SetReader(l, a, {}, {})
  BY DEF ConfigEnds

LEMMA ReadConfigStep ==
    ASSUME OfferInv, NEW l \in Link, ReadConfig(l)
    PROVE  OfferInv'
  <1>1. /\ UNCHANGED <<peers, shares, folder, taken, conn, trust, told>>
        /\ reader[l].at = "config" /\ SetReader(l, "lookup", told[Reverse(l)], {})
    BY DEF ReadConfig, device, history
  <1>2. told[Reverse(l)] \in SUBSET Folder
    BY LinkEnds DEF OfferInv, OfferTypes
  <1>3. told[Reverse(l)] \subseteq SharedBy(l[2], l[1])
    BY LinkEnds DEF OfferInv, Truthful
  <1> QED  BY <1>1, <1>2, <1>3, ReaderGoesOn

LEMMA LookupFolderStep ==
    ASSUME OfferInv, NEW l \in Link, LookupFolder(l)
    PROVE  OfferInv'
  <1>1. /\ UNCHANGED <<peers, shares, folder, taken, conn, trust, told>>
        /\ reader[l].at = "lookup"
    BY DEF LookupFolder, device, history
  <1>2. /\ reader[l].todo \in SUBSET Folder
        /\ reader[l].todo \subseteq SharedBy(l[2], l[1])
    BY ReaderParts DEF OfferInv, Truthful
  <1>3. CASE ConfigEnds(l, "loop")
    BY <1>1, <1>3, ConfigEndsSets, ReaderGoesOn
  <1>4. ASSUME NEW f \in reader[l].todo, SetReader(l, "lookup", reader[l].todo \ {f}, {})
        PROVE  OfferInv'
    BY <1>1, <1>2, <1>4, ReaderGoesOn
  <1>5. ASSUME NEW f \in reader[l].todo, SetReader(l, "add", reader[l].todo \ {f}, {f})
        PROVE  OfferInv'
    BY <1>1, <1>2, <1>5, ReaderGoesOn
  <1> QED  BY <1>3, <1>4, <1>5 DEF LookupFolder

LEMMA AddFolderStep ==
    ASSUME OfferInv, NEW l \in Link, AddFolder(l)
    PROVE  OfferInv'
  <1>1. /\ UNCHANGED <<peers, shares, taken, conn, trust, told>> /\ reader[l].at = "add"
    BY DEF AddFolder, history
  <1>2. /\ reader[l].todo \in SUBSET Folder /\ reader[l].cur \in SUBSET Folder
        /\ reader[l].todo \cup reader[l].cur \subseteq SharedBy(l[2], l[1])
    BY ReaderParts DEF OfferInv, Truthful
  <1>3. CASE ConfigEnds(l, "dead") /\ UNCHANGED folder
    BY <1>1, <1>3, ConfigEndsSets, ReaderGoesOn
  <1>4. ASSUME NEW f \in reader[l].cur, folder' = [folder EXCEPT ![l[1]][f] = "pending"],
               SetReader(l, "share", reader[l].todo, {f})
        PROVE  OfferInv'
    <2>1. l[1] \in Device /\ f \in Folder
      BY <1>2, LinkEnds
    <2>2. l[2] \in peers[l[1]] /\ <<f, l[1]>> \in shares[l[2]]
      BY <1>1, <1>2 DEF OfferInv, Vouched, SharedBy
    <2>3. /\ OffersFromPeers'
          /\ folder' \in [Device -> [Folder -> {"none", "pending", "local"}]]
      BY <1>1, <1>4, <2>1, <2>2, FolderChanges
    <2>4. /\ reader' \in [Link -> Reader]
          /\ reader'[l].todo = reader[l].todo /\ reader'[l].cur = {f}
          /\ \A m \in Link \ {l} : reader'[m] = reader[m]
      BY <1>2, <1>4, <2>1 DEF OfferInv, OfferTypes, SetReader, Reader
    <2>5. OfferTypes'
      BY <1>1, <2>3, <2>4 DEF OfferInv, OfferTypes
    <2>6. Vouched'
      BY <1>1, <2>2, <2>4 DEF OfferInv, Vouched
    <2>7. Truthful'
      BY <1>1, <1>2, <2>4 DEF OfferInv, Truthful, SharedBy
    <2> QED  BY <2>3, <2>5, <2>6, <2>7 DEF OfferInv
  <1> QED  BY <1>3, <1>4 DEF AddFolder

LEMMA ShareFolderStep ==
    ASSUME OfferInv, NEW l \in Link, ShareFolder(l)
    PROVE  OfferInv'
  <1>1. /\ UNCHANGED <<peers, folder, taken, conn, trust, told>> /\ reader[l].at = "share"
    BY DEF ShareFolder, history
  <1>2. reader[l].todo \in SUBSET Folder /\ reader[l].cur \in SUBSET Folder
    BY ReaderParts
  <1>3. CASE ConfigEnds(l, "dead") /\ UNCHANGED shares
    BY <1>1, <1>3, ConfigEndsSets, ReaderGoesOn
  <1>4. ASSUME NEW f \in reader[l].cur,
               shares' = [shares EXCEPT ![l[1]] = @ \cup {<<f, l[2]>>}],
               SetReader(l, "lookup", reader[l].todo, {})
        PROVE  OfferInv'
    <2>1. l[1] \in Device /\ l[2] \in Device /\ f \in Folder
      BY <1>2, LinkEnds
    <2>2. /\ peers \in [Device -> SUBSET Device]
          /\ shares \in [Device -> SUBSET (Folder \X Device)]
      BY DEF OfferInv, OfferTypes
    <2>3. /\ shares' \in [Device -> SUBSET (Folder \X Device)]
          /\ \A d \in Device : shares[d] \subseteq shares'[d]
      BY <1>4, <2>1, <2>2
    <2>4. /\ reader' \in [Link -> Reader]
          /\ reader'[l].todo = reader[l].todo /\ reader'[l].cur = {}
          /\ \A m \in Link \ {l} : reader'[m] = reader[m]
      BY <1>2, <1>4 DEF OfferInv, OfferTypes, SetReader, Reader
    <2>5. \A m \in Link :
             /\ reader'[m].todo \subseteq reader[m].todo
             /\ reader'[m].cur \subseteq reader[m].cur
             /\ reader'[m].at # "off" => reader[m].at # "off"
      BY <1>1, <2>4
    <2>6. peers' \in [Device -> SUBSET Device] /\ \A d \in Device : peers[d] \subseteq peers'[d]
      BY <1>1, <2>2
    <2> QED  BY <1>1, <2>3, <2>4, <2>5, <2>6, MorePeersAndShares
  <1> QED  BY <1>3, <1>4 DEF ShareFolder

(***************************************************************************)
(* Files, tasks and watchers.                                              *)
(***************************************************************************)
LEMMA OtherSteps ==
    ASSUME OfferInv,
           \/ \E d \in Device, f \in Folder : MakeFile(d, f) \/ GenerateIndex(d, f)
           \/ \E l \in Link : ReadIndex(l) \/ WatchStep(l)
           \/ \E d \in Device : TaskStep(d)
           \/ UNCHANGED vars
    PROVE  OfferInv'
  <1>1. ASSUME NEW d \in Device, NEW f \in Folder, MakeFile(d, f) \/ GenerateIndex(d, f)
        PROVE  UNCHANGED <<peers, shares, folder, conn, trust, told, reader, taken>>
    BY <1>1 DEF MakeFile, GenerateIndex, link, history
  <1>2. ASSUME NEW l \in Link, ReadIndex(l) \/ WatchStep(l)
        PROVE  UNCHANGED <<peers, shares, folder, conn, trust, told, reader, taken>>
    BY <1>2 DEF ReadIndex, WatchStep, WatchStart, WatchEvent, ScanFolder, device, history
  <1>3. ASSUME NEW d \in Device, NEW t \in tasks[d],
               \/ LookupIndex(d, t) \/ MergeIndex(d, t) \/ GetDirectory(d, t)
               \/ HandleRequest(d, t) \/ GotFile(d, t) \/ DirectoryUpdated(d, t)
        PROVE  UNCHANGED <<peers, shares, folder, conn, trust, told, reader, taken>>
    BY <1>3 DEF LookupIndex, MergeIndex, GetDirectory, HandleRequest, GotFile,
                DirectoryUpdated, device, link, history
  <1>4. CASE UNCHANGED vars
    BY <1>4, NothingChanges DEF vars, device, link, history
  <1> QED  BY <1>1, <1>2, <1>3, <1>4, NothingChanges DEF TaskStep
-----------------------------------------------------------------------------
LEMMA InitOffer == Init => OfferInv
  <1> SUFFICES ASSUME Init PROVE OfferInv
    OBVIOUS
  <1>1. OfferTypes
    BY FoldersAssumption, ReaderOffIsReader DEF Init, OfferTypes
  <1>2. Vouched /\ Truthful
    BY ReaderOffIsReader DEF Init, Vouched, Truthful
  <1>3. OffersFromPeers
    BY DEF Init, OffersFromPeers
  <1> QED  BY <1>1, <1>2, <1>3 DEF OfferInv

LEMMA NextOffer ==
    ASSUME OfferInv, [Next]_vars
    PROVE  OfferInv'
  <1>1. CASE UserStep
    BY <1>1, PeersAndSharesSteps, UserFolderSteps, OtherSteps DEF UserStep
  <1>2. ASSUME NEW l \in Link, Dial(l) \/ Disconnect(l) PROVE OfferInv'
    BY <1>2, DialStep, GoneStep DEF Disconnect
  <1>3. ASSUME NEW l \in Link, ConnStep(l) PROVE OfferInv'
    BY <1>3, VerifyStep, FirstIndexStep, ClusterConfigStep DEF ConnStep
  <1>4. ASSUME NEW l \in Link, ReaderStep(l) PROVE OfferInv'
    BY <1>4, ReadConfigStep, LookupFolderStep, AddFolderStep, ShareFolderStep, OtherSteps
       DEF ReaderStep
  <1>5. ASSUME NEW l \in Link, WatchStep(l) PROVE OfferInv'
    BY <1>5, OtherSteps
  <1>6. ASSUME NEW d \in Device, TaskStep(d) PROVE OfferInv'
    BY <1>6, OtherSteps
  <1>7. CASE UNCHANGED vars
    BY <1>7, OtherSteps
  <1> QED  BY <1>1, <1>2, <1>3, <1>4, <1>5, <1>6, <1>7 DEF Next, SystemStep

(***************************************************************************)
(* A folder is on offer only where a known device shares it: the verifier, *)
(* which reads the list of peers before the handshake, the ClusterConfig   *)
(* and its handler, which runs in steps of its own, let no other one by.   *)
(***************************************************************************)
THEOREM OffersComeFromPeers == Spec => []OffersFromPeers
  <1>1. Init => OfferInv
    BY InitOffer
  <1>2. OfferInv /\ [Next]_vars => OfferInv'
    BY NextOffer
  <1>3. OfferInv => OffersFromPeers
    BY DEF OfferInv
  <1> QED  BY <1>1, <1>2, <1>3, PTL DEF Spec
-----------------------------------------------------------------------------
(***************************************************************************)
(* Types.  Those of what an offer depends on are part of OfferInv.         *)
(***************************************************************************)

\* A task of d has been started by a connection of d.
TasksOf(d) == {t \in Task : <<d, t.peer>> \in Link}

RestTypes ==
    /\ rows \in [Device -> SUBSET Folder] /\ disk \in [Device -> SUBSET Folder]
    /\ idx \in [Link -> SUBSET IndexMsg] /\ watch \in [Link -> Watch]
    /\ tasks \in [Device -> SUBSET Task]
    /\ \A d \in Device : tasks[d] \subseteq TasksOf(d)
    /\ taken \subseteq Device \X Folder /\ unknown \subseteq Link \X Folder
    /\ dials \in 0..MaxDials /\ upsets \in 0..MaxUpsets

TypeInv == OfferInv /\ RestTypes

LEMMA WatchOffIsWatch ==
    /\ WatchOff \in Watch
    /\ \A at \in {"off", "on", "ending", "dead"}, D \in SUBSET Folder :
          [WatchOff EXCEPT !.at = at, !.dirs = D] \in Watch
    /\ \A at \in {"off", "on", "ending", "dead"} : [WatchOff EXCEPT !.at = at] \in Watch
  BY DEF WatchOff, Watch

LEMMA NewTaskIsTask ==
    ASSUME NEW d \in Device, NEW p \in Device, <<d, p>> \in Link, NEW f \in Folder,
           NEW at \in {"lookup", "merge", "get", "asked", "served", "updated"}
    PROVE  /\ NewTask(at, p, f) \in TasksOf(d)
           /\ \A b \in BOOLEAN : /\ [NewTask(at, p, f) EXCEPT !.path = b] \in TasksOf(d)
                                 /\ [NewTask(at, p, f) EXCEPT !.files = b] \in TasksOf(d)
  BY DEF NewTask, Task, TasksOf

LEMMA LinkIsPair ==
    ASSUME NEW l \in Link
    PROVE  l = <<l[1], l[2]>>
  BY FoldersAssumption

LEMMA UpdatesAreTasks ==
    ASSUME NEW d \in Device, NEW f \in Folder
    PROVE  Updates(d, f) \subseteq TasksOf(d)
  <1> SUFFICES ASSUME NEW l \in Link, l[1] = d
               PROVE  NewTask("updated", l[2], f) \in TasksOf(d)
    BY DEF Updates, LinksOf
  <1> QED  BY LinkEnds, LinkIsPair, NewTaskIsTask

LEMMA NotifiedIsWatch ==
    ASSUME RestTypes, NEW d, NEW f
    PROVE  Notified(d, f) \in [Link -> Watch]
  <1>1. \A l \in Link : watch[l] \in Watch
    BY DEF RestTypes
  <1>2. \A w \in Watch : [w EXCEPT !.event = TRUE] \in Watch
    BY DEF Watch
  <1> QED  BY <1>1, <1>2 DEF Notified

\* The tasks of one device change.
LEMMA TasksChange ==
    ASSUME RestTypes, NEW d \in Device, NEW S \in SUBSET TasksOf(d),
           tasks' = [tasks EXCEPT ![d] = S]
    PROVE  /\ tasks' \in [Device -> SUBSET Task]
           /\ \A e \in Device : tasks'[e] \subseteq TasksOf(e)
  <1>1. TasksOf(d) \subseteq Task
    BY DEF TasksOf
  <1> QED  BY <1>1 DEF RestTypes

LEMMA TaskParts ==
    ASSUME RestTypes, NEW d \in Device, NEW t \in tasks[d]
    PROVE  /\ t \in TasksOf(d) /\ t \in Task /\ <<d, t.peer>> \in Link
           /\ t.peer \in Device /\ t.folder \in Folder
           /\ tasks[d] \subseteq TasksOf(d)
           /\ \A a \in {"lookup", "merge", "get", "asked", "served", "updated"},
                b \in BOOLEAN :
                /\ [t EXCEPT !.at = a] \in TasksOf(d)
                /\ [t EXCEPT !.at = a, !.path = b] \in TasksOf(d)
                /\ [t EXCEPT !.at = a, !.files = b] \in TasksOf(d)
                /\ [t EXCEPT !.live = b] \in TasksOf(d)
  <1>1. t \in Task /\ <<d, t.peer>> \in Link /\ t \in TasksOf(d)
    BY DEF RestTypes, TasksOf
  <1>2. t.peer \in Device /\ t.folder \in Folder
    BY <1>1 DEF Task
  <1>3. \A a \in {"lookup", "merge", "get", "asked", "served", "updated"}, b \in BOOLEAN :
            /\ [t EXCEPT !.at = a] \in TasksOf(d)
            /\ [t EXCEPT !.at = a, !.path = b] \in TasksOf(d)
            /\ [t EXCEPT !.at = a, !.files = b] \in TasksOf(d)
            /\ [t EXCEPT !.live = b] \in TasksOf(d)
    BY <1>1 DEF Task, TasksOf
  <1> QED  BY <1>1, <1>2, <1>3 DEF RestTypes

LEMMA RecordsTypes ==
    ASSUME RestTypes, NEW d \in Device, NEW f \in Folder, Records(d, f)
    PROVE  /\ rows' \in [Device -> SUBSET Folder] /\ tasks' \in [Device -> SUBSET Task]
           /\ \A e \in Device : tasks'[e] \subseteq TasksOf(e)
  <1>1. CASE f \in disk[d] \ rows[d]
    <2>1. rows' \in [Device -> SUBSET Folder]
      BY <1>1 DEF RestTypes, Records
    <2>2. tasks[d] \cup Updates(d, f) \in SUBSET TasksOf(d)
      BY UpdatesAreTasks DEF RestTypes
    <2>3. tasks' = [tasks EXCEPT ![d] = tasks[d] \cup Updates(d, f)]
      BY <1>1 DEF Records
    <2> QED  BY <2>1, <2>2, <2>3, TasksChange
  <1>2. CASE f \notin disk[d] \ rows[d]
    BY <1>2 DEF RestTypes, Records
  <1> QED  BY <1>1, <1>2

LEMMA UserTypes ==
    ASSUME TypeInv, UserStep
    PROVE  RestTypes'
  <1> USE DEF TypeInv
  <1>1. ASSUME NEW l \in Link,
               \/ AddPeer(l[1], l[2])
               \/ \E f \in Folder : SyncDirectoryWithPeer(l[1], f, l[2])
        PROVE  RestTypes'
    BY <1>1 DEF RestTypes, AddPeer, SyncDirectoryWithPeer, link, history, counts
  <1>2. ASSUME NEW d \in Device, NEW f \in Folder, AddSyncDirectory(d, f) PROVE RestTypes'
    BY <1>2 DEF RestTypes, AddSyncDirectory, link, history, counts
  <1>3. ASSUME NEW d \in Device, NEW f \in Folder, AcceptFolder(d, f) PROVE RestTypes'
    <2> DEFINE G == {[NewTask("get", l[2], f) EXCEPT !.path = TRUE] :
                        l \in {m \in LinksOf(d) : conn[m] # "down"}}
    <2>1. G \subseteq TasksOf(d)
      <3> SUFFICES ASSUME NEW l \in Link, l[1] = d
                   PROVE  [NewTask("get", l[2], f) EXCEPT !.path = TRUE] \in TasksOf(d)
        BY DEF LinksOf
      <3> QED  BY LinkEnds, LinkIsPair, NewTaskIsTask
    <2>2. tasks' = [tasks EXCEPT ![d] = tasks[d] \cup G]
      BY <1>3 DEF AcceptFolder
    <2> HIDE DEF G
    <2>3. tasks[d] \cup G \in SUBSET TasksOf(d)
      BY <2>1 DEF RestTypes
    <2>4. /\ tasks' \in [Device -> SUBSET Task]
          /\ \A e \in Device : tasks'[e] \subseteq TasksOf(e)
      BY <2>2, <2>3, TasksChange
    <2> QED  BY <1>3, <2>4 DEF RestTypes, AcceptFolder, link, history, counts
  <1>4. ASSUME NEW d \in Device, NEW f \in Folder,
               ForgetPath(d, f) \/ RemoveSyncDirectory(d, f)
        PROVE  RestTypes'
    <2>1. /\ upsets < MaxUpsets /\ upsets' = upsets + 1 /\ taken' = taken \cup {<<d, f>>}
          /\ UNCHANGED <<rows, disk, idx, watch, tasks, unknown, dials>>
      BY <1>4 DEF ForgetPath, RemoveSyncDirectory, link
    <2>2. upsets' \in 0..MaxUpsets
      BY <2>1, FoldersAssumption DEF RestTypes
    <2> QED  BY <2>1, <2>2 DEF RestTypes
  <1>5. ASSUME NEW d \in Device, NEW f \in Folder, MakeFile(d, f) PROVE RestTypes'
    <2>1. watch' \in [Link -> Watch]
      BY <1>5, NotifiedIsWatch DEF MakeFile
    <2>2. disk' \in [Device -> SUBSET Folder]
      BY <1>5 DEF RestTypes, MakeFile
    <2> QED  BY <1>5, <2>1, <2>2 DEF RestTypes, MakeFile, history, counts
  <1>6. ASSUME NEW d \in Device, NEW f \in Folder, GenerateIndex(d, f) PROVE RestTypes'
    <2>1. /\ rows' \in [Device -> SUBSET Folder] /\ tasks' \in [Device -> SUBSET Task]
          /\ \A e \in Device : tasks'[e] \subseteq TasksOf(e)
      BY <1>6, RecordsTypes DEF GenerateIndex
    <2> QED  BY <1>6, <2>1 DEF RestTypes, GenerateIndex, link, history, counts
  <1> QED  BY <1>1, <1>2, <1>3, <1>4, <1>5, <1>6 DEF UserStep

LEMMA GoneTypes ==
    ASSUME TypeInv, NEW S, Gone(S)
    PROVE  /\ idx' \in [Link -> SUBSET IndexMsg] /\ watch' \in [Link -> Watch]
           /\ tasks' \in [Device -> SUBSET Task]
           /\ \A d \in Device : tasks'[d] \subseteq TasksOf(d)
  <1>1. idx' \in [Link -> SUBSET IndexMsg]
    BY DEF TypeInv, RestTypes, Gone
  <1>2. watch' \in [Link -> Watch]
    <2>1. \A m \in Link : /\ watch[m] \in Watch
                          /\ [watch[m] EXCEPT !.at = "ending", !.event = FALSE] \in Watch
      BY DEF TypeInv, RestTypes, Watch
    <2> QED  BY <2>1, WatchOffIsWatch DEF Gone
  <1>3. \A d \in Device : tasks'[d] \subseteq TasksOf(d)
    <2> SUFFICES ASSUME NEW d \in Device, NEW t \in tasks[d]
                 PROVE  (IF <<d, t.peer>> \in S THEN [t EXCEPT !.live = FALSE] ELSE t)
                           \in TasksOf(d)
      BY DEF Gone
    <2> QED  BY TaskParts DEF TypeInv
  <1>4. tasks' = [d \in Device |-> tasks'[d]]
    BY DEF Gone
  <1>5. \A d \in Device : tasks'[d] \in SUBSET Task
    BY <1>3 DEF TasksOf
  <1>6. tasks' \in [Device -> SUBSET Task]
    BY <1>4, <1>5
  <1> QED  BY <1>1, <1>2, <1>3, <1>6

\* What is queued are Indexes.
LEMMA QueuedTypes ==
    ASSUME TypeInv, NEW l, NEW S \in SUBSET Folder
    PROVE  Queued(l, S) \in [Link -> SUBSET IndexMsg]
  <1>1. {[folder |-> f, files |-> f \in rows[l[1]]] : f \in S} \subseteq IndexMsg
    <2>1. \A f \in Folder, b \in BOOLEAN : [folder |-> f, files |-> b] \in IndexMsg
      BY DEF IndexMsg
    <2>2. \A f \in S : f \in Folder
      OBVIOUS
    <2>3. \A f \in S : [folder |-> f, files |-> f \in rows[l[1]]] \in IndexMsg
      <3> SUFFICES ASSUME NEW f \in S
                   PROVE  [folder |-> f, files |-> f \in rows[l[1]]] \in IndexMsg
        OBVIOUS
      <3>1. CASE f \in rows[l[1]]
        <4>1. (f \in rows[l[1]]) = TRUE
          BY <3>1, Zenon
        <4> QED  BY <2>1, <2>2, <4>1, Zenon
      <3>2. CASE f \notin rows[l[1]]
        <4>1. (f \in rows[l[1]]) = FALSE
          BY <3>2
        <4> QED  BY <2>1, <2>2, <4>1, Zenon
      <3> QED  BY <3>1, <3>2
    <2> QED  BY <2>3, Zenon
  <1> QED  BY <1>1 DEF TypeInv, RestTypes, Queued

LEMMA ConnTypes ==
    ASSUME TypeInv, NEW l \in Link, Dial(l) \/ Disconnect(l) \/ ConnStep(l)
    PROVE  RestTypes'
  <1> DEFINE S == {l, Reverse(l)}
  <1>1. CASE Dial(l)
    <2>1. /\ dials < MaxDials /\ dials' = dials + 1
          /\ UNCHANGED <<rows, disk, idx, watch, tasks, taken, unknown, upsets>>
      BY <1>1 DEF Dial, device, history
    <2>2. dials' \in 0..MaxDials
      BY <2>1, FoldersAssumption DEF TypeInv, RestTypes
    <2> QED  BY <2>1, <2>2 DEF TypeInv, RestTypes
  <1>2. CASE Disconnect(l)
    <2>1. /\ upsets < MaxUpsets /\ upsets' = upsets + 1 /\ Gone(S)
          /\ UNCHANGED <<rows, disk, taken, unknown, dials>>
      BY <1>2 DEF Disconnect, device, history
    <2>2. upsets' \in 0..MaxUpsets
      BY <2>1, FoldersAssumption DEF TypeInv, RestTypes
    <2> HIDE DEF S
    <2> QED  BY <2>1, <2>2, GoneTypes DEF TypeInv, RestTypes
  <1>3. CASE (Verify(l) \/ FirstIndex(l)) /\ Gone(S)
    <2>1. UNCHANGED <<rows, disk, taken, unknown, dials, upsets>>
      BY <1>3 DEF Verify, FirstIndex, device, history, counts
    <2> HIDE DEF S
    <2> QED  BY <1>3, <2>1, GoneTypes DEF TypeInv, RestTypes
  <1>4. CASE Verify(l) /\ ~Gone(S)
    BY <1>4 DEF TypeInv, RestTypes, Verify, device, history, counts
  <1>5. CASE FirstIndex(l) /\ ~Gone(S)
    <2>1. /\ idx' = Queued(l, Synced(l[1], l[2]))
          /\ UNCHANGED <<rows, disk, watch, tasks, taken, unknown, dials, upsets>>
      BY <1>5 DEF FirstIndex, device, history, counts
    <2>2. Synced(l[1], l[2]) \in SUBSET Folder
      BY DEF Synced, Known
    <2>3. idx' \in [Link -> SUBSET IndexMsg]
      BY <2>1, <2>2, QueuedTypes
    <2> QED  BY <2>1, <2>3 DEF TypeInv, RestTypes
  <1>6. CASE ClusterConfig(l)
    BY <1>6 DEF TypeInv, RestTypes, ClusterConfig, device, history, counts
  <1> HIDE DEF S
  <1> QED  BY <1>1, <1>2, <1>3, <1>4, <1>5, <1>6 DEF ConnStep

LEMMA ReaderTypes ==
    ASSUME TypeInv, NEW l \in Link, ReaderStep(l)
    PROVE  RestTypes'
  <1>1. CASE ReadConfig(l) \/ LookupFolder(l) \/ AddFolder(l) \/ ShareFolder(l)
    <2>1. UNCHANGED <<rows, disk, idx, watch, tasks, taken, unknown, dials, upsets>>
      BY <1>1 DEF ReadConfig, LookupFolder, AddFolder, ShareFolder, device, history, counts
    <2> QED  BY <2>1 DEF TypeInv, RestTypes
  <1>2. CASE ReadIndex(l)
    <2>1. PICK msg \in idx[Reverse(l)] :
             /\ idx' = [idx EXCEPT ![Reverse(l)] = @ \ {msg}]
             /\ tasks' = [tasks EXCEPT ![l[1]] = tasks[l[1]] \cup
                 {[NewTask("lookup", l[2], msg.folder) EXCEPT !.files = msg.files]}]
      BY <1>2 DEF ReadIndex
    <2>2. UNCHANGED <<rows, disk, watch, taken, unknown, dials, upsets>>
      BY <1>2 DEF ReadIndex, device, history, counts
    <2>3. msg.folder \in Folder /\ msg.files \in BOOLEAN
      BY LinkEnds DEF TypeInv, RestTypes, IndexMsg
    <2> DEFINE n == [NewTask("lookup", l[2], msg.folder) EXCEPT !.files = msg.files]
    <2>4. n \in TasksOf(l[1])
      BY <2>3, LinkEnds, LinkIsPair, NewTaskIsTask
    <2>5. tasks' = [tasks EXCEPT ![l[1]] = tasks[l[1]] \cup {n}]
      BY <2>1
    <2> HIDE DEF n
    <2>6. l[1] \in Device /\ tasks[l[1]] \cup {n} \in SUBSET TasksOf(l[1])
      BY <2>4, LinkEnds DEF TypeInv, RestTypes
    <2>7. /\ tasks' \in [Device -> SUBSET Task]
          /\ \A e \in Device : tasks'[e] \subseteq TasksOf(e)
      BY <2>5, <2>6, TasksChange DEF TypeInv
    <2>8. idx' \in [Link -> SUBSET IndexMsg]
      BY <2>1 DEF TypeInv, RestTypes
    <2> QED  BY <2>2, <2>7, <2>8 DEF TypeInv, RestTypes
  <1> QED  BY <1>1, <1>2 DEF ReaderStep

LEMMA WatchTypes ==
    ASSUME TypeInv, NEW l \in Link, WatchStep(l)
    PROVE  RestTypes'
  <1>1. CASE WatchStart(l)
    <2>1. {f \in Synced(l[1], l[2]) : HasPath(l[1], f)} \in SUBSET Folder
      BY DEF Synced, Known
    <2>2. watch' \in [Link -> Watch]
      BY <1>1, <2>1, WatchOffIsWatch DEF TypeInv, RestTypes, WatchStart
    <2> QED  BY <1>1, <2>2 DEF TypeInv, RestTypes, WatchStart, device, history, counts
  <1>2. CASE WatchEvent(l)
    <2> DEFINE T == {<<f, HasPath(l[1], f)>> : f \in Known(l[1])}
    <2>1. T \in SUBSET (Folder \X BOOLEAN)
      <3>1. \A f \in Folder, b \in BOOLEAN : <<f, b>> \in Folder \X BOOLEAN
        OBVIOUS
      <3>2. \A f \in Known(l[1]) : f \in Folder /\ HasPath(l[1], f) \in BOOLEAN
        BY Zenon DEF Known, HasPath
      <3>3. \A f \in Known(l[1]) : <<f, HasPath(l[1], f)>> \in Folder \X BOOLEAN
        BY <3>1, <3>2, Zenon
      <3> QED  BY <3>3, Zenon
    <2>2. watch' = [watch EXCEPT ![l] = [watch[l] EXCEPT !.event = FALSE, !.todo = T]]
      BY <1>2 DEF WatchEvent
    <2> HIDE DEF T
    <2>3. watch' \in [Link -> Watch]
      <3>1. watch \in [Link -> Watch]
        BY DEF TypeInv, RestTypes
      <3>2. [watch[l] EXCEPT !.event = FALSE, !.todo = T] \in Watch
        BY <2>1, <3>1 DEF Watch
      <3> QED  BY <2>2, <3>1, <3>2
    <2> QED  BY <1>2, <2>3 DEF TypeInv, RestTypes, WatchEvent, device, history, counts
  <1>3. CASE ScanFolder(l)
    <2>1. PICK e \in watch[l].todo :
             IF e[2]
             THEN /\ Records(l[1], e[1])
                  /\ watch' = [watch EXCEPT ![l] =
                        IF watch[l].at = "ending" /\ watch[l].todo \ {e} = {} THEN WatchOff
                        ELSE [watch[l] EXCEPT !.todo = watch[l].todo \ {e}]]
             ELSE /\ watch' = [watch EXCEPT ![l] =
                        IF watch[l].at = "ending" THEN WatchOff
                        ELSE [WatchOff EXCEPT !.at = "dead"]]
                  /\ UNCHANGED <<rows, tasks>>
      BY <1>3 DEF ScanFolder
    <2>2. UNCHANGED <<disk, idx, taken, unknown, dials, upsets>>
      BY <1>3 DEF ScanFolder, history, counts
    <2>3. e[1] \in Folder /\ l[1] \in Device
      BY LinkEnds DEF TypeInv, RestTypes, Watch
    <2>4. /\ rows' \in [Device -> SUBSET Folder] /\ tasks' \in [Device -> SUBSET Task]
          /\ \A d \in Device : tasks'[d] \subseteq TasksOf(d)
      BY <2>1, <2>3, RecordsTypes DEF TypeInv, RestTypes
    <2>5. [watch[l] EXCEPT !.todo = watch[l].todo \ {e}] \in Watch
      BY DEF TypeInv, RestTypes, Watch
    <2>6. watch' \in [Link -> Watch]
      BY <2>1, <2>5, WatchOffIsWatch DEF TypeInv, RestTypes
    <2> QED  BY <2>2, <2>4, <2>6 DEF TypeInv, RestTypes
  <1> QED  BY <1>1, <1>2, <1>3 DEF WatchStep

\* A task of d makes way for others.
LEMMA BecomesTypes ==
    ASSUME TypeInv, NEW d \in Device, NEW t \in tasks[d], NEW S \in SUBSET TasksOf(d),
           Becomes(d, t, S)
    PROVE  /\ tasks' \in [Device -> SUBSET Task]
           /\ \A e \in Device : tasks'[e] \subseteq TasksOf(e)
  <1>1. (tasks[d] \ {t}) \cup S \in SUBSET TasksOf(d)
    BY TaskParts DEF TypeInv
  <1>2. tasks' = [tasks EXCEPT ![d] = (tasks[d] \ {t}) \cup S]
    BY DEF Becomes
  <1> QED  BY <1>1, <1>2, TasksChange DEF TypeInv

LEMMA TaskTypes ==
    ASSUME TypeInv, NEW d \in Device, TaskStep(d)
    PROVE  RestTypes'
  <1> PICK t \in tasks[d] :
         \/ LookupIndex(d, t) \/ MergeIndex(d, t) \/ GetDirectory(d, t)
         \/ HandleRequest(d, t) \/ GotFile(d, t) \/ DirectoryUpdated(d, t)
    BY DEF TaskStep
  <1> DEFINE Typed == /\ tasks' \in [Device -> SUBSET Task]
                      /\ \A e \in Device : tasks'[e] \subseteq TasksOf(e)
  <1>0. {} \in SUBSET TasksOf(d) /\ Updates(d, t.folder) \in SUBSET TasksOf(d)
    BY TaskParts, UpdatesAreTasks DEF TypeInv
  <1>1. CASE LookupIndex(d, t)
    <2>1. [t EXCEPT !.at = "merge", !.path = HasPath(d, t.folder)] \in TasksOf(d)
      BY TaskParts DEF TypeInv, HasPath
    <2>2. Typed
      <3>1. CASE t.folder \in Known(d)
        BY <1>1, <2>1, <3>1, BecomesTypes DEF LookupIndex
      <3>2. CASE t.folder \notin Known(d)
        BY <1>0, <1>1, <3>2, BecomesTypes DEF LookupIndex
      <3> QED  BY <3>1, <3>2
    <2>3. unknown' \subseteq Link \X Folder
      <3>1. <<<<d, t.peer>>, t.folder>> \in Link \X Folder
        BY TaskParts DEF TypeInv
      <3>2. unknown' = unknown \/ unknown' = unknown \cup {<<<<d, t.peer>>, t.folder>>}
        BY <1>1 DEF LookupIndex
      <3> QED  BY <3>1, <3>2 DEF TypeInv, RestTypes
    <2> QED  BY <1>1, <2>2, <2>3
             DEF TypeInv, RestTypes, LookupIndex, device, link, history, counts
  <1>2. CASE MergeIndex(d, t)
    <2>1. [t EXCEPT !.at = "get", !.files = FALSE] \in TasksOf(d) /\ t.folder \in Folder
      BY TaskParts DEF TypeInv
    <2>2. Typed
      <3>1. CASE t.files /\ t.folder \notin rows[d]
        BY <1>2, <2>1, <3>1, BecomesTypes DEF MergeIndex
      <3>2. CASE ~(t.files /\ t.folder \notin rows[d])
        BY <1>0, <1>2, <3>2, BecomesTypes DEF MergeIndex
      <3> QED  BY <3>1, <3>2
    <2>3. rows' \in [Device -> SUBSET Folder]
      BY <1>2, <2>1 DEF TypeInv, RestTypes, MergeIndex
    <2> QED  BY <1>2, <2>2, <2>3 DEF TypeInv, RestTypes, MergeIndex, link, history, counts
  <1>3. CASE GetDirectory(d, t)
    <2>1. {[t EXCEPT !.at = "asked"]} \in SUBSET TasksOf(d)
      BY TaskParts DEF TypeInv
    <2>2. \E S \in SUBSET TasksOf(d) : Becomes(d, t, S)
      BY <1>0, <1>3, <2>1, Zenon DEF GetDirectory
    <2>3. Typed
      BY <2>2, BecomesTypes
    <2> QED  BY <1>3, <2>3 DEF TypeInv, RestTypes, GetDirectory, device, link, history, counts
  <1>4. CASE HandleRequest(d, t)
    <2>1. {[t EXCEPT !.at = "served"]} \in SUBSET TasksOf(d)
      BY TaskParts DEF TypeInv
    <2>2. \E S \in SUBSET TasksOf(d) : Becomes(d, t, S)
      BY <1>0, <1>4, <2>1, Zenon DEF HandleRequest
    <2>3. Typed
      BY <2>2, BecomesTypes
    <2> QED  BY <1>4, <2>3 DEF TypeInv, RestTypes, HandleRequest, device, link, history, counts
  <1>5. CASE GotFile(d, t)
    <2>1. Typed
      BY <1>0, <1>5, BecomesTypes DEF GotFile
    <2>2. watch' \in [Link -> Watch]
      BY <1>5, NotifiedIsWatch DEF TypeInv, GotFile
    <2>3. disk' \in [Device -> SUBSET Folder]
      BY <1>5, TaskParts DEF TypeInv, RestTypes, GotFile
    <2> QED  BY <1>5, <2>1, <2>2, <2>3 DEF TypeInv, RestTypes, GotFile, history, counts
  <1>6. CASE DirectoryUpdated(d, t)
    <2>1. Typed
      BY <1>0, <1>6, BecomesTypes DEF DirectoryUpdated
    <2>2. \/ UNCHANGED idx
          \/ \E S \in SUBSET Synced(d, t.peer) : idx' = Queued(<<d, t.peer>>, S)
      BY <1>6 DEF DirectoryUpdated
    <2>3. SUBSET Synced(d, t.peer) \subseteq SUBSET Folder
      BY DEF Synced, Known
    <2>4. idx' \in [Link -> SUBSET IndexMsg]
      BY <2>2, <2>3, QueuedTypes DEF TypeInv, RestTypes
    <2> QED  BY <1>6, <2>1, <2>4
             DEF TypeInv, RestTypes, DirectoryUpdated, device, history, counts
  <1> QED  BY <1>1, <1>2, <1>3, <1>4, <1>5, <1>6

LEMMA InitTypes == Init => TypeInv
  <1> SUFFICES ASSUME Init PROVE RestTypes
    BY InitOffer DEF TypeInv
  <1>1. 0 \in 0..MaxDials /\ 0 \in 0..MaxUpsets
    BY FoldersAssumption
  <1>2. /\ rows \in [Device -> SUBSET Folder] /\ disk \in [Device -> SUBSET Folder]
        /\ idx \in [Link -> SUBSET IndexMsg] /\ watch \in [Link -> Watch]
        /\ tasks \in [Device -> SUBSET Task]
    BY WatchOffIsWatch DEF Init
  <1>3. \A d \in Device : tasks[d] = {}
    BY DEF Init
  <1> QED  BY <1>1, <1>2, <1>3 DEF Init, RestTypes

LEMMA NextTypes ==
    ASSUME TypeInv, [Next]_vars
    PROVE  TypeInv'
  <1>1. OfferInv'
    BY NextOffer DEF TypeInv
  <1>2. CASE UNCHANGED vars
    <2>1. RestTypes'
      BY <1>2 DEF TypeInv, RestTypes, vars, device, link, history, counts
    <2> QED  BY <1>1, <2>1 DEF TypeInv
  <1>3. CASE Next
    <2>1. RestTypes'
      BY <1>3, UserTypes, ConnTypes, ReaderTypes, WatchTypes, TaskTypes DEF Next, SystemStep
    <2> QED  BY <1>1, <2>1 DEF TypeInv
  <1> QED  BY <1>2, <1>3

(***************************************************************************)
(* Folders, shares, connections, readers, watchers and tasks keep the      *)
(* types of bep_state.rs and of the handlers; a task belongs to an end of  *)
(* a connection, also when that is long gone.                              *)
(***************************************************************************)
THEOREM FoldersTypeCorrect == Spec => []TypeOK
  <1>1. Init => TypeInv
    BY InitTypes
  <1>2. TypeInv /\ [Next]_vars => TypeInv'
    BY NextTypes
  <1>3. TypeInv => TypeOK
    BY DEF TypeInv, OfferInv, OfferTypes, RestTypes, TypeOK
  <1> QED  BY <1>1, <1>2, <1>3, PTL DEF Spec
-----------------------------------------------------------------------------
(***************************************************************************)
(* Where the ends of a connection are when a reader is past the first      *)
(* messages of it.                                                         *)
(***************************************************************************)

\* A connection is gone at both ends or at neither.  Who reads on, or has died of
\* a ClusterConfig, has an end to read from that is up; only the handler of a
\* ClusterConfig may outlive its connection.
Upright ==
    \A l \in Link :
        /\ conn[l] = "down" <=> conn[Reverse(l)] = "down"
        /\ reader[l].at \in {"loop", "dead"} => conn[Reverse(l)] = "up"
        /\ Handling(l) => conn[Reverse(l)] \in {"up", "down"}

LEMMA SetReaderIs ==
    ASSUME TypeInv, NEW l \in Link, NEW at, NEW todo, NEW cur, SetReader(l, at, todo, cur)
    PROVE  /\ reader'[l].at = at /\ reader'[l].todo = todo /\ reader'[l].cur = cur
           /\ \A m \in Link \ {l} : reader'[m] = reader[m]
  BY DEF SetReader, TypeInv, OfferInv, OfferTypes

LEMMA ConfigEndsIs ==
    ASSUME TypeInv, NEW l \in Link, NEW at, ConfigEnds(l, at)
    PROVE  /\ reader'[l].at = IF conn[l] = "down" THEN "off" ELSE at
           /\ reader'[l].todo = {} /\ reader'[l].cur = {}
           /\ \A m \in Link \ {l} : reader'[m] = reader[m]
  BY SetReaderIs DEF ConfigEnds

LEMMA BothEnds ==
    ASSUME NEW l \in Link
    PROVE  \A m \in Link : m \in {l, Reverse(l)} <=> Reverse(m) \in {l, Reverse(l)}
  <1>1. ASSUME NEW m \in Link PROVE m = <<m[1], m[2]>>
    BY LinkIsPair
  <1> QED  BY <1>1 DEF Reverse

\* A connection or a reader changes at some ends.
LEMMA UprightFrom ==
    ASSUME Upright,
           \A l \in Link : conn'[l] = "down" <=> conn'[Reverse(l)] = "down",
           \A l \in Link :
              \/ reader'[l].at \notin {"lookup", "add", "share", "loop", "dead"}
              \/ /\ reader'[l].at \in {"loop", "dead"} => conn'[Reverse(l)] = "up"
                 /\ conn'[Reverse(l)] \in {"up", "down"}
    PROVE  Upright'
  BY DEF Upright, Handling, Reverse

LEMMA UprightStays ==
    ASSUME Upright, UNCHANGED <<conn, reader>>
    PROVE  Upright'
  BY DEF Upright, Handling, Reverse

LEMMA GoneUpright ==
    ASSUME TypeInv, Upright, NEW l \in Link, Gone({l, Reverse(l)})
    PROVE  Upright'
  <1> DEFINE S == {l, Reverse(l)}
  <1>1. \A m \in Link : m \in S <=> Reverse(m) \in S
    BY BothEnds
  <1>2. \A m \in Link :
           /\ m \in S => conn'[m] = "down" /\ (reader'[m] = ReaderOff \/ Handling(m)')
           /\ m \notin S => conn'[m] = conn[m] /\ reader'[m] = reader[m]
    BY DEF Gone, Handling
  <1> HIDE DEF S
  <1>3. \A m \in Link : conn'[m] = "down" <=> conn'[Reverse(m)] = "down"
    BY <1>1, <1>2, LinkEnds DEF Upright
  <1>4. ASSUME NEW m \in Link
        PROVE  \/ reader'[m].at \notin {"lookup", "add", "share", "loop", "dead"}
               \/ /\ reader'[m].at \in {"loop", "dead"} => conn'[Reverse(m)] = "up"
                  /\ conn'[Reverse(m)] \in {"up", "down"}
    <2>1. CASE m \in S
      BY <1>1, <1>2, <2>1, LinkEnds, ReaderOffIsReader DEF Handling
    <2>2. CASE m \notin S
      BY <1>1, <1>2, <2>2, LinkEnds DEF Upright, Handling
    <2> QED  BY <2>1, <2>2
  <1> QED  BY <1>3, <1>4, UprightFrom

LEMMA DialUpright ==
    ASSUME TypeInv, Upright, NEW l \in Link, Dial(l)
    PROVE  Upright'
  <1> DEFINE S == {l, Reverse(l)}
  <1>1. \A m \in Link : m \in S <=> Reverse(m) \in S
    BY BothEnds
  <1>2. /\ UNCHANGED reader
        /\ \A m \in S : conn[m] = "down" /\ ~Handling(m)
        /\ \A m \in Link : conn'[m] = IF m \in S THEN "verify" ELSE conn[m]
    BY DEF Dial
  <1> HIDE DEF S
  <1>3. \A m \in Link : conn'[m] = "down" <=> conn'[Reverse(m)] = "down"
    BY <1>1, <1>2, LinkEnds DEF Upright
  <1>4. ASSUME NEW m \in Link
        PROVE  \/ reader[m].at \notin {"lookup", "add", "share", "loop", "dead"}
               \/ /\ reader[m].at \in {"loop", "dead"} => conn'[Reverse(m)] = "up"
                  /\ conn'[Reverse(m)] \in {"up", "down"}
    <2>1. CASE m \in S
      BY <1>1, <1>2, <2>1, LinkEnds DEF Upright, Handling
    <2>2. CASE m \notin S
      BY <1>1, <1>2, <2>2, LinkEnds DEF Upright, Handling
    <2> QED  BY <2>1, <2>2
  <1> QED  BY <1>2, <1>3, <1>4, UprightFrom

\* One end goes on: nobody has read from it so far.
LEMMA ConnUpright ==
    ASSUME TypeInv, Upright, NEW l \in Link,
           NEW c \in {"index", "config", "up"},
           conn[l] \in {"verify", "index", "config"}, conn' = [conn EXCEPT ![l] = c],
           \A m \in Link : reader'[m] = reader[m] \/ reader'[m].at = "config"
    PROVE  Upright'
  <1>1. \A m \in Link : conn'[m] = IF m = l THEN c ELSE conn[m]
    BY DEF TypeInv, OfferInv, OfferTypes
  <1>2. \A m \in Link : conn'[m] = "down" <=> conn'[Reverse(m)] = "down"
    BY <1>1, LinkEnds DEF Upright
  <1>3. ASSUME NEW m \in Link
        PROVE  \/ reader'[m].at \notin {"lookup", "add", "share", "loop", "dead"}
               \/ /\ reader'[m].at \in {"loop", "dead"} => conn'[Reverse(m)] = "up"
                  /\ conn'[Reverse(m)] \in {"up", "down"}
    BY <1>1, LinkEnds DEF Upright, Handling
  <1> QED  BY <1>2, <1>3, UprightFrom

\* The reader of one end goes on.
LEMMA ReaderUpright ==
    ASSUME TypeInv, Upright, NEW l \in Link,
           \/ ReadConfig(l) \/ LookupFolder(l) \/ AddFolder(l) \/ ShareFolder(l)
    PROVE  Upright'
  <1>1. UNCHANGED conn
    BY DEF ReadConfig, LookupFolder, AddFolder, ShareFolder
  <1>2. \/ reader[l].at = "config" /\ conn[Reverse(l)] = "up"
        \/ Handling(l)
    BY DEF ReadConfig, LookupFolder, AddFolder, ShareFolder, Handling
  <1>3. conn[Reverse(l)] \in {"up", "down"}
    BY <1>2 DEF Upright
  <1>4. \/ \E at \in {"lookup", "add", "share"} : \E todo, cur : SetReader(l, at, todo, cur)
        \/ \E at \in {"loop", "dead"} : ConfigEnds(l, at)
    BY DEF ReadConfig, LookupFolder, AddFolder, ShareFolder
  <1>5. ASSUME NEW at \in {"lookup", "add", "share"}, NEW todo, NEW cur,
               SetReader(l, at, todo, cur)
        PROVE  /\ reader'[l].at \in {"lookup", "add", "share"}
               /\ \A m \in Link \ {l} : reader'[m] = reader[m]
    BY <1>5, SetReaderIs
  <1>6. ASSUME NEW at \in {"loop", "dead"}, ConfigEnds(l, at)
        PROVE  /\ reader'[l].at \in {"off", at}
               /\ reader'[l].at # "off" => conn[Reverse(l)] = "up"
               /\ \A m \in Link \ {l} : reader'[m] = reader[m]
    BY <1>3, <1>6, ConfigEndsIs DEF Upright
  <1>7. /\ \A m \in Link \ {l} : reader'[m] = reader[m]
        /\ reader'[l].at \in {"loop", "dead"} => conn[Reverse(l)] = "up"
    BY <1>4, <1>5, <1>6
  <1>8. ASSUME NEW m \in Link
        PROVE  \/ reader'[m].at \notin {"lookup", "add", "share", "loop", "dead"}
               \/ /\ reader'[m].at \in {"loop", "dead"} => conn'[Reverse(m)] = "up"
                  /\ conn'[Reverse(m)] \in {"up", "down"}
    BY <1>1, <1>3, <1>7 DEF Upright, Handling
  <1> QED  BY <1>1, <1>8, UprightFrom DEF Upright

LEMMA InitUpright == Init => Upright
  BY LinkEnds, ReaderOffIsReader DEF Init, Upright, Handling

\* Users do nothing to connections.
LEMMA UserLeavesLinks ==
    ASSUME UserStep
    PROVE  UNCHANGED <<conn, told, reader>>
  <1>1. ASSUME NEW l \in Link,
               AddPeer(l[1], l[2]) \/ \E f \in Folder : SyncDirectoryWithPeer(l[1], f, l[2])
        PROVE  UNCHANGED <<conn, told, reader>>
    BY <1>1 DEF AddPeer, SyncDirectoryWithPeer, link
  <1>2. ASSUME NEW d \in Device, NEW f \in Folder,
               AddSyncDirectory(d, f) \/ AcceptFolder(d, f) \/ ForgetPath(d, f)
        PROVE  UNCHANGED <<conn, told, reader>>
    BY <1>2 DEF AddSyncDirectory, AcceptFolder, ForgetPath, link
  <1>3. ASSUME NEW d \in Device, NEW f \in Folder,
               RemoveSyncDirectory(d, f) \/ MakeFile(d, f) \/ GenerateIndex(d, f)
        PROVE  UNCHANGED <<conn, told, reader>>
    BY <1>3 DEF RemoveSyncDirectory, MakeFile, GenerateIndex, link
  <1> QED  BY <1>1, <1>2, <1>3 DEF UserStep

LEMMA NextUpright ==
    ASSUME TypeInv, Upright, [Next]_vars
    PROVE  Upright'
  <1>1. CASE UNCHANGED <<conn, reader>>
    BY <1>1, UprightStays
  <1>2. CASE UserStep
    BY <1>1, <1>2, UserLeavesLinks
  <1>3. ASSUME NEW l \in Link, Dial(l) \/ Disconnect(l) PROVE Upright'
    BY <1>3, DialUpright, GoneUpright DEF Disconnect
  <1>4. ASSUME NEW l \in Link, ConnStep(l) PROVE Upright'
    <2>1. CASE Gone({l, Reverse(l)})
      BY <2>1, GoneUpright
    <2>2. CASE ~Gone({l, Reverse(l)}) /\ (Verify(l) \/ ClusterConfig(l))
      BY <2>2, ConnUpright DEF Verify, ClusterConfig
    <2>3. CASE ~Gone({l, Reverse(l)}) /\ FirstIndex(l)
      <3>1. /\ conn[l] = "index" /\ conn' = [conn EXCEPT ![l] = "config"]
            /\ reader' = [reader EXCEPT ![l].at = "config"]
        BY <2>3 DEF FirstIndex
      <3>2. \A m \in Link : reader'[m] = reader[m] \/ reader'[m].at = "config"
        BY <3>1 DEF TypeInv, OfferInv, OfferTypes, Reader
      <3> QED  BY <3>1, <3>2, ConnUpright
    <2> QED  BY <1>4, <2>1, <2>2, <2>3 DEF ConnStep
  <1>5. ASSUME NEW l \in Link, ReaderStep(l) PROVE Upright'
    BY <1>1, <1>5, ReaderUpright DEF ReaderStep, ReadIndex
  <1>6. ASSUME NEW l \in Link, WatchStep(l) PROVE Upright'
    BY <1>1, <1>6 DEF WatchStep, WatchStart, WatchEvent, ScanFolder
  <1>7. ASSUME NEW d \in Device, TaskStep(d) PROVE Upright'
    BY <1>1, <1>7 DEF TaskStep, LookupIndex, MergeIndex, GetDirectory, HandleRequest,
                      GotFile, DirectoryUpdated, link
  <1>8. CASE UNCHANGED vars
    BY <1>1, <1>8 DEF vars, link
  <1> QED  BY <1>2, <1>3, <1>4, <1>5, <1>6, <1>7, <1>8 DEF Next, SystemStep
-----------------------------------------------------------------------------
(***************************************************************************)
(* An Index finds its folder.  The argument follows a folder from p's      *)
(* shares to p's ClusterConfig, through d's reader, to d's folders, which  *)
(* is where it is before an Index of the connection is looked at.          *)
(***************************************************************************)

\* d knows p's folder f, or one of the two users has taken it away.
Fine(p, d, f) == f \in Known(d) \/ <<p, f>> \in taken \/ <<d, f>> \in taken

\* A folder is shared by those who know it.
SharedIsKnown ==
    \A d \in Device, p \in Device, f \in Folder :
        <<f, p>> \in shares[d] => f \in Known(d) \/ <<d, f>> \in taken

\* What is shared over a connection is in its ClusterConfig, but for what is there
\* already because it came from the other end.
TellsAll ==
    \A l \in Link, f \in Folder :
        (conn[l] = "up" /\ <<f, l[2]>> \in shares[l[1]]) =>
            f \in told[l] \/ Fine(l[1], l[2], f)

\* Indexes are queued for what is shared.
IndexedIsShared ==
    \A l \in Link : \A m \in idx[l] : <<m.folder, l[2]>> \in shares[l[1]]

\* The part of the ClusterConfig that the reader has been through is known.
Covers(l) ==
    /\ reader[l].at \in {"lookup", "add", "share", "loop"} /\ conn[Reverse(l)] = "up" =>
          \A f \in told[Reverse(l)] :
              f \in reader[l].todo \cup reader[l].cur \/ Fine(l[2], l[1], f)
    /\ reader[l].at \in {"lookup", "loop"} => reader[l].cur = {}
    /\ reader[l].at = "loop" => reader[l].todo = {}
    /\ reader[l].at \in {"add", "share"} => \E f \in Folder : reader[l].cur = {f}

ReaderCovers == \A l \in Link : Covers(l)

\* A task that is about to look a folder up will find it.
TasksFind ==
    \A d \in Device : \A t \in tasks[d] :
        t.at = "lookup" => Fine(t.peer, d, t.folder)

Finds == /\ SharedIsKnown /\ TellsAll /\ IndexedIsShared /\ ReaderCovers
         /\ TasksFind /\ IndexedIsKnown

\* A folder goes only with a note of who has taken it away.
Lasting ==
    /\ taken \subseteq taken'
    /\ \A d \in Device, f \in Folder :
          f \in Known(d) => f \in Known(d)' \/ <<d, f>> \in taken'

\* No task has been started that will look a folder up.
NoNewLookups ==
    \A d \in Device : \A t \in tasks'[d] :
        t.at = "lookup" =>
            \E u \in tasks[d] : u.at = "lookup" /\ u.peer = t.peer /\ u.folder = t.folder

LEMMA StepsAreLasting ==
    ASSUME TypeInv, [Next]_vars
    PROVE  Lasting
  <1>1. CASE UNCHANGED <<folder, taken>>
    BY <1>1 DEF Lasting, Known
  <1>2. ASSUME NEW e \in Device, NEW g \in Folder, NEW s \in {"pending", "local"},
               folder' = [folder EXCEPT ![e][g] = s], taken \subseteq taken'
        PROVE  Lasting
    BY <1>2 DEF Lasting, Known, TypeInv, OfferInv, OfferTypes
  <1>3. ASSUME NEW e \in Device, NEW g \in Folder,
               folder' = [folder EXCEPT ![e][g] = "none"], taken' = taken \cup {<<e, g>>}
        PROVE  Lasting
    BY <1>3 DEF Lasting, Known, TypeInv, OfferInv, OfferTypes
  <1>4. CASE UserStep
    <2>1. ASSUME NEW e \in Device, NEW g \in Folder,
                 AddSyncDirectory(e, g) \/ AcceptFolder(e, g) \/ ForgetPath(e, g)
          PROVE  Lasting
      BY <1>2, <2>1 DEF AddSyncDirectory, AcceptFolder, ForgetPath, history
    <2>2. ASSUME NEW e \in Device, NEW g \in Folder, RemoveSyncDirectory(e, g)
          PROVE  Lasting
      BY <1>3, <2>2 DEF RemoveSyncDirectory
    <2>3. ASSUME NEW e \in Device, NEW g \in Folder, MakeFile(e, g) \/ GenerateIndex(e, g)
          PROVE  Lasting
      BY <1>1, <2>3 DEF MakeFile, GenerateIndex, history
    <2>4. ASSUME NEW l \in Link,
                 \/ AddPeer(l[1], l[2])
                 \/ \E f \in Folder : SyncDirectoryWithPeer(l[1], f, l[2])
          PROVE  Lasting
      BY <1>1, <2>4 DEF AddPeer, SyncDirectoryWithPeer, history
    <2> QED  BY <1>4, <2>1, <2>2, <2>3, <2>4 DEF UserStep
  <1>5. ASSUME NEW l \in Link, Dial(l) \/ Disconnect(l) \/ ConnStep(l) \/ WatchStep(l)
        PROVE  Lasting
    BY <1>1, <1>5 DEF Dial, Disconnect, ConnStep, Verify, FirstIndex, ClusterConfig,
                      WatchStep, WatchStart, WatchEvent, ScanFolder, device, history
  <1>6. ASSUME NEW l \in Link, ReaderStep(l)
        PROVE  Lasting
    <2>1. CASE AddFolder(l)
      <3>1. \A f \in reader[l].cur : f \in Folder
        BY ReaderParts DEF TypeInv
      <3>2. \/ UNCHANGED <<folder, taken>>
            \/ \E f \in Folder : /\ folder' = [folder EXCEPT ![l[1]][f] = "pending"]
                                 /\ taken \subseteq taken'
        BY <2>1, <3>1 DEF AddFolder, history
      <3> QED  BY <1>1, <1>2, <3>2, LinkEnds
    <2>2. CASE ReadConfig(l) \/ LookupFolder(l) \/ ShareFolder(l) \/ ReadIndex(l)
      BY <1>1, <2>2 DEF ReadConfig, LookupFolder, ShareFolder, ReadIndex, device, history
    <2> QED  BY <1>6, <2>1, <2>2 DEF ReaderStep
  <1>7. ASSUME NEW d \in Device, TaskStep(d)
        PROVE  Lasting
    BY <1>1, <1>7 DEF TaskStep, LookupIndex, MergeIndex, GetDirectory, HandleRequest,
                      GotFile, DirectoryUpdated, device, history
  <1>8. CASE UNCHANGED vars
    BY <1>1, <1>8 DEF vars, device, history
  <1> QED  BY <1>4, <1>5, <1>6, <1>7, <1>8 DEF Next, SystemStep

LEMMA FineLasts ==
    ASSUME Lasting, NEW p, NEW d \in Device, NEW f \in Folder, Fine(p, d, f)
    PROVE  Fine(p, d, f)'
  BY DEF Lasting, Fine

(***************************************************************************)
(* What leaves each part of it as it is.                                   *)
(***************************************************************************)
LEMMA SharedStays ==
    ASSUME Finds, Lasting, UNCHANGED shares
    PROVE  SharedIsKnown'
  BY DEF Finds, SharedIsKnown, Lasting

LEMMA TellsStays ==
    ASSUME TypeInv, Finds, Lasting, UNCHANGED shares,
           \A l \in Link : conn'[l] = "up" => conn[l] = "up" /\ told'[l] = told[l]
    PROVE  TellsAll'
  <1> SUFFICES ASSUME NEW l \in Link, NEW f \in Folder,
                      conn'[l] = "up", <<f, l[2]>> \in shares[l[1]]
               PROVE  f \in told'[l] \/ Fine(l[1], l[2], f)'
    BY DEF TellsAll
  <1>1. f \in told[l] \/ Fine(l[1], l[2], f)
    BY DEF Finds, TellsAll
  <1> QED  BY <1>1, FineLasts, LinkEnds

LEMMA IndexedStays ==
    ASSUME Finds, \A d \in Device : shares[d] \subseteq shares'[d],
           \A l \in Link : idx'[l] \subseteq idx[l]
    PROVE  IndexedIsShared'
  BY LinkEnds DEF Finds, IndexedIsShared

LEMMA CoversStays ==
    ASSUME TypeInv, Finds, Lasting, NEW l \in Link,
           \/ reader'[l].at \notin {"lookup", "add", "share", "loop"}
           \/ /\ reader'[l] = reader[l]
              /\ conn'[Reverse(l)] = "up" =>
                    conn[Reverse(l)] = "up" /\ told'[Reverse(l)] = told[Reverse(l)]
    PROVE  Covers(l)'
  <1>1. CASE reader'[l].at \notin {"lookup", "add", "share", "loop"}
    BY <1>1 DEF Covers
  <1>2. CASE reader'[l] = reader[l] /\ reader[l].at \in {"lookup", "add", "share", "loop"}
    <2>1. Covers(l)
      BY DEF Finds, ReaderCovers
    <2>2. \A f \in told[Reverse(l)] : f \in Folder
      BY LinkEnds DEF TypeInv, OfferInv, OfferTypes
    <2>3. ASSUME conn'[Reverse(l)] = "up"
          PROVE  \A f \in told'[Reverse(l)] :
                    f \in reader[l].todo \cup reader[l].cur \/ Fine(l[2], l[1], f)'
      BY <1>2, <2>1, <2>2, <2>3, FineLasts, LinkEnds DEF Covers
    <2> QED  BY <1>2, <2>1, <2>3 DEF Covers, Reverse
  <1> QED  BY <1>1, <1>2

LEMMA TasksStay ==
    ASSUME TypeInv, Finds, Lasting, NoNewLookups
    PROVE  TasksFind'
  <1> SUFFICES ASSUME NEW d \in Device, NEW t \in tasks'[d], t.at = "lookup"
               PROVE  Fine(t.peer, d, t.folder)'
    BY DEF TasksFind
  <1>1. PICK u \in tasks[d] : u.at = "lookup" /\ u.peer = t.peer /\ u.folder = t.folder
    BY DEF NoNewLookups
  <1>2. Fine(t.peer, d, t.folder) /\ t.folder \in Folder
    BY <1>1, TaskParts DEF TypeInv, Finds, TasksFind
  <1> QED  BY <1>2, FineLasts

LEMMA UnknownStays ==
    ASSUME Finds, Lasting, UNCHANGED unknown
    PROVE  IndexedIsKnown'
  BY DEF Finds, IndexedIsKnown, Lasting

LEMMA QuietStep ==
    ASSUME TypeInv, Finds, Lasting, NoNewLookups,
           UNCHANGED <<shares, conn, told, idx, reader, unknown>>
    PROVE  Finds'
  <1>1. SharedIsKnown' /\ TasksFind' /\ IndexedIsKnown'
    BY SharedStays, TasksStay, UnknownStays
  <1>2. TellsAll' /\ IndexedIsShared'
    BY TellsStays, IndexedStays
  <1>3. ReaderCovers'
    BY CoversStays DEF ReaderCovers
  <1> QED  BY <1>1, <1>2, <1>3 DEF Finds

(***************************************************************************)
(* Who starts no task that looks a folder up.                              *)
(***************************************************************************)
LEMMA SameTasks ==
    ASSUME UNCHANGED tasks
    PROVE  NoNewLookups
  BY DEF NoNewLookups

LEMMA MoreTasks ==
    ASSUME TypeInv, NEW d \in Device, NEW S, NEW T \in SUBSET tasks[d],
           tasks' = [tasks EXCEPT ![d] = T \cup S], \A t \in S : t.at # "lookup"
    PROVE  NoNewLookups
  BY DEF NoNewLookups, TypeInv, RestTypes

LEMMA UpdatesLookNothingUp ==
    ASSUME NEW d, NEW f
    PROVE  \A t \in Updates(d, f) : t.at # "lookup"
  BY DEF Updates, NewTask

LEMMA RecordsNoLookups ==
    ASSUME TypeInv, NEW d \in Device, NEW f, Records(d, f)
    PROVE  NoNewLookups
  <1>1. CASE UNCHANGED tasks
    BY <1>1, SameTasks
  <1>2. CASE tasks' = [tasks EXCEPT ![d] = tasks[d] \cup Updates(d, f)]
    BY <1>2, MoreTasks, UpdatesLookNothingUp
  <1> QED  BY <1>1, <1>2 DEF Records

LEMMA GoneNoLookups ==
    ASSUME TypeInv, NEW S, Gone(S)
    PROVE  NoNewLookups
  <1> SUFFICES ASSUME NEW d \in Device, NEW t \in tasks'[d], t.at = "lookup"
               PROVE  \E u \in tasks[d] :
                         u.at = "lookup" /\ u.peer = t.peer /\ u.folder = t.folder
    BY DEF NoNewLookups
  <1>1. PICK u \in tasks[d] : t = IF <<d, u.peer>> \in S THEN [u EXCEPT !.live = FALSE] ELSE u
    BY DEF Gone
  <1>2. u \in Task
    BY TaskParts DEF TypeInv
  <1>3. u.at = t.at /\ u.peer = t.peer /\ u.folder = t.folder
    BY <1>1, <1>2 DEF Task
  <1> QED  BY <1>3

LEMMA TaskNoLookups ==
    ASSUME TypeInv, NEW d \in Device, NEW t \in tasks[d],
           \/ LookupIndex(d, t) \/ MergeIndex(d, t) \/ GetDirectory(d, t)
           \/ HandleRequest(d, t) \/ GotFile(d, t) \/ DirectoryUpdated(d, t)
    PROVE  NoNewLookups
  <1>1. ASSUME NEW S, Becomes(d, t, S), \A u \in S : u.at # "lookup" PROVE NoNewLookups
    <2>1. tasks' = [tasks EXCEPT ![d] = (tasks[d] \ {t}) \cup S]
      BY <1>1 DEF Becomes
    <2>2. tasks[d] \ {t} \in SUBSET tasks[d]
      OBVIOUS
    <2> QED  BY <1>1, <2>1, <2>2, MoreTasks
  <1>2. t \in Task
    BY TaskParts DEF TypeInv
  <1> DEFINE Merge  == {[t EXCEPT !.at = "merge", !.path = HasPath(d, t.folder)]}
             Get    == {[t EXCEPT !.at = "get", !.files = FALSE]}
             Asked  == {[t EXCEPT !.at = "asked"]}
             Served == {[t EXCEPT !.at = "served"]}
  <1>3. \A S \in {Merge, Get, Asked, Served, {}, Updates(d, t.folder)} :
           \A u \in S : u.at # "lookup"
    <2>1. /\ \A u \in Merge : u.at # "lookup"
          /\ \A u \in Get : u.at # "lookup"
          /\ \A u \in Asked : u.at # "lookup"
          /\ \A u \in Served : u.at # "lookup"
      BY <1>2 DEF Task
    <2> HIDE DEF Merge, Get, Asked, Served
    <2> QED  BY <2>1, UpdatesLookNothingUp
  <1>4. \E S \in {Merge, Get, Asked, Served, {}, Updates(d, t.folder)} : Becomes(d, t, S)
    <2>1. CASE LookupIndex(d, t)
      <3>1. Becomes(d, t, Merge) \/ Becomes(d, t, {})
        BY <2>1, Zenon DEF LookupIndex
      <3> QED  BY <3>1, Zenon
    <2>2. CASE MergeIndex(d, t)
      <3>1. Becomes(d, t, Get) \/ Becomes(d, t, {})
        BY <2>2, Zenon DEF MergeIndex
      <3> QED  BY <3>1, Zenon
    <2>3. CASE GetDirectory(d, t)
      <3>1. \/ Becomes(d, t, Updates(d, t.folder)) \/ Becomes(d, t, {})
            \/ Becomes(d, t, IF t.live THEN Asked ELSE {})
        BY <2>3, Zenon DEF GetDirectory
      <3>2. (IF t.live THEN Asked ELSE {}) \in {Asked, {}}
        OBVIOUS
      <3> QED  BY <3>1, <3>2, Zenon
    <2>4. CASE HandleRequest(d, t)
      <3>1. Becomes(d, t, Served) \/ Becomes(d, t, {})
        BY <2>4, Zenon DEF HandleRequest
      <3> QED  BY <3>1, Zenon
    <2>5. CASE GotFile(d, t) \/ DirectoryUpdated(d, t)
      <3>1. Becomes(d, t, Updates(d, t.folder)) \/ Becomes(d, t, {})
        BY <2>5, Zenon DEF GotFile, DirectoryUpdated
      <3> QED  BY <3>1, Zenon
    <2> QED  BY <2>1, <2>2, <2>3, <2>4, <2>5
  <1> HIDE DEF Merge, Get, Asked, Served
  <1> QED  BY <1>1, <1>3, <1>4

(***************************************************************************)
(* The steps that share, connect, tell, add and index folders.             *)
(***************************************************************************)
LEMMA QuietSteps ==
    ASSUME TypeInv, Finds, Lasting,
           \/ \E l \in Link : AddPeer(l[1], l[2]) \/ WatchStep(l)
           \/ \E d \in Device, f \in Folder :
                 \/ AddSyncDirectory(d, f) \/ AcceptFolder(d, f) \/ ForgetPath(d, f)
                 \/ RemoveSyncDirectory(d, f) \/ MakeFile(d, f) \/ GenerateIndex(d, f)
           \/ \E d \in Device : \E t \in tasks[d] :
                 \/ MergeIndex(d, t) \/ GetDirectory(d, t)
                 \/ HandleRequest(d, t) \/ GotFile(d, t)
           \/ UNCHANGED vars
    PROVE  Finds'
  <1>1. ASSUME NEW l \in Link, AddPeer(l[1], l[2]) \/ WatchStep(l)
        PROVE  Finds'
    <2>1. CASE AddPeer(l[1], l[2]) \/ WatchStart(l) \/ WatchEvent(l)
      <3>1. UNCHANGED <<shares, conn, told, idx, reader, unknown, tasks>>
        BY <2>1 DEF AddPeer, WatchStart, WatchEvent, device, link, history
      <3> QED  BY <3>1, SameTasks, QuietStep
    <2>2. CASE ScanFolder(l)
      <3>1. UNCHANGED <<shares, conn, told, idx, reader, unknown>>
        BY <2>2 DEF ScanFolder, history
      <3>2. UNCHANGED tasks \/ \E f : Records(l[1], f)
        BY <2>2 DEF ScanFolder
      <3>3. NoNewLookups
        BY <3>2, SameTasks, RecordsNoLookups, LinkEnds
      <3> QED  BY <3>1, <3>3, QuietStep
    <2> QED  BY <1>1, <2>1, <2>2 DEF WatchStep
  <1>2. ASSUME NEW d \in Device, NEW f \in Folder,
               \/ AddSyncDirectory(d, f) \/ AcceptFolder(d, f) \/ ForgetPath(d, f)
               \/ RemoveSyncDirectory(d, f) \/ MakeFile(d, f) \/ GenerateIndex(d, f)
        PROVE  Finds'
    <2>1. UNCHANGED <<shares, conn, told, idx, reader, unknown>>
      BY <1>2 DEF AddSyncDirectory, AcceptFolder, ForgetPath, RemoveSyncDirectory,
                  MakeFile, GenerateIndex, link, history
    <2>2. CASE AcceptFolder(d, f)
      <3> DEFINE G == {[NewTask("get", l[2], f) EXCEPT !.path = TRUE] :
                          l \in {m \in LinksOf(d) : conn[m] # "down"}}
      <3>1. tasks' = [tasks EXCEPT ![d] = tasks[d] \cup G]
        BY <2>2 DEF AcceptFolder
      <3>2. \A t \in G : t.at # "lookup"
        BY DEF NewTask
      <3> HIDE DEF G
      <3>3. NoNewLookups
        BY <3>1, <3>2, MoreTasks
      <3> QED  BY <2>1, <3>3, QuietStep
    <2>3. CASE GenerateIndex(d, f)
      BY <2>1, <2>3, RecordsNoLookups, QuietStep DEF GenerateIndex
    <2>4. CASE \/ AddSyncDirectory(d, f) \/ ForgetPath(d, f)
               \/ RemoveSyncDirectory(d, f) \/ MakeFile(d, f)
      <3>1. UNCHANGED tasks
        BY <2>4 DEF AddSyncDirectory, ForgetPath, RemoveSyncDirectory, MakeFile
      <3> QED  BY <2>1, <3>1, SameTasks, QuietStep
    <2> QED  BY <1>2, <2>2, <2>3, <2>4
  <1>3. ASSUME NEW d \in Device, NEW t \in tasks[d],
               \/ MergeIndex(d, t) \/ GetDirectory(d, t)
               \/ HandleRequest(d, t) \/ GotFile(d, t)
        PROVE  Finds'
    <2>1. UNCHANGED <<shares, conn, told, idx, reader, unknown>>
      BY <1>3 DEF MergeIndex, GetDirectory, HandleRequest, GotFile, device, link, history
    <2>2. NoNewLookups
      BY <1>3, TaskNoLookups
    <2> QED  BY <2>1, <2>2, QuietStep
  <1>4. CASE UNCHANGED vars
    <2>1. UNCHANGED <<shares, conn, told, idx, reader, unknown, tasks>>
      BY <1>4 DEF vars, device, link, history
    <2> QED  BY <2>1, SameTasks, QuietStep
  <1> QED  BY <1>1, <1>2, <1>3, <1>4

LEMMA ShareFinds ==
    ASSUME TypeInv, Finds, Lasting, ShareWhenDown, NEW l \in Link, NEW f \in Folder,
           SyncDirectoryWithPeer(l[1], f, l[2])
    PROVE  Finds'
  <1>1. /\ f \in Known(l[1]) /\ conn[l] = "down"
        /\ shares' = [shares EXCEPT ![l[1]] = @ \cup {<<f, l[2]>>}]
        /\ UNCHANGED <<folder, conn, told, idx, reader, tasks, taken, unknown>>
    BY LinkIsPair DEF SyncDirectoryWithPeer, link, history
  <1>2. \A d \in Device : shares'[d] = IF d = l[1] THEN shares[d] \cup {<<f, l[2]>>}
                                                  ELSE shares[d]
    BY <1>1 DEF TypeInv, OfferInv, OfferTypes
  <1>3. SharedIsKnown'
    BY <1>1, <1>2 DEF Finds, SharedIsKnown, Known
  <1>4. TellsAll'
    <2> SUFFICES ASSUME NEW m \in Link, NEW g \in Folder, conn[m] = "up",
                        <<g, m[2]>> \in shares'[m[1]]
                 PROVE  g \in told[m] \/ Fine(m[1], m[2], g)
      BY <1>1 DEF TellsAll, Fine, Known
    <2>1. ~(m[1] = l[1] /\ m[2] = l[2])
      <3>1. m # l
        BY <1>1
      <3>2. m = <<m[1], m[2]>> /\ l = <<l[1], l[2]>>
        BY LinkIsPair
      <3> QED  BY <3>1, <3>2, Zenon
    <2>2. <<g, m[2]>> \in shares[m[1]]
      <3>1. m[1] # l[1] \/ <<g, m[2]>> # <<f, l[2]>>
        BY <2>1
      <3>2. m[1] \in Device
        BY LinkEnds
      <3> QED  BY <1>2, <3>1, <3>2
    <2> QED  BY <2>2 DEF Finds, TellsAll
  <1>5. IndexedIsShared'
    BY <1>1, <1>2, IndexedStays
  <1>6. ReaderCovers'
    BY <1>1, CoversStays DEF ReaderCovers
  <1>7. TasksFind' /\ IndexedIsKnown'
    BY <1>1, SameTasks, TasksStay, UnknownStays
  <1> QED  BY <1>3, <1>4, <1>5, <1>6, <1>7 DEF Finds

LEMMA GoneFinds ==
    ASSUME TypeInv, Finds, Lasting, NEW l \in Link, Gone({l, Reverse(l)}),
           UNCHANGED <<shares, unknown>>
    PROVE  Finds'
  <1> DEFINE S == {l, Reverse(l)}
  <1>1. \A m \in Link : m \in S <=> Reverse(m) \in S
    BY LinkIsPair, LinkEnds DEF Reverse
  <1>2. \A m \in Link :
           /\ m \in S => /\ conn'[m] = "down" /\ idx'[m] = {}
                         /\ reader'[m] = ReaderOff \/ reader'[m] = reader[m]
           /\ m \notin S => /\ conn'[m] = conn[m] /\ told'[m] = told[m]
                            /\ idx'[m] = idx[m] /\ reader'[m] = reader[m]
    BY DEF Gone
  <1> HIDE DEF S
  <1>3. SharedIsKnown' /\ TasksFind' /\ IndexedIsKnown'
    BY SharedStays, GoneNoLookups, TasksStay, UnknownStays
  <1>4. \A m \in Link : idx'[m] \subseteq idx[m]
    BY <1>2
  <1>5. \A m \in Link : conn'[m] = "up" => conn[m] = "up" /\ told'[m] = told[m]
    BY <1>2
  <1>6. TellsAll' /\ IndexedIsShared'
    BY <1>4, <1>5, TellsStays, IndexedStays
  <1>7. ASSUME NEW m \in Link PROVE Covers(m)'
    <2>1. CASE m \in S
      <3>1. conn'[Reverse(m)] # "up"
        BY <1>1, <1>2, <2>1, LinkEnds
      <3>2. reader'[m].at = "off" \/ reader'[m] = reader[m]
        BY <1>2, <2>1, ReaderOffIsReader
      <3> QED  BY <3>1, <3>2, CoversStays
    <2>2. CASE m \notin S
      BY <1>1, <1>2, <2>2, LinkEnds, CoversStays
    <2> QED  BY <2>1, <2>2
  <1> QED  BY <1>3, <1>6, <1>7 DEF Finds, ReaderCovers

\* Dialling and verifying: no connection is up that was not.
LEMMA DialFinds ==
    ASSUME TypeInv, Finds, Lasting, NEW l \in Link,
           Dial(l) \/ (Verify(l) /\ ~Gone({l, Reverse(l)}))
    PROVE  Finds'
  <1>1. UNCHANGED <<shares, told, idx, reader, tasks, unknown>>
    BY DEF Dial, Verify, device, history
  <1>2. \A m \in Link : conn'[m] = "up" <=> conn[m] = "up"
    <2>1. CASE Dial(l)
      BY <2>1 DEF Dial
    <2>2. CASE Verify(l) /\ ~Gone({l, Reverse(l)})
      <3>1. conn[l] = "verify" /\ conn' = [conn EXCEPT ![l] = "index"]
        BY <2>2 DEF Verify
      <3> QED  BY <3>1 DEF TypeInv, OfferInv, OfferTypes
    <2> QED  BY <2>1, <2>2
  <1>3. SharedIsKnown' /\ TellsAll' /\ IndexedIsShared' /\ TasksFind' /\ IndexedIsKnown'
    BY <1>1, <1>2, SharedStays, TellsStays, IndexedStays, SameTasks, TasksStay, UnknownStays
  <1>4. ReaderCovers'
    BY <1>1, <1>2, LinkEnds, CoversStays DEF ReaderCovers
  <1> QED  BY <1>3, <1>4 DEF Finds

\* What is queued for the peer is shared with it.
LEMMA QueuedIsShared ==
    ASSUME TypeInv, Finds, NEW l \in Link, NEW S \in SUBSET Synced(l[1], l[2]),
           idx' = Queued(l, S), UNCHANGED shares
    PROVE  IndexedIsShared'
  <1> DEFINE M == {[folder |-> f, files |-> f \in rows[l[1]]] : f \in S}
  <1>1. idx' = [idx EXCEPT ![l] = idx[l] \cup M]
    BY DEF Queued
  <1>2. \A m \in M : m.folder \in S
    OBVIOUS
  <1> HIDE DEF M
  <1>3. \A m \in M : <<m.folder, l[2]>> \in shares[l[1]]
    BY <1>2 DEF Synced
  <1> QED  BY <1>1, <1>3 DEF Finds, IndexedIsShared, TypeInv, RestTypes

LEMMA FirstIndexFinds ==
    ASSUME TypeInv, Finds, Lasting, NEW l \in Link,
           FirstIndex(l), ~Gone({l, Reverse(l)})
    PROVE  Finds'
  <1>1. /\ UNCHANGED <<shares, told, tasks, unknown>>
        /\ conn[l] = "index" /\ conn' = [conn EXCEPT ![l] = "config"]
        /\ idx' = Queued(l, Synced(l[1], l[2]))
        /\ reader' = [reader EXCEPT ![l].at = "config"]
    BY DEF FirstIndex, device, history
  <1>2. \A m \in Link : conn'[m] = "up" <=> conn[m] = "up"
    BY <1>1 DEF TypeInv, OfferInv, OfferTypes
  <1>3. reader'[l].at = "config" /\ \A m \in Link \ {l} : reader'[m] = reader[m]
    BY <1>1 DEF TypeInv, OfferInv, OfferTypes, Reader
  <1>4. SharedIsKnown' /\ TellsAll' /\ TasksFind' /\ IndexedIsKnown'
    BY <1>1, <1>2, SharedStays, TellsStays, SameTasks, TasksStay, UnknownStays
  <1>5. IndexedIsShared'
    BY <1>1, QueuedIsShared
  <1>6. ASSUME NEW m \in Link PROVE Covers(m)'
    <2>1. CASE m = l
      BY <1>3, <2>1, CoversStays
    <2>2. CASE m # l
      BY <1>1, <1>2, <1>3, <2>2, LinkEnds, CoversStays
    <2> QED  BY <2>1, <2>2
  <1> QED  BY <1>4, <1>5, <1>6 DEF Finds, ReaderCovers

LEMMA ClusterConfigFinds ==
    ASSUME TypeInv, Upright, Finds, Lasting, NEW l \in Link, ClusterConfig(l)
    PROVE  Finds'
  <1>1. /\ UNCHANGED <<shares, folder, taken, idx, reader, tasks, unknown>>
        /\ conn[l] = "config" /\ conn' = [conn EXCEPT ![l] = "up"]
        /\ told' = [told EXCEPT ![l] = Synced(l[1], l[2])]
    BY DEF ClusterConfig, device, history
  <1>2. /\ conn'[l] = "up" /\ told'[l] = Synced(l[1], l[2])
        /\ \A m \in Link \ {l} : conn'[m] = conn[m] /\ told'[m] = told[m]
    BY <1>1 DEF TypeInv, OfferInv, OfferTypes
  <1>3. SharedIsKnown' /\ IndexedIsShared' /\ TasksFind' /\ IndexedIsKnown'
    BY <1>1, SharedStays, IndexedStays, SameTasks, TasksStay, UnknownStays
  <1>4. TellsAll'
    <2> SUFFICES ASSUME NEW m \in Link, NEW f \in Folder,
                        conn'[m] = "up", <<f, m[2]>> \in shares[m[1]]
                 PROVE  f \in told'[m] \/ Fine(m[1], m[2], f)
      BY <1>1 DEF TellsAll, Fine, Known
    <2>1. CASE m = l
      <3>1. f \in Known(l[1]) \/ <<l[1], f>> \in taken
        BY <2>1, LinkEnds DEF Finds, SharedIsKnown
      <3> QED  BY <1>2, <2>1, <3>1 DEF Synced, Fine
    <2>2. CASE m # l
      BY <1>2, <2>2 DEF Finds, TellsAll
    <2> QED  BY <2>1, <2>2
  <1>5. ReaderCovers'
    <2> SUFFICES ASSUME NEW m \in Link PROVE Covers(m)'
      BY DEF ReaderCovers
    <2>1. CASE reader[m].at \notin {"lookup", "add", "share", "loop"}
      BY <1>1, <2>1, CoversStays
    <2>2. CASE reader[m].at \in {"lookup", "add", "share", "loop"}
      <3>1. conn[Reverse(m)] \in {"up", "down"}
        BY <2>2 DEF Upright, Handling
      <3>2. Reverse(m) # l
        BY <1>1, <3>1
      <3> QED  BY <1>1, <1>2, <3>2, LinkEnds, CoversStays
    <2> QED  BY <2>1, <2>2
  <1> QED  BY <1>3, <1>4, <1>5 DEF Finds

\* The reader of one end goes on; nothing else changes but, perhaps, what this
\* device knows.
LEMMA ReaderFinds ==
    ASSUME TypeInv, Finds, Lasting, NEW l \in Link,
           UNCHANGED <<shares, conn, told, idx, tasks, unknown>>,
           \A m \in Link \ {l} : reader'[m] = reader[m],
           Covers(l)'
    PROVE  Finds'
  <1>1. /\ SharedIsKnown' /\ TellsAll' /\ IndexedIsShared' /\ TasksFind'
        /\ IndexedIsKnown'
    BY SharedStays, TellsStays, IndexedStays, SameTasks, TasksStay, UnknownStays
  <1>2. ASSUME NEW m \in Link \ {l} PROVE Covers(m)'
    BY CoversStays
  <1> QED  BY <1>1, <1>2 DEF Finds, ReaderCovers

LEMMA ReadConfigFinds ==
    ASSUME TypeInv, Finds, Lasting, NEW l \in Link, ReadConfig(l)
    PROVE  Finds'
  <1>1. /\ UNCHANGED <<shares, conn, told, idx, tasks, unknown>>
        /\ conn[Reverse(l)] = "up" /\ SetReader(l, "lookup", told[Reverse(l)], {})
    BY DEF ReadConfig, device, history
  <1>2. Covers(l)'
    BY <1>1, SetReaderIs DEF Covers, Reverse
  <1> QED  BY <1>1, <1>2, SetReaderIs, ReaderFinds

LEMMA LookupFolderFinds ==
    ASSUME TypeInv, Finds, Lasting, NEW l \in Link, LookupFolder(l)
    PROVE  Finds'
  <1>1. /\ UNCHANGED <<shares, folder, taken, conn, told, idx, tasks, unknown>>
        /\ reader[l].at = "lookup"
    BY DEF LookupFolder, device, history
  <1>2. /\ reader[l].cur = {}
        /\ conn[Reverse(l)] = "up" =>
              \A f \in told[Reverse(l)] : f \in reader[l].todo \/ Fine(l[2], l[1], f)
    BY <1>1 DEF Finds, ReaderCovers, Covers
  <1>3. CASE reader[l].todo = {} /\ ConfigEnds(l, "loop")
    <2>1. Covers(l)'
      BY <1>1, <1>2, <1>3, ConfigEndsIs DEF Covers, Reverse, Fine, Known
    <2> QED  BY <1>1, <1>3, <2>1, ConfigEndsIs, ReaderFinds
  <1>4. ASSUME NEW f \in reader[l].todo, f \in Known(l[1]),
               SetReader(l, "lookup", reader[l].todo \ {f}, {})
        PROVE  Finds'
    <2>1. Covers(l)'
      BY <1>1, <1>2, <1>4, SetReaderIs DEF Covers, Reverse, Fine, Known
    <2> QED  BY <1>1, <1>4, <2>1, SetReaderIs, ReaderFinds
  <1>5. ASSUME NEW f \in reader[l].todo,
               SetReader(l, "add", reader[l].todo \ {f}, {f})
        PROVE  Finds'
    <2>1. f \in Folder
      BY ReaderParts DEF TypeInv
    <2>2. Covers(l)'
      BY <1>1, <1>2, <1>5, <2>1, SetReaderIs DEF Covers, Reverse, Fine, Known
    <2> QED  BY <1>1, <1>5, <2>2, SetReaderIs, ReaderFinds
  <1> QED  BY <1>3, <1>4, <1>5 DEF LookupFolder

LEMMA AddFolderFinds ==
    ASSUME TypeInv, Finds, Lasting, NEW l \in Link, AddFolder(l)
    PROVE  Finds'
  <1>1. UNCHANGED <<shares, taken, conn, told, idx, tasks, unknown>> /\ reader[l].at = "add"
    BY DEF AddFolder, history
  <1>2. CASE ConfigEnds(l, "dead")
    <2>1. Covers(l)'
      BY <1>2, ConfigEndsIs DEF Covers
    <2> QED  BY <1>1, <1>2, <2>1, ConfigEndsIs, ReaderFinds
  <1>3. ASSUME NEW f \in reader[l].cur, SetReader(l, "share", reader[l].todo, {f})
        PROVE  Finds'
    <2>1. f \in Folder
      BY ReaderParts DEF TypeInv
    <2>2. /\ reader[l].cur = {f}
          /\ conn[Reverse(l)] = "up" =>
                \A g \in told[Reverse(l)] :
                    g \in reader[l].todo \cup {f} \/ Fine(l[2], l[1], g)
      BY <1>1, <1>3 DEF Finds, ReaderCovers, Covers
    <2>3. conn[Reverse(l)] = "up" =>
             \A g \in told[Reverse(l)] :
                 g \in reader[l].todo \cup {f} \/ Fine(l[2], l[1], g)'
      <3>1. \A g \in told[Reverse(l)] : g \in Folder
        BY LinkEnds DEF TypeInv, OfferInv, OfferTypes
      <3> QED  BY <2>2, <3>1, LinkEnds, FineLasts
    <2>4. Covers(l)'
      BY <1>1, <1>3, <2>1, <2>2, <2>3, SetReaderIs DEF Covers, Reverse
    <2> QED  BY <1>1, <1>3, <2>4, SetReaderIs, ReaderFinds
  <1> QED  BY <1>2, <1>3 DEF AddFolder

LEMMA ShareFolderFinds ==
    ASSUME TypeInv, Finds, Lasting, NEW l \in Link, ShareFolder(l)
    PROVE  Finds'
  <1>1. /\ UNCHANGED <<folder, taken, conn, told, idx, tasks, unknown>>
        /\ reader[l].at = "share"
    BY DEF ShareFolder, history
  <1>2. CASE ConfigEnds(l, "dead") /\ UNCHANGED shares
    <2>1. Covers(l)'
      BY <1>2, ConfigEndsIs DEF Covers
    <2> QED  BY <1>1, <1>2, <2>1, ConfigEndsIs, ReaderFinds
  <1>3. ASSUME NEW f \in reader[l].cur, f \in Known(l[1]),
               shares' = [shares EXCEPT ![l[1]] = @ \cup {<<f, l[2]>>}],
               SetReader(l, "lookup", reader[l].todo, {})
        PROVE  Finds'
    <2>1. \A d \in Device : shares'[d] = IF d = l[1] THEN shares[d] \cup {<<f, l[2]>>}
                                                    ELSE shares[d]
      BY <1>3 DEF TypeInv, OfferInv, OfferTypes
    <2>2. SharedIsKnown'
      BY <1>1, <1>3, <2>1 DEF Finds, SharedIsKnown, Known
    <2>3. Fine(l[1], l[2], f) /\ f \in Folder
      <3>1. f \in Folder /\ <<f, l[1]>> \in shares[l[2]]
        BY DEF TypeInv, OfferInv, Truthful, SharedBy
      <3> QED  BY <3>1, LinkEnds DEF Finds, SharedIsKnown, Fine
    <2>4. TellsAll'
      <3> SUFFICES ASSUME NEW m \in Link, NEW g \in Folder, conn[m] = "up",
                          <<g, m[2]>> \in shares'[m[1]]
                   PROVE  g \in told[m] \/ Fine(m[1], m[2], g)
        BY <1>1 DEF TellsAll, Fine, Known
      <3>1. CASE <<g, m[2]>> \in shares[m[1]]
        BY <3>1 DEF Finds, TellsAll
      <3>2. CASE <<g, m[2]>> \notin shares[m[1]]
        <4>0. m[1] \in Device
          BY LinkEnds
        <4>1. m[1] = l[1] /\ <<g, m[2]>> = <<f, l[2]>>
          BY <2>1, <3>2, <4>0
        <4> QED  BY <2>3, <4>1
      <3> QED  BY <3>1, <3>2
    <2>5. IndexedIsShared'
      BY <1>1, <2>1, IndexedStays
    <2>6. TasksFind' /\ IndexedIsKnown'
      BY <1>1, SameTasks, TasksStay, UnknownStays
    <2>7. Covers(l)'
      <3>1. /\ reader[l].cur = {f}
            /\ conn[Reverse(l)] = "up" =>
                  \A g \in told[Reverse(l)] :
                      g \in reader[l].todo \cup {f} \/ Fine(l[2], l[1], g)
        BY <1>1, <1>3 DEF Finds, ReaderCovers, Covers
      <3> QED  BY <1>1, <1>3, <3>1, SetReaderIs DEF Covers, Reverse, Fine, Known
    <2>8. ASSUME NEW m \in Link \ {l} PROVE Covers(m)'
      BY <1>1, <1>3, SetReaderIs, CoversStays
    <2> QED  BY <2>2, <2>4, <2>5, <2>6, <2>7, <2>8 DEF Finds, ReaderCovers
  <1> QED  BY <1>2, <1>3 DEF ShareFolder

\* The heart of it: a reader that has come to the Indexes has been through all of
\* the ClusterConfig, and the ClusterConfig tells what the Indexes are about.
LEMMA ReadIndexFinds ==
    ASSUME TypeInv, Finds, Lasting, NEW l \in Link, ReadIndex(l)
    PROVE  Finds'
  <1> DEFINE r == Reverse(l)
  <1>1. /\ UNCHANGED <<shares, folder, taken, conn, told, reader, unknown>>
        /\ reader[l].at = "loop" /\ conn[r] = "up"
    BY DEF ReadIndex, device, history
  <1>2. PICK msg \in idx[r] :
           /\ idx' = [idx EXCEPT ![r] = @ \ {msg}]
           /\ tasks' = [tasks EXCEPT ![l[1]] = @ \cup
                {[NewTask("lookup", l[2], msg.folder) EXCEPT !.files = msg.files]}]
    BY DEF ReadIndex
  <1>3. r \in Link /\ r[1] = l[2] /\ r[2] = l[1] /\ l[1] \in Device
    BY LinkEnds
  <1> HIDE DEF r
  <1>4. msg.folder \in Folder /\ <<msg.folder, l[1]>> \in shares[l[2]]
    BY <1>3 DEF TypeInv, RestTypes, IndexMsg, Finds, IndexedIsShared
  <1>5. Fine(l[2], l[1], msg.folder)
    <2>1. \A f \in told[r] : Fine(l[2], l[1], f)
      BY <1>1 DEF Finds, ReaderCovers, Covers, r
    <2>2. msg.folder \in told[r] \/ Fine(l[2], l[1], msg.folder)
      BY <1>1, <1>3, <1>4 DEF Finds, TellsAll
    <2> QED  BY <2>1, <2>2
  <1>6. TasksFind'
    <2> DEFINE n == [NewTask("lookup", l[2], msg.folder) EXCEPT !.files = msg.files]
    <2>1. n.peer = l[2] /\ n.folder = msg.folder
      BY DEF NewTask
    <2>2. tasks' = [tasks EXCEPT ![l[1]] = tasks[l[1]] \cup {n}]
      BY <1>2
    <2> HIDE DEF n
    <2> SUFFICES ASSUME NEW d \in Device, NEW t \in tasks'[d], t.at = "lookup"
                 PROVE  Fine(t.peer, d, t.folder)
      BY <1>1 DEF TasksFind, Fine, Known
    <2>3. t \in tasks[d] \/ (d = l[1] /\ t = n)
      BY <1>3, <2>2 DEF TypeInv, RestTypes
    <2> QED  BY <1>5, <2>1, <2>3 DEF Finds, TasksFind
  <1>7. \A m \in Link : idx'[m] \subseteq idx[m]
    BY <1>2 DEF TypeInv, RestTypes
  <1>8. SharedIsKnown' /\ TellsAll' /\ IndexedIsShared' /\ IndexedIsKnown'
    BY <1>1, <1>7, SharedStays, TellsStays, IndexedStays, UnknownStays
  <1>9. ReaderCovers'
    BY <1>1, CoversStays DEF ReaderCovers
  <1> QED  BY <1>6, <1>8, <1>9 DEF Finds

LEMMA LookupIndexFinds ==
    ASSUME TypeInv, Finds, Lasting, NEW d \in Device, NEW t \in tasks[d], LookupIndex(d, t)
    PROVE  Finds'
  <1>1. UNCHANGED <<shares, taken, conn, told, idx, reader>> /\ t.at = "lookup"
    BY DEF LookupIndex, device, link
  <1>2. NoNewLookups
    BY TaskNoLookups
  <1>3. CASE t.folder \in Known(d)
    BY <1>1, <1>2, <1>3, QuietStep DEF LookupIndex
  <1>4. CASE t.folder \notin Known(d)
    <2>1. unknown' = unknown \cup {<<<<d, t.peer>>, t.folder>>}
      BY <1>4 DEF LookupIndex
    <2>2. <<d, t.folder>> \in taken \/ <<t.peer, t.folder>> \in taken
      BY <1>1, <1>4 DEF Finds, TasksFind, Fine
    <2>3. IndexedIsKnown'
      <3> SUFFICES ASSUME ShareWhenDown, NEW e \in unknown'
                   PROVE  <<e[1][1], e[2]>> \in taken \/ <<e[1][2], e[2]>> \in taken
        BY <1>1 DEF IndexedIsKnown
      <3>1. CASE e \in unknown
        BY <3>1 DEF Finds, IndexedIsKnown
      <3>2. CASE e = <<<<d, t.peer>>, t.folder>>
        BY <2>2, <3>2
      <3> QED  BY <2>1, <3>1, <3>2
    <2>4. SharedIsKnown' /\ TellsAll' /\ IndexedIsShared' /\ TasksFind'
      BY <1>1, <1>2, SharedStays, TellsStays, IndexedStays, TasksStay
    <2>5. ReaderCovers'
      BY <1>1, CoversStays DEF ReaderCovers
    <2> QED  BY <2>3, <2>4, <2>5 DEF Finds
  <1> QED  BY <1>3, <1>4

LEMMA DirectoryUpdatedFinds ==
    ASSUME TypeInv, Finds, Lasting, NEW d \in Device, NEW t \in tasks[d],
           DirectoryUpdated(d, t)
    PROVE  Finds'
  <1> DEFINE l == <<d, t.peer>>
  <1>1. UNCHANGED <<shares, conn, told, reader, unknown>>
    BY DEF DirectoryUpdated, device, history
  <1>2. NoNewLookups
    BY TaskNoLookups
  <1>3. l \in Link /\ l[1] = d /\ l[2] = t.peer
    BY TaskParts DEF TypeInv
  <1>4. \/ UNCHANGED idx
        \/ \E S \in SUBSET Synced(d, t.peer) : idx' = Queued(l, S)
    BY DEF DirectoryUpdated
  <1> HIDE DEF l
  <1>5. IndexedIsShared'
    <2>1. CASE UNCHANGED idx
      BY <1>1, <2>1, IndexedStays
    <2>2. ASSUME NEW S \in SUBSET Synced(d, t.peer), idx' = Queued(l, S)
          PROVE  IndexedIsShared'
      BY <1>1, <1>3, <2>2, QueuedIsShared
    <2> QED  BY <1>4, <2>1, <2>2
  <1>6. SharedIsKnown' /\ TellsAll' /\ TasksFind' /\ IndexedIsKnown'
    BY <1>1, <1>2, SharedStays, TellsStays, TasksStay, UnknownStays
  <1>7. ReaderCovers'
    BY <1>1, CoversStays DEF ReaderCovers
  <1> QED  BY <1>5, <1>6, <1>7 DEF Finds
-----------------------------------------------------------------------------
LEMMA InitFinds == Init => Finds
  <1> SUFFICES ASSUME Init PROVE Finds
    OBVIOUS
  <1>1. SharedIsKnown /\ TellsAll /\ IndexedIsShared /\ TasksFind /\ IndexedIsKnown
    BY LinkEnds DEF Init, SharedIsKnown, TellsAll, IndexedIsShared, TasksFind, IndexedIsKnown
  <1>2. ReaderCovers
    BY ReaderOffIsReader DEF Init, ReaderCovers, Covers
  <1> QED  BY <1>1, <1>2 DEF Finds

LEMMA NextFinds ==
    ASSUME TypeInv, Upright, Finds, ShareWhenDown, [Next]_vars
    PROVE  Finds'
  <1>0. Lasting
    BY StepsAreLasting
  <1>1. CASE UserStep
    BY <1>0, <1>1, QuietSteps, ShareFinds DEF UserStep
  <1>2. ASSUME NEW l \in Link, Dial(l) \/ Disconnect(l) \/ ConnStep(l) PROVE Finds'
    <2>1. CASE /\ Disconnect(l) \/ Verify(l) \/ FirstIndex(l)
               /\ Gone({l, Reverse(l)})
      <3>1. UNCHANGED <<shares, unknown>>
        BY <2>1 DEF Disconnect, Verify, FirstIndex, device, history
      <3> QED  BY <1>0, <2>1, <3>1, GoneFinds
    <2>2. CASE Disconnect(l) => Gone({l, Reverse(l)})
      BY <1>0, <1>2, <2>1, <2>2, DialFinds, FirstIndexFinds, ClusterConfigFinds DEF ConnStep
    <2> QED  BY <2>2 DEF Disconnect
  <1>3. ASSUME NEW l \in Link, ReaderStep(l) PROVE Finds'
    BY <1>0, <1>3, ReadConfigFinds, LookupFolderFinds, AddFolderFinds, ShareFolderFinds,
       ReadIndexFinds DEF ReaderStep
  <1>4. ASSUME NEW l \in Link, WatchStep(l) PROVE Finds'
    BY <1>0, <1>4, QuietSteps
  <1>5. ASSUME NEW d \in Device, TaskStep(d) PROVE Finds'
    BY <1>0, <1>5, QuietSteps, LookupIndexFinds, DirectoryUpdatedFinds DEF TaskStep
  <1>6. CASE UNCHANGED vars
    BY <1>0, <1>6, QuietSteps
  <1> QED  BY <1>1, <1>2, <1>3, <1>4, <1>5, <1>6 DEF Next, SystemStep

(***************************************************************************)
(* An Index is never for a folder that the receiver has not been told of,  *)
(* although it was queued before the ClusterConfig was made, is read by    *)
(* another task than the one that adds the folder, and users add, accept,  *)
(* take away and dial all the while: unless one of the two users has taken *)
(* the folder away, or has shared it over a connection that stood.         *)
(***************************************************************************)
THEOREM IndexesFindTheirFolder == Spec => []IndexedIsKnown
  <1> DEFINE FindInv == TypeInv /\ Upright /\ (ShareWhenDown => Finds)
  <1>1. Init => FindInv
    BY InitTypes, InitUpright, InitFinds
  <1>2. FindInv /\ [Next]_vars => FindInv'
    <2> SUFFICES ASSUME TypeInv, Upright, ShareWhenDown => Finds, [Next]_vars
                 PROVE  TypeInv' /\ Upright' /\ (ShareWhenDown => Finds')
      OBVIOUS
    <2> QED  BY NextTypes, NextUpright, NextFinds
  <1>3. FindInv => IndexedIsKnown
    BY DEF Finds, IndexedIsKnown
  <1> HIDE DEF FindInv
  <1> QED  BY <1>1, <1>2, <1>3, PTL DEF Spec
-----------------------------------------------------------------------------
(***************************************************************************)
(* Why a reader panics.  The handler of a ClusterConfig gives up the lock  *)
(* between looking a folder up, adding it and sharing it; what it has seen *)
(* is still so when it goes on, or somebody else has had a hand in it.     *)
(***************************************************************************)
Guarded(l) ==
    /\ Handling(l) /\ conn[Reverse(l)] = "up" =>
          reader[l].todo \cup reader[l].cur \subseteq told[Reverse(l)]
    /\ reader[l].at = "add" =>
          \A f \in reader[l].cur : f \notin Known(l[1]) \/ Disturbed(l, f)
    /\ reader[l].at = "share" =>
          \A f \in reader[l].cur : f \in Known(l[1]) \/ Disturbed(l, f)
    /\ reader[l].at = "dead" => \E f \in told[Reverse(l)] : Disturbed(l, f)

AllGuarded == \A l \in Link : Guarded(l)

\* Peers, shares and what users have done to a folder stay.
Growing ==
    /\ \A d \in Device : peers[d] \subseteq peers'[d] /\ shares[d] \subseteq shares'[d]
    /\ \A d \in Device, f \in Folder :
          folder[d][f] = "local" => folder'[d][f] = "local" \/ <<d, f>> \in taken'

LEMMA StepsAreGrowing ==
    ASSUME TypeInv, [Next]_vars
    PROVE  Growing
  <1>1. CASE UNCHANGED <<peers, shares, folder>>
    BY <1>1 DEF Growing
  <1>2. ASSUME NEW e \in Device, NEW g \in Folder, NEW s,
               folder' = [folder EXCEPT ![e][g] = s], UNCHANGED <<peers, shares>>,
               folder[e][g] = "local" => s = "local" \/ <<e, g>> \in taken'
        PROVE  Growing
    BY <1>2 DEF Growing, TypeInv, OfferInv, OfferTypes
  <1>3. ASSUME NEW e \in Device, NEW x,
               \/ peers' = [peers EXCEPT ![e] = @ \cup {x}] /\ UNCHANGED <<shares, folder>>
               \/ shares' = [shares EXCEPT ![e] = @ \cup {x}] /\ UNCHANGED <<peers, folder>>
        PROVE  Growing
    BY <1>3 DEF Growing, TypeInv, OfferInv, OfferTypes
  <1>4. CASE UserStep
    <2>1. ASSUME NEW e \in Device, NEW g \in Folder,
                 AddSyncDirectory(e, g) \/ AcceptFolder(e, g)
          PROVE  Growing
      BY <1>2, <2>1 DEF AddSyncDirectory, AcceptFolder
    <2>2. ASSUME NEW e \in Device, NEW g \in Folder,
                 ForgetPath(e, g) \/ RemoveSyncDirectory(e, g)
          PROVE  Growing
      BY <1>2, <2>2 DEF ForgetPath, RemoveSyncDirectory
    <2>3. ASSUME NEW e \in Device, NEW g \in Folder, MakeFile(e, g) \/ GenerateIndex(e, g)
          PROVE  Growing
      BY <1>1, <2>3 DEF MakeFile, GenerateIndex
    <2>4. ASSUME NEW l \in Link,
                 \/ AddPeer(l[1], l[2])
                 \/ \E f \in Folder : SyncDirectoryWithPeer(l[1], f, l[2])
          PROVE  Growing
      BY <1>3, <2>4, LinkEnds DEF AddPeer, SyncDirectoryWithPeer
    <2> QED  BY <1>4, <2>1, <2>2, <2>3, <2>4 DEF UserStep
  <1>5. ASSUME NEW l \in Link, Dial(l) \/ Disconnect(l) \/ ConnStep(l) \/ WatchStep(l)
        PROVE  Growing
    BY <1>1, <1>5 DEF Dial, Disconnect, ConnStep, Verify, FirstIndex, ClusterConfig,
                      WatchStep, WatchStart, WatchEvent, ScanFolder, device
  <1>6. ASSUME NEW l \in Link, ReaderStep(l)
        PROVE  Growing
    <2>1. CASE AddFolder(l)
      <3>1. \A f \in reader[l].cur : f \in Folder
        BY ReaderParts DEF TypeInv
      <3>2. PICK f \in Folder :
               \/ UNCHANGED <<peers, shares, folder>>
               \/ /\ folder' = [folder EXCEPT ![l[1]][f] = "pending"]
                  /\ folder[l[1]][f] # "local" /\ UNCHANGED <<peers, shares>>
        BY <2>1, <3>1 DEF AddFolder, Known
      <3>3. CASE folder' = [folder EXCEPT ![l[1]][f] = "pending"]
                  /\ folder[l[1]][f] # "local" /\ UNCHANGED <<peers, shares>>
        BY <1>2, <3>3, LinkEnds
      <3> QED  BY <1>1, <3>2, <3>3
    <2>2. CASE ShareFolder(l)
      BY <1>1, <1>3, <2>2, LinkEnds DEF ShareFolder
    <2>3. CASE ReadConfig(l) \/ LookupFolder(l) \/ ReadIndex(l)
      BY <1>1, <2>3 DEF ReadConfig, LookupFolder, ReadIndex, device
    <2> QED  BY <1>6, <2>1, <2>2, <2>3 DEF ReaderStep
  <1>7. ASSUME NEW d \in Device, TaskStep(d)
        PROVE  Growing
    BY <1>1, <1>7 DEF TaskStep, LookupIndex, MergeIndex, GetDirectory, HandleRequest,
                      GotFile, DirectoryUpdated, device
  <1>8. CASE UNCHANGED vars
    BY <1>1, <1>8 DEF vars, device
  <1> QED  BY <1>4, <1>5, <1>6, <1>7, <1>8 DEF Next, SystemStep

LEMMA DisturbedLasts ==
    ASSUME TypeInv, [Next]_vars, NEW l \in Link, NEW f \in Folder
    PROVE  /\ Disturbed(l, f) => Disturbed(l, f)'
           /\ f \in Known(l[1]) => f \in Known(l[1])' \/ Disturbed(l, f)'
  <1>1. Lasting /\ Growing
    BY StepsAreLasting, StepsAreGrowing
  <1>2. l[1] \in Device /\ \A d \in Device : peers[d] \subseteq Device
    BY LinkEnds DEF TypeInv, OfferInv, OfferTypes
  <1> QED  BY <1>1, <1>2 DEF Lasting, Growing, Disturbed

\* A folder comes to a device from its user, from the connection l, or from another
\* peer that offers it.
LEMMA ComesFromSomebody ==
    ASSUME TypeInv, [Next]_vars, NEW l \in Link, NEW f \in Folder,
           f \notin Known(l[1]), f \in Known(l[1])', ~AddFolder(l)
    PROVE  Disturbed(l, f)'
  <1>1. folder # folder'
    BY DEF Known
  <1>2. ASSUME NEW e \in Device, NEW g \in Folder, NEW s,
               folder' = [folder EXCEPT ![e][g] = s]
        PROVE  e = l[1] /\ g = f /\ folder'[l[1]][f] = s /\ s # "none"
    BY <1>2, LinkEnds DEF Known, TypeInv, OfferInv, OfferTypes
  <1>3. CASE UserStep
    <2>1. PICK e \in Device, g \in Folder :
             \/ AddSyncDirectory(e, g) \/ AcceptFolder(e, g)
             \/ ForgetPath(e, g) \/ RemoveSyncDirectory(e, g)
      BY <1>1, <1>3 DEF UserStep, AddPeer, MakeFile, GenerateIndex, SyncDirectoryWithPeer
    <2> QED  BY <1>2, <2>1 DEF AddSyncDirectory, AcceptFolder, ForgetPath,
                               RemoveSyncDirectory, Disturbed
  <1>4. ASSUME NEW m \in Link, ReaderStep(m) PROVE Disturbed(l, f)'
    <2>1. AddFolder(m)
      BY <1>1, <1>4 DEF ReaderStep, ReadConfig, LookupFolder, ShareFolder, ReadIndex, device
    <2>2. PICK g \in reader[m].cur : folder' = [folder EXCEPT ![m[1]][g] = "pending"]
      BY <1>1, <2>1 DEF AddFolder
    <2>3. g \in Folder
      BY <2>2, ReaderParts DEF TypeInv
    <2>4. m[1] = l[1] /\ g = f
      BY <1>2, <2>2, <2>3, LinkEnds
    <2>5. m[2] # l[2]
      BY <2>1, <2>4, LinkIsPair
    <2>6. m[2] \in peers[l[1]] /\ <<f, l[1]>> \in shares[m[2]]
      BY <2>1, <2>2, <2>4 DEF AddFolder, TypeInv, OfferInv, Vouched, Truthful, SharedBy
    <2>7. UNCHANGED <<peers, shares>>
      BY <2>1 DEF AddFolder
    <2> QED  BY <2>5, <2>6, <2>7 DEF Disturbed
  <1>5. ASSUME NEW m \in Link, Dial(m) \/ Disconnect(m) \/ ConnStep(m) \/ WatchStep(m)
        PROVE  FALSE
    BY <1>1, <1>5 DEF Dial, Disconnect, ConnStep, Verify, FirstIndex, ClusterConfig,
                      WatchStep, WatchStart, WatchEvent, ScanFolder, device
  <1>6. ASSUME NEW d \in Device, TaskStep(d) PROVE FALSE
    BY <1>1, <1>6 DEF TaskStep, LookupIndex, MergeIndex, GetDirectory, HandleRequest,
                      GotFile, DirectoryUpdated, device
  <1> QED  BY <1>1, <1>3, <1>4, <1>5, <1>6 DEF Next, SystemStep, vars, device

(***************************************************************************)
(* What becomes of one reader.                                             *)
(***************************************************************************)
LEMMA IdleGuarded ==
    ASSUME NEW l \in Link, ~Handling(l)', reader'[l].at # "dead"
    PROVE  Guarded(l)'
  BY DEF Guarded, Handling

LEMMA GuardedStays ==
    ASSUME TypeInv, Upright, Upright', [Next]_vars, NEW l \in Link, Guarded(l),
           reader'[l] = reader[l], ~AddFolder(l),
           conn'[Reverse(l)] = "up" =>
              conn[Reverse(l)] = "up" /\ told'[Reverse(l)] = told[Reverse(l)]
    PROVE  Guarded(l)'
  <1>1. \A f \in reader[l].cur : f \in Folder
    BY ReaderParts DEF TypeInv
  <1>2. Handling(l)' /\ conn'[Reverse(l)] = "up" =>
          reader'[l].todo \cup reader'[l].cur \subseteq told'[Reverse(l)]
    BY DEF Guarded, Handling
  <1>3. reader'[l].at = "add" =>
          \A f \in reader'[l].cur : f \notin Known(l[1])' \/ Disturbed(l, f)'
    BY <1>1, DisturbedLasts, ComesFromSomebody DEF Guarded
  <1>4. reader'[l].at = "share" =>
          \A f \in reader'[l].cur : f \in Known(l[1])' \/ Disturbed(l, f)'
    BY <1>1, DisturbedLasts DEF Guarded
  <1>5. ASSUME reader'[l].at = "dead"
        PROVE  \E f \in told'[Reverse(l)] : Disturbed(l, f)'
    <2>1. told'[Reverse(l)] = told[Reverse(l)]
      BY <1>5 DEF Upright, Reverse
    <2>2. PICK f \in told[Reverse(l)] : Disturbed(l, f)
      BY <1>5 DEF Guarded
    <2>3. f \in Folder
      BY <2>2, LinkEnds DEF TypeInv, OfferInv, OfferTypes
    <2> QED  BY <2>1, <2>2, <2>3, DisturbedLasts
  <1> QED  BY <1>2, <1>3, <1>4, <1>5 DEF Guarded, Reverse

LEMMA OwnStepGuarded ==
    ASSUME TypeInv, Upright, NEW l \in Link, Guarded(l),
           ReadConfig(l) \/ LookupFolder(l) \/ AddFolder(l) \/ ShareFolder(l)
    PROVE  Guarded(l)'
  <1>1. UNCHANGED <<conn, told, peers>>
    BY DEF ReadConfig, LookupFolder, AddFolder, ShareFolder, device
  <1>2. CASE ReadConfig(l)
    <2>1. reader'[l].at = "lookup" /\ reader'[l].todo = told[Reverse(l)] /\ reader'[l].cur = {}
      BY <1>2, SetReaderIs DEF ReadConfig
    <2> QED  BY <1>1, <2>1 DEF Guarded, Reverse
  <1>3. CASE LookupFolder(l)
    <2>1. Handling(l)
      BY <1>3 DEF LookupFolder, Handling
    <2>2. CASE ConfigEnds(l, "loop")
      BY <2>2, ConfigEndsIs, IdleGuarded DEF Handling
    <2>3. ASSUME NEW f \in reader[l].todo, SetReader(l, "lookup", reader[l].todo \ {f}, {})
          PROVE  Guarded(l)'
      <3>1. /\ reader'[l].at = "lookup" /\ reader'[l].todo = reader[l].todo \ {f}
            /\ reader'[l].cur = {}
        BY <2>3, SetReaderIs
      <3> QED  BY <1>1, <2>1, <3>1 DEF Guarded, Reverse
    <2>4. ASSUME NEW f \in reader[l].todo, f \notin Known(l[1]),
                 SetReader(l, "add", reader[l].todo \ {f}, {f})
          PROVE  Guarded(l)'
      <3>1. /\ reader'[l].at = "add" /\ reader'[l].todo = reader[l].todo \ {f}
            /\ reader'[l].cur = {f}
        BY <2>4, SetReaderIs
      <3>2. f \notin Known(l[1])'
        BY <1>3, <2>4 DEF LookupFolder, device, Known
      <3> QED  BY <1>1, <2>1, <3>1, <3>2 DEF Guarded, Reverse
    <2> QED  BY <1>3, <2>2, <2>3, <2>4 DEF LookupFolder
  <1>4. ASSUME NEW f \in reader[l].cur, Disturbed(l, f), Handling(l),
               ConfigEnds(l, "dead"), UNCHANGED <<folder, shares, taken>>
        PROVE  Guarded(l)'
    <2>1. reader'[l].at = IF conn[l] = "down" THEN "off" ELSE "dead"
      BY <1>4, ConfigEndsIs
    <2>2. CASE conn[l] = "down"
      BY <2>1, <2>2, IdleGuarded DEF Handling
    <2>3. CASE conn[l] # "down"
      <3>1. conn[Reverse(l)] = "up"
        BY <1>4, <2>3 DEF Upright
      <3>2. f \in told[Reverse(l)]
        BY <1>4, <3>1 DEF Guarded
      <3>3. Disturbed(l, f)'
        BY <1>1, <1>4 DEF Disturbed
      <3> QED  BY <1>1, <2>1, <2>3, <3>2, <3>3 DEF Guarded, Handling, Reverse
    <2> QED  BY <2>2, <2>3
  <1>5. CASE AddFolder(l)
    <2>1. Handling(l)
      BY <1>5 DEF AddFolder, Handling
    <2>2. PICK f \in reader[l].cur :
             \/ f \in Known(l[1]) /\ ConfigEnds(l, "dead") /\ UNCHANGED folder
             \/ /\ folder' = [folder EXCEPT ![l[1]][f] = "pending"]
                /\ SetReader(l, "share", reader[l].todo, {f})
      BY <1>5 DEF AddFolder
    <2>3. f \in Folder
      BY <2>2, ReaderParts DEF TypeInv
    <2>4. CASE f \in Known(l[1]) /\ ConfigEnds(l, "dead") /\ UNCHANGED folder
      BY <1>4, <1>5, <2>1, <2>4 DEF AddFolder, Guarded, history
    <2>5. CASE /\ folder' = [folder EXCEPT ![l[1]][f] = "pending"]
               /\ SetReader(l, "share", reader[l].todo, {f})
      <3>1. /\ reader'[l].at = "share" /\ reader'[l].todo = reader[l].todo
            /\ reader'[l].cur = {f}
        BY <2>5, SetReaderIs
      <3>2. f \in Known(l[1])'
        BY <2>3, <2>5, LinkEnds DEF Known, TypeInv, OfferInv, OfferTypes
      <3> QED  BY <1>1, <2>1, <3>1, <3>2 DEF Guarded, Reverse
    <2> QED  BY <2>2, <2>4, <2>5
  <1>6. CASE ShareFolder(l)
    <2>1. Handling(l)
      BY <1>6 DEF ShareFolder, Handling
    <2>2. PICK f \in reader[l].cur :
             \/ f \notin Known(l[1]) /\ ConfigEnds(l, "dead") /\ UNCHANGED shares
             \/ SetReader(l, "lookup", reader[l].todo, {})
      BY <1>6 DEF ShareFolder
    <2>3. CASE f \notin Known(l[1]) /\ ConfigEnds(l, "dead") /\ UNCHANGED shares
      BY <1>4, <1>6, <2>1, <2>3 DEF ShareFolder, Guarded, history
    <2>4. CASE SetReader(l, "lookup", reader[l].todo, {})
      <3>1. reader'[l].at = "lookup" /\ reader'[l].todo = reader[l].todo /\ reader'[l].cur = {}
        BY <2>4, SetReaderIs
      <3> QED  BY <1>1, <2>1, <3>1 DEF Guarded, Reverse
    <2> QED  BY <2>2, <2>3, <2>4
  <1> QED  BY <1>2, <1>3, <1>5, <1>6

\* Every other step leaves the reader alone, or has it stop or wait.
LEMMA OtherStepGuarded ==
    ASSUME TypeInv, Upright, Upright', [Next]_vars, NEW l \in Link, Guarded(l),
           ~(ReadConfig(l) \/ LookupFolder(l) \/ AddFolder(l) \/ ShareFolder(l))
    PROVE  Guarded(l)'
  <1>0. Reverse(l) \in Link
    BY LinkEnds
  <1>1. CASE reader'[l] = reader[l] /\ UNCHANGED <<conn, told>>
    BY <1>1, GuardedStays
  <1>2. CASE UserStep
    BY <1>1, <1>2, UserLeavesLinks
  <1>3. ASSUME NEW m \in Link, Gone({m, Reverse(m)})
        PROVE  Guarded(l)'
    <2>1. \/ reader'[l] = ReaderOff
          \/ /\ reader'[l] = reader[l]
             /\ conn'[Reverse(l)] = "up" =>
                   conn[Reverse(l)] = "up" /\ told'[Reverse(l)] = told[Reverse(l)]
      BY <1>0, <1>3 DEF Gone
    <2> QED  BY <2>1, ReaderOffIsReader, IdleGuarded, GuardedStays DEF Handling
  <1>4. ASSUME NEW m \in Link, Dial(m) PROVE Guarded(l)'
    <2>1. UNCHANGED <<reader, told>> /\ (conn'[Reverse(l)] = "up" => conn[Reverse(l)] = "up")
      BY <1>0, <1>4 DEF Dial
    <2> QED  BY <2>1, GuardedStays
  <1>5. ASSUME NEW m \in Link, Verify(m), ~Gone({m, Reverse(m)}) PROVE Guarded(l)'
    <2>1. UNCHANGED <<reader, told>> /\ conn' = [conn EXCEPT ![m] = "index"]
      BY <1>5 DEF Verify
    <2>2. conn'[Reverse(l)] = "up" => conn[Reverse(l)] = "up"
      BY <1>0, <2>1 DEF TypeInv, OfferInv, OfferTypes
    <2> QED  BY <2>1, <2>2, GuardedStays
  <1>6. ASSUME NEW m \in Link, FirstIndex(m), ~Gone({m, Reverse(m)}) PROVE Guarded(l)'
    <2>1. /\ UNCHANGED told /\ conn' = [conn EXCEPT ![m] = "config"]
          /\ reader' = [reader EXCEPT ![m].at = "config"]
      BY <1>6 DEF FirstIndex
    <2>2. conn'[Reverse(l)] = "up" => conn[Reverse(l)] = "up"
      BY <1>0, <2>1 DEF TypeInv, OfferInv, OfferTypes
    <2>3. reader'[l] = reader[l] \/ reader'[l].at = "config"
      BY <2>1 DEF TypeInv, OfferInv, OfferTypes, Reader
    <2> QED  BY <2>1, <2>2, <2>3, IdleGuarded, GuardedStays DEF Handling
  <1>7. ASSUME NEW m \in Link, ClusterConfig(m) PROVE Guarded(l)'
    <2>1. /\ UNCHANGED reader /\ conn[m] = "config"
          /\ \A k \in Link \ {m} : conn'[k] = conn[k] /\ told'[k] = told[k]
      BY <1>7 DEF ClusterConfig, TypeInv, OfferInv, OfferTypes
    <2>2. CASE m = Reverse(l)
      BY <2>1, <2>2, IdleGuarded DEF Upright, Handling
    <2>3. CASE m # Reverse(l)
      BY <1>0, <2>1, <2>3, GuardedStays
    <2> QED  BY <2>2, <2>3
  <1>8. ASSUME NEW m \in Link, ReaderStep(m) PROVE Guarded(l)'
    <2>1. CASE ReadIndex(m)
      BY <1>1, <2>1 DEF ReadIndex
    <2>2. CASE ReadConfig(m) \/ LookupFolder(m) \/ AddFolder(m) \/ ShareFolder(m)
      <3>1. UNCHANGED <<conn, told>> /\ m # l
        BY <2>2 DEF ReadConfig, LookupFolder, AddFolder, ShareFolder
      <3>2. \E at, todo, cur : SetReader(m, at, todo, cur)
        BY <2>2 DEF ReadConfig, LookupFolder, AddFolder, ShareFolder, ConfigEnds
      <3>3. reader'[l] = reader[l]
        BY <3>1, <3>2, SetReaderIs
      <3> QED  BY <1>1, <3>1, <3>3
    <2> QED  BY <1>8, <2>1, <2>2 DEF ReaderStep
  <1>9. ASSUME NEW m \in Link, WatchStep(m) PROVE Guarded(l)'
    BY <1>1, <1>9 DEF WatchStep, WatchStart, WatchEvent, ScanFolder
  <1>10. ASSUME NEW d \in Device, TaskStep(d) PROVE Guarded(l)'
    BY <1>1, <1>10 DEF TaskStep, LookupIndex, MergeIndex, GetDirectory, HandleRequest,
                       GotFile, DirectoryUpdated, link
  <1>11. CASE UNCHANGED vars
    BY <1>1, <1>11 DEF vars, link
  <1>12. ASSUME NEW m \in Link, ConnStep(m) \/ Dial(m) \/ Disconnect(m) PROVE Guarded(l)'
    BY <1>3, <1>4, <1>5, <1>6, <1>7, <1>12 DEF ConnStep, Disconnect
  <1> QED  BY <1>2, <1>8, <1>9, <1>10, <1>11, <1>12 DEF Next, SystemStep

(***************************************************************************)
(* A reader that has panicked over a ClusterConfig, and left a connection  *)
(* that nobody reads from, was told of a folder which the user or another  *)
(* peer has meddled with: one peer's offers alone, however often it        *)
(* connects and is cut off in the middle of them, end no reader.           *)
(***************************************************************************)
THEOREM ReaderPanicsForCause == Spec => []PanicForCause
  <1> DEFINE Inv == TypeInv /\ Upright /\ AllGuarded
  <1>1. Init => Inv
    <2> SUFFICES ASSUME Init PROVE Inv
      OBVIOUS
    <2>1. \A l \in Link : reader[l].at = "off"
      BY ReaderOffIsReader DEF Init
    <2> QED  BY <2>1, InitTypes, InitUpright DEF AllGuarded, Guarded, Handling
  <1>2. Inv /\ [Next]_vars => Inv'
    <2> SUFFICES ASSUME Inv, [Next]_vars PROVE Inv'
      OBVIOUS
    <2>1. TypeInv' /\ Upright'
      BY NextTypes, NextUpright
    <2>2. ASSUME NEW l \in Link PROVE Guarded(l)'
      BY <2>1, OwnStepGuarded, OtherStepGuarded DEF AllGuarded
    <2> QED  BY <2>1, <2>2 DEF AllGuarded
  <1>3. Inv => PanicForCause
    BY DEF AllGuarded, Guarded, PanicForCause
  <1> QED  BY <1>1, <1>2, <1>3, PTL DEF Spec
=============================================================================
