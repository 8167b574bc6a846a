---------------------------- MODULE MCFolderSync ----------------------------
(* Instances of FolderSync for TLC. *)
EXTENDS FolderSync, TLC

CONSTANTS d1, d2, d3,  \* devices
          x, y, z,     \* blocks
          w1, w2       \* handlers of messages

Pair  == {<<d1, d2>>, <<d2, d1>>}
Chain == Pair \cup {<<d2, d3>>, <<d3, d2>>}

OneFile  == {<<x>>}
OneBlock == {<<x>>, <<y>>}
TwoBlock == {<<x, y>>}
OneBlockOrRemoved   == OneBlock \cup {Absent}
MixedBlockOrRemoved == {<<x>>, <<x, y>>, Absent}

\* Two devices that both edit are alike.
Alike == Permutations({d1, d2})

\* ... and so are the handlers of messages.
AllAlike == Alike \cup Permutations({w1, w2})
=============================================================================
