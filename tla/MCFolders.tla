------------------------------ MODULE MCFolders ------------------------------
(* Instances of Folders for TLC. *)
EXTENDS Folders, TLC

CONSTANTS d1, d2,  \* devices
          f1       \* a folder

Pair == {<<d1, d2>>, <<d2, d1>>}

\* d2 has yet to add d1; d1 watches.
OneKnows == (d1 :> {d2}) @@ (d2 :> {})
WatchOne == {<<d1, d2>>}

OneOwner == {<<d1, f1>>}
Both     == {<<d1, f1>>, <<d2, f1>>}
=============================================================================
