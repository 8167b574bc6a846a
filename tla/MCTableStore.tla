---------------------------- MODULE MCTableStore ----------------------------
(* Instances of TableStore for TLC. *)
EXTENDS TableStore, TLC

CONSTANTS d1, d2,  \* devices
          x, y,    \* blocks
          n1, n2   \* names

Kept(n, c, vs) == [name |-> n, hash |-> FileHash(c), synced |-> Len(vs) - 1,
                   versions |-> vs, blocks |-> GenBlocks(c)]
By(u, v) == [user |-> u, val |-> v]

\* A file that two devices go on from differently, and another file: what scans
\* and Indexes may store.
Rows == {Kept(n1, <<x>>, <<By(d1, 0)>>),
         Kept(n1, <<x, y>>, <<By(d1, 0), By(d1, 1)>>),
         Kept(n1, <<y>>, <<By(d1, 0), By(d2, 1)>>),
         Kept(n2, <<x>>, <<By(d2, 0)>>)}
=============================================================================
