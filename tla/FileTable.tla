------------------------------ MODULE FileTable ------------------------------
(***************************************************************************)
(* What the rest of the program takes the table of a folder to be: a list  *)
(* of rows that is read in one step and updated in one step, whoever else  *)
(* is at work.  FolderSync is written with these steps.  The one thing the *)
(* code does not promise is that an update survives the end of the process *)
(* as a whole: what is left of it is one of the tables in Torn.            *)
(***************************************************************************)
EXTENDS SyncFiles

CONSTANTS Caller,  \* the tasks that read and update the table
          Row      \* the rows they store

VARIABLES table,  \* the rows
          seen    \* seen[c]: what c has read last, if it has read
-----------------------------------------------------------------------------
Init == table = <<>> /\ seen = [c \in Caller |-> <<>>]

Read(c) == seen' = [seen EXCEPT ![c] = <<table>>] /\ UNCHANGED table

Update ==
    /\ \E id \in 0..Len(table), f \in Row :
          table' = UpdateSyncFile(table, id, f)
    /\ UNCHANGED seen

Restart ==
    /\ \/ UNCHANGED table
       \/ \E id \in 0..Len(table), f \in Row : table' \in Torn(table, id, f)
    /\ seen' = [c \in Caller |-> <<>>]

Next == (\E c \in Caller : Read(c)) \/ Update \/ Restart

Spec == Init /\ [][Next]_<<table, seen>>
=============================================================================
