------------------------------- MODULE MCData -------------------------------
(* The parts that work on bytes, each with an instance of its own: a        *)
(* behaviour is one of a transfer, of a device id or of a stream.           *)
EXTENDS BlockTransfer, DeviceId, Framing

vars == <<bvars, ivars, fvars>>

\* get_blocksize with three sizes of blocks.
TierSizes == <<[below |-> 7, block |-> 2], [below |-> 12, block |-> 4]>>
OneTier   == <<[below |-> 7, block |-> 4]>>

Alphabet == <<"A", "B", "2", "3">>

Magic == <<1, 2, 3, 0>>
Other == <<1, 2, 3, 1>>
HelloSet == {<<>>, <<3, 1>>}

\* With and without a body, compressed or not, and two that are not known.
MessageSet == {[type |-> ClusterConfig, compression |-> None, body |-> <<2>>],
               [type |-> 6, compression |-> None, body |-> <<>>],
               [type |-> 3, compression |-> Lz4, body |-> <<1, 0, 3>>],
               [type |-> Close, compression |-> None, body |-> <<1>>],
               [type |-> 5, compression |-> None, body |-> <<1>>],
               [type |-> ClusterConfig, compression |-> 2, body |-> <<1>>]}

NoTransfer == source = <<>> /\ ended = "never" /\ changes = 0

Transfer == /\ id = <<>> /\ magic = <<>>
            /\ BNext
            /\ UNCHANGED <<ivars, fvars>>
Ids      == /\ NoTransfer /\ magic = <<>>
            /\ INext
            /\ UNCHANGED <<bvars, fvars>>
Stream   == /\ NoTransfer /\ id = <<>>
            /\ FNext
            /\ UNCHANGED <<bvars, ivars>>

Init == BInit /\ IInit /\ FInit
Next == Transfer \/ Ids \/ Stream
Spec == Init /\ [][Next]_vars
=============================================================================
