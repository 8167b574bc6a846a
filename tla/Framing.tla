------------------------------- MODULE Framing -------------------------------
(***************************************************************************)
(* What goes over a connection: a Hello, then messages with a header each  *)
(* (items.rs), written by the peer and taken off the stream by             *)
(* handle_reading (handlers.rs) in reads of an exact length.               *)
(*                                                                         *)
(* Bytes are digits to the base Base (256).  Protobuf is the crate prost:  *)
(* a field with its default value takes no bytes, so the header of a       *)
(* ClusterConfig and the body of a Ping are empty.                         *)
(***************************************************************************)
EXTENDS Integers, Sequences

CONSTANTS Base,       \* 256
          HELLO_MAGIC,\* four bytes
          OtherMagic, \* what another protocol starts with
          Hellos,     \* encoded Hellos
          Outgoing,   \* the messages that a peer may send
          MaxSent     \* how many of them

\* Message types and compressions of items.proto; those after them are not
\* known to the code.
ClusterConfig == 0
Close         == 7
Known         == {0, 1, 2, 3, 4, 6, 7}
None == 0
Lz4  == 1

ASSUME FramingAssumption ==
    /\ Base \in Nat \ 0..2 /\ MaxSent \in Nat
    /\ HELLO_MAGIC \in Seq(Nat) /\ OtherMagic \in Seq(Nat)
    /\ Len(HELLO_MAGIC) = 4 /\ Len(OtherMagic) = 4 /\ HELLO_MAGIC # OtherMagic
    /\ Hellos \subseteq Seq(Nat) /\ \A h \in Hellos : Len(h) < Base * Base
    /\ Outgoing \subseteq [type : Nat, compression : Nat, body : Seq(Nat)]
    /\ \A m \in Outgoing : Len(m.body) + 1 < Base * Base * (Base * Base)

VARIABLES sent,     \* the messages that were written
          flying,   \* bytes that were written and have not arrived
          wire,     \* bytes that have arrived and were not read
          cut,      \* the connection is gone, nothing more arrives
          phase,    \* what handle_reading reads next
          header,   \* the header before the message it reads
          magic,    \* what the peer started with
          got       \* the messages it has handed on

fvars == <<sent, flying, wire, cut, phase, header, magic, got>>
-----------------------------------------------------------------------------
\* to_be_bytes of a u16 or u32, the latter as two halves, and read_u16, read_u32.
ToU16(n) == <<(n \div Base) % Base, n % Base>>
ToU32(n) == ToU16(n \div (Base * Base)) \o ToU16(n)
FromU16(s) == s[1] * Base + s[2]
FromU32(s) == FromU16(s) * (Base * Base) + s[3] * Base + s[4]

\* Header::encode_to_vec: tag and value of each field that is not 0.
TypeTag        == 8
CompressionTag == 16
Encoded(tag, value) == IF value = 0 THEN <<>> ELSE <<tag, value>>
EncodeHeader(h) ==
    Encoded(TypeTag, h.type) \o Encoded(CompressionTag, h.compression)
Decoded(s, tag) ==
    LET tags == {i \in 1..Len(s) : i % 2 = 1 /\ s[i] = tag}
    IN  IF tags = {} THEN 0 ELSE s[1 + CHOOSE i \in tags : TRUE]
DecodeHeader(s) == [type        |-> Decoded(s, TypeTag),
                    compression |-> Decoded(s, CompressionTag)]

\* A block of LZ4 starts with the length of what is compressed.
Compressed(body)  == <<Len(body)>> \o body
Decompressed(s)   == Tail(s)
Body(m) == IF m.compression = Lz4 THEN Compressed(m.body) ELSE m.body

\* Faulty variant: the length of the body has two bytes, like the others.
EncodeShort(m) ==
    LET h == EncodeHeader(m)
    IN  ToU16(Len(h)) \o h \o ToU16(Len(Body(m))) \o Body(m)

\* encode_for_bep: header and body, each after its length.  bep-rs itself sends
\* nothing compressed.
EncodeForBep(m) ==
    LET h == EncodeHeader(m)
    IN  ToU16(Len(h)) \o h \o ToU32(Len(Body(m))) \o Body(m)
-----------------------------------------------------------------------------
FInit == /\ sent = <<>> /\ flying = <<>> /\ wire = <<>> /\ got = <<>>
         /\ cut = FALSE
         /\ phase = "magic" /\ magic = <<>>
         /\ header = DecodeHeader(<<>>)

\* send_hello, or another protocol on the same port.
SendHello == /\ magic = <<>>
             /\ magic' \in {HELLO_MAGIC, OtherMagic}
             /\ \E h \in Hellos : flying' = magic' \o ToU16(Len(h)) \o h
             /\ UNCHANGED <<sent, wire, cut, phase, header, got>>

\* write_message of one message.
SendMessage == /\ magic # <<>> /\ Len(sent) < MaxSent
               /\ \E m \in Outgoing : /\ sent' = Append(sent, m)
                                      /\ flying' = flying \o EncodeForBep(m)
               /\ UNCHANGED <<wire, cut, phase, header, magic, got>>

\* The network delivers some of the bytes, in order, or nothing more at all.
Deliver == /\ ~cut /\ flying # <<>>
           /\ \E k \in {1, Len(flying)} :
                 /\ wire' = wire \o SubSeq(flying, 1, k)
                 /\ flying' = SubSeq(flying, k + 1, Len(flying))
           /\ UNCHANGED <<sent, cut, phase, header, magic, got>>
Cut == /\ magic # <<>> /\ ~cut
       /\ cut' = TRUE
       /\ UNCHANGED <<sent, flying, wire, phase, header, magic, got>>

\* read_exact of a length of k bytes, and of as many bytes as it says.
Length(k)     == IF k = 2 THEN FromU16(wire) ELSE FromU32(wire)
Prefixed(k)   == Len(wire) >= k /\ Len(wire) >= k + Length(k)
Payload(k)    == SubSeq(wire, k + 1, k + Length(k))
RestAfter(k)  == SubSeq(wire, k + Length(k) + 1, Len(wire))

\* receive_hello.
ReceiveMagic == /\ phase = "magic" /\ Len(wire) >= 4
                /\ phase' = IF SubSeq(wire, 1, 4) = HELLO_MAGIC THEN "hello" ELSE "failed"
                /\ wire' = SubSeq(wire, 5, Len(wire))
                /\ UNCHANGED <<sent, flying, cut, header, magic, got>>
ReceiveHello == /\ phase = "hello" /\ Prefixed(2)
                /\ phase' = "header"
                /\ wire' = RestAfter(2)
                /\ UNCHANGED <<sent, flying, cut, header, magic, got>>

\* Faulty variant: an empty header counts as the end of the stream.
ReadFrameHeaderNonEmpty ==
    /\ phase = "header" /\ Prefixed(2)
    /\ header' = DecodeHeader(Payload(2))
    /\ wire' = RestAfter(2)
    /\ phase' = IF /\ Payload(2) # <<>>
                   /\ header'.compression \in {None, Lz4} /\ header'.type \in Known
                THEN "message" ELSE "failed"
    /\ UNCHANGED <<sent, flying, cut, magic, got>>

\* The header of the next message; a type or a compression that is not known
\* ends the loop before the message is read.
ReadFrameHeader ==
    /\ phase = "header" /\ Prefixed(2)
    /\ header' = DecodeHeader(Payload(2))
    /\ wire' = RestAfter(2)
    /\ phase' = IF header'.compression \in {None, Lz4} /\ header'.type \in Known
                THEN "message" ELSE "failed"
    /\ UNCHANGED <<sent, flying, cut, magic, got>>

\* receive_message; after a Close nothing more is read.
ReceiveMessage ==
    /\ phase = "message" /\ Prefixed(4)
    /\ LET body == IF header.compression = Lz4 THEN Decompressed(Payload(4))
                   ELSE Payload(4)
       IN  got' = Append(got, [type |-> header.type, compression |-> header.compression,
                               body |-> body])
    /\ wire' = RestAfter(4)
    /\ phase' = IF header.type = Close THEN "closed" ELSE "header"
    /\ UNCHANGED <<sent, flying, cut, header, magic>>

\* read_exact at the end of a stream that stops half-way.
ReadFails == /\ cut
             /\ \/ phase = "magic" /\ Len(wire) < 4
                \/ phase \in {"hello", "header"} /\ ~Prefixed(2)
                \/ phase = "message" /\ ~Prefixed(4)
             /\ phase' = "failed"
             /\ UNCHANGED <<sent, flying, wire, cut, header, magic, got>>

FNext == \/ SendHello \/ SendMessage \/ Deliver \/ Cut
         \/ ReceiveMagic \/ ReceiveHello \/ ReadFrameHeader \/ ReceiveMessage \/ ReadFails

FSpec == FInit /\ [][FNext]_fvars
-----------------------------------------------------------------------------
\* What the reader hands on is what the peer has sent, in order and without a
\* gap, wherever the stream is cut into pieces or ends (handlers.rs:287).
ReadsWhatWasSent == /\ Len(got) <= Len(sent)
                    /\ got = SubSeq(sent, 1, Len(got))

\* The reader gives up for a reason only: the stream has ended, the peer speaks
\* another protocol, or the message it is at has a header it does not know.
FailsForCause ==
    phase = "failed" =>
        \/ cut
        \/ magic = OtherMagic
        \/ /\ Len(sent) > Len(got)
           /\ LET m == sent[Len(got) + 1]
              IN  m.type \notin Known \/ m.compression \notin {None, Lz4}
=============================================================================
