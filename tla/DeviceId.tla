------------------------------ MODULE DeviceId ------------------------------
(***************************************************************************)
(* Device ids as users copy them (device_id.rs): base 32, a check          *)
(* character after every part, and dashes between chunks.                  *)
(*                                                                         *)
(* BASE32 of the crate data-encoding turns the 32 bytes into characters;   *)
(* an id is the sequence of the groups of bits that a character stands for.*)
(***************************************************************************)
EXTENDS Integers, SequencesExt

CONSTANTS LUHN32,   \* the alphabet, a sequence: 32 characters in the code
          Unknown,  \* a character that is not in it
          Dash,
          Parts,    \* 4
          PartLen,  \* 13
          ChunkLen  \* 7

ASSUME IdAssumption ==
    /\ LUHN32 \in Seq(Range(LUHN32)) /\ IsInjective(LUHN32)
    /\ Len(LUHN32) % 2 = 0 /\ Len(LUHN32) > 0
    /\ {Dash, Unknown} \cap Range(LUHN32) = {} /\ Dash # Unknown
    /\ {Parts, PartLen, ChunkLen} \subseteq Nat \ {0}
    /\ (Parts * (PartLen + 1)) % ChunkLen = 0

VARIABLES id,      \* the groups of an id, none before it is shown
          typed,   \* the text as a user passes it on
          slips,   \* how many characters were mistyped
          parsed   \* what deviceid_from_string returned, or that it panicked

ivars == <<id, typed, slips, parsed>>

Waiting   == <<>>
Read(i)   == <<i>>
Rejected  == Read(<<>>)   \* an assertion or an unwrap has failed
N == Len(LUHN32)
-----------------------------------------------------------------------------
\* BASE32.encode, group by group, and BASE32_NOPAD.decode.
Base32(groups) == [i \in DOMAIN groups |-> LUHN32[groups[i] + 1]]

\* codepoint32 panics on a character outside the alphabet.
InAlphabet(s) == Range(s) \subseteq Range(LUHN32)
Codepoint32(c) == (CHOOSE i \in 1..N : LUHN32[i] = c) - 1

\* Faulty variant: all characters have the same factor and no carry.
AddendPlain(i, c) == 2 * Codepoint32(c)

\* The factor is 1 for the first character and 2 for every other one, and the
\* two digits of a product in base N are added.
Addend(i, c) == LET a == (IF i % 2 = 1 THEN 1 ELSE 2) * Codepoint32(c)
                IN  (a \div N) + (a % N)

\* The sums over the first k characters.
Sums(s) == LET sum[k \in 0..Len(s)] ==
                   IF k = 0 THEN 0 ELSE sum[k - 1] + Addend(k, s[k])
           IN  sum
SyncthingLuhn32(s) == LUHN32[((N - (Sums(s)[Len(s)] % N)) % N) + 1]

Part(s, i, len) == SubSeq(s, i * len + 1, (i + 1) * len)

\* luhnify: after each part its check character.
Luhnify(s) ==
    [i \in 1..(Parts * (PartLen + 1)) |->
        LET k == (i - 1) \div (PartLen + 1)
        IN  IF i % (PartLen + 1) = 0 THEN SyncthingLuhn32(Part(s, k, PartLen))
            ELSE s[i - k]]

\* Faulty variant: parts of the length that they have without check characters.
LuhnifiedShort(s) ==
    /\ Len(s) >= Parts * PartLen
    /\ \A k \in 1..Parts :
          LET part == Part(s, k - 1, PartLen)
          IN  InAlphabet(Front(part)) /\ Last(part) = SyncthingLuhn32(Front(part))

\* unluhnify: what remains, and the conditions under which it does not panic.
\* Characters after the last part are ignored.
Unluhnify(s) ==
    [i \in 1..(Parts * PartLen) |-> s[i + (i - 1) \div PartLen]]
Luhnified(s) ==
    /\ Len(s) >= Parts * (PartLen + 1)
    /\ \A k \in 1..Parts :
          LET part == Part(s, k - 1, PartLen + 1)
          IN  InAlphabet(Front(part)) /\ Last(part) = SyncthingLuhn32(Front(part))

\* chunkify: a dash after each chunk but the last; the length is a multiple.
Chunkify(s) ==
    LET chunks == Len(s) \div ChunkLen
    IN  [i \in 1..(chunks * (ChunkLen + 1) - 1) |->
            IF i % (ChunkLen + 1) = 0 THEN Dash
            ELSE s[i - i \div (ChunkLen + 1)]]

\* What remains of the first k characters without the dashes.
Kept(s) == LET kept[k \in 0..Len(s)] ==
                   IF k = 0 THEN <<>>
                   ELSE IF s[k] = Dash THEN kept[k - 1] ELSE Append(kept[k - 1], s[k])
           IN  kept
Unchunkify(s) == Kept(s)[Len(s)]
-----------------------------------------------------------------------------
IInit == id = <<>> /\ typed = <<>> /\ slips = 0 /\ parsed = Waiting

\* deviceid_to_string.
DeviceidToString ==
    /\ id = <<>>
    /\ id' \in [1..(Parts * PartLen) -> 0..(N - 1)]
    /\ typed' = Chunkify(Luhnify(Base32(id')))
    /\ UNCHANGED <<slips, parsed>>

\* A user gets one character wrong, or leaves a dash out.
Mistype == /\ typed # <<>> /\ slips = 0 /\ parsed = Waiting
           /\ \E i \in 1..Len(typed) :
                \/ /\ typed[i] # Dash
                   /\ \E c \in (Range(LUHN32) \cup {Unknown}) \ {typed[i]} :
                         typed' = [typed EXCEPT ![i] = c]
                   /\ slips' = 1
                \/ /\ typed[i] = Dash
                   /\ typed' = RemoveAt(typed, i)
                   /\ UNCHANGED slips
           /\ UNCHANGED <<id, parsed>>

\* deviceid_from_string.
DeviceidFromString ==
    /\ typed # <<>> /\ parsed = Waiting
    /\ LET s == Unchunkify(typed)
       IN  parsed' = IF Luhnified(s)
                     THEN Read([i \in 1..(Parts * PartLen) |-> Codepoint32(Unluhnify(s)[i])])
                     ELSE Rejected
    /\ UNCHANGED <<id, typed, slips>>

INext == DeviceidToString \/ Mistype \/ DeviceidFromString

ISpec == IInit /\ [][INext]_ivars
-----------------------------------------------------------------------------
\* An id that is passed on without a mistake, with or without its dashes, is
\* read as the same id (device_id.rs:79).
IdRoundTrip == (parsed # Waiting /\ slips = 0) => parsed = Read(id)

\* One wrong character, a check character included, never gives an id: the
\* factors of syncthing_luhn32 tell every two characters apart at any place.
MistypedIdRejected == (parsed # Waiting /\ slips = 1) => parsed = Rejected
=============================================================================
