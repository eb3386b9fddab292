-------------------------------- MODULE Codec --------------------------------
(***************************************************************************)
(* src/compress.rs, and the limit on the length of a frame from            *)
(* src/support_protocols.rs: how a message travels over the Sync protocol. *)
(* The sender compresses it (before_send), the frame codec refuses what is *)
(* too long, the receiver decompresses it (before_receive).                *)
(*                                                                         *)
(* A byte string is known by its length and by what snappy makes of it;    *)
(* the snappy library is external, and trusted to decode what it encoded.  *)
(***************************************************************************)
EXTENDS Naturals, Sequences

CONSTANTS
    Bytes,                        \* byte strings
    Length,                       \* their lengths
    Encoded,                      \* what snappy encodes them to, or Fail
    Decoded,                      \* what snappy decodes them to, or Fail
    Announced,                    \* what decompress_len reads from them, or Fail
    Fail,                         \* an error
    Foreign,                      \* in place of a message that a peer made up
    COMPRESSION_SIZE_THRESHOLD,
    MAX_UNCOMPRESSED_LEN,
    max_frame_length,             \* of SupportProtocols::Sync
    Data,                         \* the messages the local side may send
    Flags,                        \* the flag bytes that a peer may send
    MaxWire                       \* bound on the frames on the way

Byte == 0 .. 255
\* The empty frame, or a flag byte and a payload.
Frame == {<<>>} \cup (Byte \X Bytes)

ASSUME CodecAssumption ==
    /\ Length \in [Bytes -> Nat]
    /\ Encoded \in [Bytes -> Bytes \cup {Fail}]
    /\ Decoded \in [Bytes -> Bytes \cup {Fail}]
    /\ Announced \in [Bytes -> Nat \cup {Fail}]
    /\ Fail \notin Bytes \cup Nat
    /\ Foreign \notin Bytes
    /\ COMPRESSION_SIZE_THRESHOLD \in Nat
    /\ MAX_UNCOMPRESSED_LEN \in Nat
    /\ max_frame_length \in Nat
    /\ Data \subseteq Bytes
    /\ Flags \subseteq Byte
    /\ MaxWire \in Nat

\* What snappy promises: decoding undoes encoding, and decodes to as many
\* bytes as the header announces.
ASSUME SnappyAssumption ==
    \A b \in Bytes :
        /\ Encoded[b] # Fail => Decoded[Encoded[b]] = b
        /\ Decoded[b] # Fail => Announced[b] = Length[Decoded[b]]

------------------------------------------------------------------------------

UNCOMPRESS_FLAG == 0
COMPRESS_FLAG == 128

FrameLength(f) == IF f = <<>> THEN 0 ELSE 1 + Length[f[2]]

from_raw(b) == <<UNCOMPRESS_FLAG, b>>

\* Mutant: the flag is not set.
compress_unflagged(b) ==
    IF FrameLength(from_raw(b)) > COMPRESSION_SIZE_THRESHOLD /\ Encoded[b] # Fail
    THEN <<UNCOMPRESS_FLAG, Encoded[b]>> ELSE from_raw(b)

\* A message that snappy fails to encode is sent as it is.
compress(b) ==
    IF FrameLength(from_raw(b)) > COMPRESSION_SIZE_THRESHOLD /\ Encoded[b] # Fail
    THEN <<COMPRESS_FLAG, Encoded[b]>> ELSE from_raw(b)

\* (flag & 0b1000_0000) != 0
compress_flag(f) == f[1] \div COMPRESS_FLAG = 1

\* Mutant: the announced length is not checked.
decompress_any(f) ==
    IF f = <<>> THEN Fail
    ELSE IF compress_flag(f) THEN Decoded[f[2]] ELSE f[2]

decompress(f) ==
    IF f = <<>> THEN Fail
    ELSE IF ~compress_flag(f) THEN f[2]
    ELSE IF Announced[f[2]] = Fail THEN Fail
    ELSE IF Announced[f[2]] > MAX_UNCOMPRESSED_LEN THEN Fail
    ELSE Decoded[f[2]]

\* The length-delimited codec of tokio, with its limit on either side.
Fits(f) == FrameLength(f) <= max_frame_length

------------------------------------------------------------------------------

VARIABLES
    sent,    \* history: the messages that were sent and not received yet
    wire,    \* the frames on the way
    got      \* the last message received, or Fail, and what had been sent

vars == <<sent, wire, got>>

Init == sent = <<>> /\ wire = <<>> /\ got = [msg |-> Fail, of |-> Foreign]

\* A frame that is too long is refused by the codec.
Send(b) ==
    /\ Len(wire) < MaxWire /\ Fits(compress(b))
    /\ wire' = Append(wire, compress(b)) /\ sent' = Append(sent, b)
    /\ UNCHANGED got

\* A peer may send any frame.
PeerSends(f) ==
    /\ Len(wire) < MaxWire /\ Fits(f)
    /\ wire' = Append(wire, f) /\ sent' = Append(sent, Foreign)
    /\ UNCHANGED got

Receive ==
    /\ wire # <<>>
    /\ got' = [msg |-> decompress(Head(wire)), of |-> Head(sent)]
    /\ wire' = Tail(wire) /\ sent' = Tail(sent)

Next ==
    \/ \E b \in Data : Send(b)
    \/ \E f \in {<<>>} \cup (Flags \X Bytes) : PeerSends(f)
    \/ Receive

Spec == Init /\ [][Next]_vars

------------------------------------------------------------------------------
(* Properties *)

\* A message that is sent arrives unchanged, whatever its length, also when
\* it is empty or cannot be compressed, unless it is longer than what the
\* receiver is willing to decompress: such a message is sent, if it is short
\* enough once compressed, and refused.
SentIsReceived ==
    got.of # Foreign =>
        got.msg = got.of \/ (got.msg = Fail /\ Length[got.of] > MAX_UNCOMPRESSED_LEN)

\* No frame, whatever its flag and its payload, makes the receiver allocate
\* more than the longest frame or the longest decompressed message.
ReceivedIsBounded ==
    got.msg # Fail => \/ Length[got.msg] <= MAX_UNCOMPRESSED_LEN
                      \/ Length[got.msg] < max_frame_length
==============================================================================
