----------------------------- MODULE CodecProofs -----------------------------
(***************************************************************************)
(* What Codec promises, for every snappy that keeps SnappyAssumption and   *)
(* for every choice of the limits.                                         *)
(***************************************************************************)
EXTENDS Codec, TLAPS

LEMMA Flagged == 128 \div 128 = 1 /\ 0 \div 128 = 0
  BY SMT

LEMMA CompressType == \A b \in Bytes : compress(b) \in Frame
  BY CodecAssumption DEF compress, from_raw, FrameLength, Frame, Byte,
     UNCOMPRESS_FLAG, COMPRESS_FLAG

LEMMA DecompressType == \A f \in Frame : decompress(f) \in Bytes \cup {Fail}
  BY CodecAssumption DEF decompress, Frame, Byte, compress_flag

\* decompress undoes compress on every message that is not too long, and
\* refuses those of the others that are compressed.
THEOREM RoundTrip ==
    \A b \in Bytes :
        \/ decompress(compress(b)) = b
        \/ decompress(compress(b)) = Fail /\ Length[b] > MAX_UNCOMPRESSED_LEN
  <1> SUFFICES ASSUME NEW b \in Bytes
               PROVE  \/ decompress(compress(b)) = b
                      \/ /\ decompress(compress(b)) = Fail
                         /\ Length[b] > MAX_UNCOMPRESSED_LEN
    OBVIOUS
  <1>1. CASE compress(b) = <<UNCOMPRESS_FLAG, b>>
    <2>1. ~compress_flag(compress(b)) /\ compress(b) # <<>>
      BY <1>1, Flagged DEF compress_flag, UNCOMPRESS_FLAG, COMPRESS_FLAG
    <2> QED
      BY <1>1, <2>1 DEF decompress
  <1>2. CASE compress(b) = <<COMPRESS_FLAG, Encoded[b]>> /\ Encoded[b] # Fail
    <2>1. compress_flag(compress(b)) /\ compress(b) # <<>>
      BY <1>2, Flagged DEF compress_flag, COMPRESS_FLAG
    <2>2. Encoded[b] \in Bytes /\ b # Fail /\ Length[b] \in Nat
      BY <1>2, CodecAssumption
    <2>3. Decoded[Encoded[b]] = b
      BY <1>2, SnappyAssumption
    <2>4. Announced[Encoded[b]] = Length[b]
      BY <2>2, <2>3, SnappyAssumption
    <2>5. Announced[Encoded[b]] # Fail
      BY <2>2, <2>4, CodecAssumption
    <2>6. compress(b)[2] = Encoded[b]
      BY <1>2
    <2> QED
      BY <2>1, <2>2, <2>3, <2>4, <2>5, <2>6, CodecAssumption DEF decompress
  <1> QED
    BY <1>1, <1>2 DEF compress, from_raw

\* What decompress returns is bounded by the limit on decompressed messages
\* or, when the frame is not compressed, by the length of the frame.
LEMMA DecompressBounded ==
    \A f \in Frame : Fits(f) /\ decompress(f) # Fail =>
        \/ Length[decompress(f)] <= MAX_UNCOMPRESSED_LEN
        \/ Length[decompress(f)] < max_frame_length
  <1> SUFFICES ASSUME NEW f \in Frame, Fits(f), decompress(f) # Fail
               PROVE  \/ Length[decompress(f)] <= MAX_UNCOMPRESSED_LEN
                      \/ Length[decompress(f)] < max_frame_length
    OBVIOUS
  <1>1. f # <<>> /\ f[2] \in Bytes
    BY DEF decompress, Frame
  <1>2. CASE ~compress_flag(f)
    <2>1. decompress(f) = f[2]
      BY <1>1, <1>2 DEF decompress
    <2>2. 1 + Length[f[2]] <= max_frame_length
      BY <1>1 DEF Fits, FrameLength
    <2>3. Length[f[2]] \in Nat /\ max_frame_length \in Nat
      BY <1>1, CodecAssumption
    <2> QED
      BY <2>1, <2>2, <2>3
  <1>3. CASE compress_flag(f)
    <2>1. /\ decompress(f) = Decoded[f[2]]
          /\ ~(Announced[f[2]] > MAX_UNCOMPRESSED_LEN)
      BY <1>1, <1>3 DEF decompress
    <2>2. Announced[f[2]] = Length[Decoded[f[2]]]
      BY <1>1, <2>1, SnappyAssumption
    <2>3. Length[Decoded[f[2]]] \in Nat /\ MAX_UNCOMPRESSED_LEN \in Nat
      BY <1>1, <2>1, CodecAssumption
    <2> QED
      BY <2>1, <2>2, <2>3
  <1> QED
    BY <1>2, <1>3

------------------------------------------------------------------------------

(* The inductive invariant: got is as the theorems say because every frame *)
(* on the way is one that the limits let through, and is made by compress  *)
(* of the message that is remembered with it, if the local side sent it.   *)

WireInv ==
    /\ wire \in Seq(Frame) /\ sent \in Seq(Bytes \cup {Foreign})
    /\ got \in [msg : Bytes \cup {Fail}, of : Bytes \cup {Foreign}]
    /\ Len(sent) = Len(wire)
    /\ \A i \in 1 .. Len(wire) :
          /\ Fits(wire[i])
          /\ sent[i] # Foreign => wire[i] = compress(sent[i])

Inv == WireInv /\ SentIsReceived /\ ReceivedIsBounded

LEMMA InitInv == Init => Inv
  BY CodecAssumption
  DEF Init, Inv, WireInv, SentIsReceived, ReceivedIsBounded

\* One frame more on the way.
LEMMA OneMore ==
    ASSUME WireInv, NEW f \in Frame, Fits(f), NEW m \in Bytes \cup {Foreign},
           m # Foreign => f = compress(m),
           wire' = Append(wire, f), sent' = Append(sent, m), got' = got
    PROVE  WireInv'
  <1>1. /\ wire' \in Seq(Frame) /\ sent' \in Seq(Bytes \cup {Foreign})
        /\ Len(wire') = Len(wire) + 1 /\ Len(sent') = Len(wire')
    BY DEF WireInv
  <1>2. ASSUME NEW i \in 1 .. Len(wire')
        PROVE  Fits(wire'[i]) /\ (sent'[i] # Foreign => wire'[i] = compress(sent'[i]))
    <2>1. CASE i = Len(wire')
      BY <1>1, <2>1 DEF WireInv
    <2>2. CASE i # Len(wire')
      <3>1. i \in 1 .. Len(wire) /\ wire'[i] = wire[i] /\ sent'[i] = sent[i]
        BY <1>1, <2>2 DEF WireInv
      <3> QED
        BY <3>1 DEF WireInv
    <2> QED
      BY <2>1, <2>2
  <1> QED
    BY <1>1, <1>2 DEF WireInv

LEMMA NextInv == Inv /\ [Next]_vars => Inv'
  <1> SUFFICES ASSUME Inv, [Next]_vars PROVE Inv'
    OBVIOUS
  <1> USE DEF Inv
  <1>1. ASSUME NEW b \in Data, Send(b) PROVE Inv'
    <2>1. b \in Bytes /\ compress(b) \in Frame
      BY CompressType, CodecAssumption
    <2>2. WireInv'
      BY <1>1, <2>1, OneMore DEF Send
    <2> QED
      BY <1>1, <2>2 DEF Send, SentIsReceived, ReceivedIsBounded
  <1>2. ASSUME NEW f \in {<<>>} \cup (Flags \X Bytes), PeerSends(f) PROVE Inv'
    <2>1. f \in Frame
      BY CodecAssumption DEF Frame
    <2>2. WireInv'
      BY <1>2, <2>1, OneMore DEF PeerSends
    <2> QED
      BY <1>2, <2>2 DEF PeerSends, SentIsReceived, ReceivedIsBounded
  <1>3. CASE Receive
    <2> DEFINE f == wire[1]
               m == sent[1]
    <2>1. /\ f \in Frame /\ m \in Bytes \cup {Foreign}
          /\ Fits(f) /\ (m # Foreign => f = compress(m))
          /\ got' = [msg |-> decompress(f), of |-> m]
      BY <1>3 DEF Receive, WireInv
    <2>2. /\ wire' \in Seq(Frame) /\ sent' \in Seq(Bytes \cup {Foreign})
          /\ Len(wire') = Len(wire) - 1 /\ Len(sent') = Len(wire')
      BY <1>3 DEF Receive, WireInv
    <2>3. ASSUME NEW i \in 1 .. Len(wire')
          PROVE  /\ Fits(wire'[i])
                 /\ sent'[i] # Foreign => wire'[i] = compress(sent'[i])
      <3>1. /\ i + 1 \in 1 .. Len(wire)
            /\ wire'[i] = wire[i + 1] /\ sent'[i] = sent[i + 1]
        BY <1>3, <2>2 DEF Receive, WireInv
      <3> QED
        BY <3>1 DEF WireInv
    <2>4. got' \in [msg : Bytes \cup {Fail}, of : Bytes \cup {Foreign}]
      BY <2>1, DecompressType
    <2>5. WireInv'
      BY <2>2, <2>3, <2>4 DEF WireInv
    <2>6. SentIsReceived'
      <3>1. got'.msg = decompress(f) /\ got'.of = m
        BY <2>1
      <3>2. ASSUME m # Foreign
            PROVE  \/ decompress(f) = m
                   \/ decompress(f) = Fail /\ Length[m] > MAX_UNCOMPRESSED_LEN
        <4>1. m \in Bytes /\ f = compress(m)
          BY <2>1, <3>2
        <4> HIDE DEF f, m
        <4> QED
          BY <4>1, RoundTrip
      <3> HIDE DEF f, m
      <3> QED
        BY <3>1, <3>2 DEF SentIsReceived
    <2>7. ReceivedIsBounded'
      <3>1. got'.msg = decompress(f)
        BY <2>1
      <3>2. f \in Frame /\ Fits(f)
        BY <2>1
      <3> HIDE DEF f, m
      <3> QED
        BY <3>1, <3>2, DecompressBounded DEF ReceivedIsBounded
    <2> QED
      BY <2>5, <2>6, <2>7
  <1>4. CASE UNCHANGED vars
    BY <1>4 DEF vars, WireInv, SentIsReceived, ReceivedIsBounded
  <1> QED
    BY <1>1, <1>2, <1>3, <1>4 DEF Next

\* Every message that is sent arrives unchanged or, when it is longer than the
\* receiver accepts, is refused.
THEOREM SentArrives == Spec => []SentIsReceived
  <1>1. Inv => SentIsReceived
    BY DEF Inv
  <1> QED
    BY <1>1, InitInv, NextInv, PTL DEF Spec

\* No frame of a peer makes the receiver hold more than its limits.
THEOREM MemoryBounded == Spec => []ReceivedIsBounded
  <1>1. Inv => ReceivedIsBounded
    BY DEF Inv
  <1> QED
    BY <1>1, InitInv, NextInv, PTL DEF Spec
==============================================================================
