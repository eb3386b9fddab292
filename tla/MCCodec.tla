------------------------------- MODULE MCCodec -------------------------------
(***************************************************************************)
(* Byte strings at the boundaries of the code: none, the longest that is   *)
(* not compressed (1023 bytes and the flag) and the shortest that is, one  *)
(* that snappy fails on, the longest that is decompressed and one more;    *)
(* what they are encoded to; and payloads that are no snappy, or that      *)
(* announce too much.                                                      *)
(***************************************************************************)
EXTENDS Codec

\* Name, length, encoded, decoded, announced.
Table == {
    <<"none",  0,       Fail,    Fail,   Fail>>,
    <<"short", 1023,    Fail,    Fail,   1>>,
    <<"long",  1024,    "zlong", Fail,   Fail>>,
    <<"odd",   2097151, Fail,    Fail,   Fail>>,
    <<"odder", 2097152, Fail,    Fail,   Fail>>,
    <<"max",   8388608, "zmax",  Fail,   Fail>>,
    <<"over",  8388609, "zover", Fail,   Fail>>,
    <<"zlong", 70,      Fail,    "long", 1024>>,
    <<"zmax",  1000000, Fail,    "max",  8388608>>,
    <<"zover", 1000001, Fail,    "over", 8388609>>,
    <<"liar",  7,       Fail,    Fail,   2147483647>>}

Row(b) == CHOOSE r \in Table : r[1] = b
AllBytes == {r[1] : r \in Table}
LengthOf == [b \in AllBytes |-> Row(b)[2]]
EncodedOf == [b \in AllBytes |-> Row(b)[3]]
DecodedOf == [b \in AllBytes |-> Row(b)[4]]
AnnouncedOf == [b \in AllBytes |-> Row(b)[5]]
PlainData == {"none", "short", "long", "odd", "odder", "max", "over"}
==============================================================================
