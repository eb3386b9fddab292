CONSTANTS
    Bytes <- AllBytes
    Length <- LengthOf
    Encoded <- EncodedOf
    Decoded <- DecodedOf
    Announced <- AnnouncedOf
    Fail = Fail
    Foreign = Foreign
    COMPRESSION_SIZE_THRESHOLD = 1024
    MAX_UNCOMPRESSED_LEN = 8388608
    max_frame_length = 2097152
    Data <- PlainData
    Flags = {0, 1, 64, 127, 128, 255}
    MaxWire = 2
SPECIFICATION Spec
INVARIANTS SentIsReceived ReceivedIsBounded
