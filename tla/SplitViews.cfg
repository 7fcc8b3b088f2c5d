SPECIFICATION ParserSpec
CONSTANTS
    InitialCapacity = 6
    MinRead = 6
    NoByte = NoByte
    Garbled = Garbled
    max_resp_line_bytes = 3
    max_resp_bulk_bytes = 4
    max_resp_container_len = 3
    max_u32 = 5
    MaxStreams = 1
    Streams <- SplitStreams
    Texts <- MCTexts
CHECK_DEADLOCK FALSE
INVARIANT TextsReadable
