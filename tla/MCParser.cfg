SPECIFICATION ParserSpec
CONSTANTS
    InitialCapacity = 6
    MinRead = 6
    NoByte = NoByte
    Garbled = Garbled
    max_resp_line_bytes = 3
    max_resp_bulk_bytes = 4
    max_resp_container_len = 3
    max_u32 = 5
    MaxStreams = 2
    Streams <- MCStreams
    Texts <- MCTexts
CHECK_DEADLOCK FALSE
INVARIANT ParserTypeOK
INVARIANT MessagesMatch
INVARIANT NoStall
INVARIANT VerdictOfStream
INVARIANT UnreadKept
INVARIANT ViewsHold
INVARIANT FramesFit
INVARIANT TreeSound
