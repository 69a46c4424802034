(* One socket, reads and writes, with time-outs, and a BG96::send that may come to
   any of its four outcomes. *)
CONSTANTS
    SOCKET_COUNT = 1
    READ_TO = 2
    SLOW_FACTOR = 2
    BUFF_SIZE = 2
    Buffers = {b1}
    RecvSizes = {1, 3}
    SendSizes = {1, 3}
    Listeners = {}
    SameRetry = TRUE
    SendOutcomes = {"sent", "refused", "unprompted", "unacked"}
    MAX_FAULTS = 1
    MAX_ARRIVALS = 2
    MAX_OPENS = 1
SPECIFICATION FairSpec
INVARIANTS
    TransientHidden
    RecvReturnsItsData
    SendReturnsItsData
    ChunkInData
    NoEarlyTimeout
PROPERTIES
    ReadCompletes
    WriteCompletes
    ServiceSpec
CHECK_DEADLOCK FALSE
