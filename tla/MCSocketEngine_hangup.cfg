(* One socket that reads with the time-out enabled, and a peer that may
   close the connection. *)
CONSTANTS
    SOCKET_COUNT = 1
    READ_TO = 2
    SLOW_FACTOR = 2
    BUFF_SIZE = 2
    Buffers = {b1}
    RecvSizes = {1}
    SendSizes = {}
    Listeners = {}
    SameRetry = TRUE
    SendOutcomes = {"sent", "unprompted"}
    MAX_FAULTS = 1
    MAX_ARRIVALS = 1
    MAX_OPENS = 1
SPECIFICATION FairSpec
PROPERTIES
    ReadTimesOut
CHECK_DEADLOCK FALSE
