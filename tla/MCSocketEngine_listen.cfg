(* Two sockets that read, the first of which may listen: its polls go on
   until its timer is held at the slow mark. *)
CONSTANTS
    SOCKET_COUNT = 2
    READ_TO = 1
    SLOW_FACTOR = 3
    BUFF_SIZE = 2
    Buffers = {b1}
    RecvSizes = {1}
    SendSizes = {}
    Listeners = {0}
    SameRetry = TRUE
    SendOutcomes = {"sent", "unprompted"}
    MAX_FAULTS = 0
    MAX_ARRIVALS = 1
    MAX_OPENS = 2
SPECIFICATION Spec
INVARIANTS
    TypeOK
    ListenerWaits
    TransferHasEvent
PROPERTIES
    TimerMovedBySlow
CHECK_DEADLOCK FALSE
