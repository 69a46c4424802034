(* Two application threads that make three calls between them and then stop,
   two transfers, a cap of two events and a queue with room for one more:
   updates of the counter get lost in both directions. *)
CONSTANTS
    Threads = {a1, a2}
    EventThread = ev
    NoOwner = none
    Transfers = {rx, tx}
    Reads = {rx}
    SOCKET_COUNT = 2
    QUEUE_SIZE = 3
    Builds = {TRUE, FALSE}
    MAX_CALLS = 3
SPECIFICATION FairSpec
INVARIANTS
    TypeOK
    NoWrap
    OneLoadPending
PROPERTIES
    PolledForever
    QueueDrains
CHECK_DEADLOCK FALSE
