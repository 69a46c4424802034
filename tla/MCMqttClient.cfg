(* Two subscriptions, two tasks, two messages, one failed command. *)
CONSTANTS
    Paths = {{"room"}, {"lamp"}}
    NODES = 2
    MAX_TASKS = 2
    MAX_MSGS = 2
    MAX_FAULTS = 1
SPECIFICATION FairSpec
INVARIANTS
    TypeOK
    HandlerAlive
    BufferKept
    RightHandler
PROPERTIES
    StopStops
    MessageSettles
