(* A subscribe that is not asked for. *)
CONSTANTS
    Paths = {{"room"}, {"lamp"}}
    NODES = 2
    MAX_TASKS = 0
    MAX_MSGS = 0
    MAX_FAULTS = 1
SPECIFICATION Spec
INVARIANTS
    OkIsSubscribed
