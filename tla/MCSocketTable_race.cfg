(* Three threads for two sockets and a modem that never fails. *)
CONSTANTS
    Threads = {t1, t2, t3}
    NoThread = none
    SOCKET_COUNT = 2
    MAX_FAULTS = 0
SPECIFICATION Spec
SYMMETRY ThreadSymmetry
INVARIANTS
    UpdatesKept
