(* Three threads for two sockets, and a modem that fails up to two times. *)
CONSTANTS
    Threads = {t1, t2, t3}
    NoThread = none
    SOCKET_COUNT = 2
    MAX_FAULTS = 2
SPECIFICATION Spec
SYMMETRY ThreadSymmetry
INVARIANTS
    TypeOK
    EntryHasOneOwner
    OkHasLink
