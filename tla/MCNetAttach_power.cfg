(* powerDown between fs_open and fs_close. *)
CONSTANTS
    MAX_ALLOWS = 1
    MAX_GUARDS = 2
    MAX_FAULTS = 0
    STARTS = 2
    TRIES = 2
SPECIFICATION Spec
INVARIANTS
    FileHoldsPower
CHECK_DEADLOCK FALSE
