(* Two guards at a time, two allowPowerOff, one command that fails, loops of three rounds. *)
CONSTANTS
    MAX_ALLOWS = 2
    MAX_GUARDS = 2
    MAX_FAULTS = 1
    STARTS = 3
    TRIES = 3
SPECIFICATION FairSpec
INVARIANTS
    TypeOK
    ConnectedIsAttached
    EventsServed
    GuardHolds
    GnssStops
PROPERTIES
    CallsEnd
CHECK_DEADLOCK FALSE
