(* Two certificates, two faults. *)
CONSTANTS
    CERTS = 2
    MAX_FAULTS = 2
SPECIFICATION FairSpec
INVARIANTS
    TypeOK
    OkReplacesFile
PROPERTIES
    TimerKeepsToRecv
    RecvEnds
