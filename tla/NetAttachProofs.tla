-------------------------- MODULE NetAttachProofs --------------------------
(***************************************************************************)
(* Proofs about NetAttach for every bound on the calls, the guards, the    *)
(* faults and the rounds of the loops.                                     *)
(*                                                                         *)
(* The properties are proved together, as each needs to know where in a    *)
(* call the first thread is.  What the proof adds is what the threads rely *)
(* on from one call to the next: who connects or resets has said before    *)
(* that it is not connected, a guard is counted as long as a file call or  *)
(* a file has it, and the flag follows the count while one guard is out.   *)
(***************************************************************************)
EXTENDS NetAttach, TLAPS

\* The steps that each call of the first thread goes through.
CallKnown ==
    /\ net.at = "rest" => net.call = "none"
    /\ net.at \in {"startup", "thread"} => net.call \in {"apn", "void"}
    /\ net.at \in {"register", "misread", "activate"} => net.call \in {"apn", "void", "credentials"}
    /\ net.at = "spin" => net.call = "void"
    /\ net.at \in {"deactivate", "cut"} => net.call \in {"power", "mqtt"}

\* The two loops that count stop in time, and leave the counter at 0.
RoundsBounded ==
    /\ net.at = "startup" => net.tries < STARTS
    /\ net.at = "fix" => net.tries < TRIES
    /\ net.at \notin {"startup", "fix"} => net.tries = 0

\* The modem is only reset, and the power only cut, for an interface that does
\* not take itself for connected, but for what is done behind it.
ResetIsDetached ==
    /\ net.at = "startup" => ~initialized
    /\ net.at = "cut" => ~initialized \/ behind

\* Once the thread was started the events are dispatched, for good.
QueueIsServed == queue # "none" => dispatching

\* The GNSS engine runs on the power of the modem.
GnssHasPower == modem.gnss => modem.power

\* Every file that holds the guard has lowered the count, and only those have.
GuardsCounted ==
    /\ off = allows - guards
    /\ file.at = "rest" => file.call = "none"
    /\ handle # "none" => guards > 0
    /\ file.call = "query" => guards > 0
    /\ file.call = "query" /\ handle # "none" => guards > 1
    /\ file.call = "open" /\ file.at = "command" => guards > 0
    /\ file.call = "open" => handle # "open" \/ file.at = "leave"
    /\ file.call = "open" /\ file.at = "leave" => handle # "none"
    /\ file.call = "open" /\ file.at = "command" /\ handle # "none" => guards > 1
    /\ file.call = "close" => handle # "none"

\* As long as the guard is used in the one way it works, one guard is out at a
\* time, and the flag follows the count.
FlagFollows ==
    ~tangled => /\ guards \in {0, 1}
                /\ guards = 1 => allows = 1 /\ ~allowed
                /\ guards = 0 /\ allows > 0 => allowed

\* The types, one variable or kind at a time.
FlagsOK  == /\ initialized \in BOOLEAN /\ misled \in BOOLEAN
            /\ dispatching \in BOOLEAN /\ allowed \in BOOLEAN
            /\ kept \in BOOLEAN /\ tangled \in BOOLEAN /\ behind \in BOOLEAN
            /\ queue \in {"none", "started", "error"}
            /\ handle \in {"none", "open", "failed"}
NetOK    == net \in [at : NetSteps, call : NetCalls, tries : Nat, known : BOOLEAN]
FileOK   == file \in [at : {"rest", "command", "leave"}, call : FileCalls]
ModemOK  == modem \in [power : BOOLEAN, attached : BOOLEAN, gnss : BOOLEAN]
FaultsOK == faults \in Nat /\ faults <= MAX_FAULTS
Typed    == FlagsOK /\ NetOK /\ FileOK /\ ModemOK /\ FaultsOK

\* The inductive invariant: types, where the first thread is and what it has
\* done, its loops, the GNSS engine, and the guard with the second thread.
PlaceInv == /\ CallKnown
            /\ ConnectedIsAttached /\ ResetIsDetached
            /\ EventsServed /\ QueueIsServed
GnssInv  == GnssStops /\ GnssHasPower
CountsOK == /\ off \in Int
            /\ allows \in Nat /\ allows <= MAX_ALLOWS
            /\ guards \in Nat /\ guards <= MAX_GUARDS
GuardInv == CountsOK /\ GuardsCounted /\ FlagFollows
IInv     == Typed /\ PlaceInv /\ RoundsBounded /\ GnssInv /\ GuardInv

\* What a step may do to the first thread's place in its call.
NextRound == /\ \/ net.at = "startup" /\ net.tries + 1 # STARTS
                \/ net.at = "fix" /\ net.tries + 1 # TRIES
             /\ net' = [net EXCEPT !.tries = Tried(@)]
NetMove ==
    \/ UNCHANGED net
    \/ \E at \in NetSteps \ {"rest"}, call \in NetCalls \ {"none"} : NetEnters(call, at)
    \/ \E known \in BOOLEAN :
         net' = [NetRests EXCEPT !.call = "name", !.at = "resolve", !.known = known]
    \/ \E at \in NetSteps \ {"rest"} : NetGoes(at)
    \/ NextRound
    \/ NetReturns

-----------------------------------------------------------------------------
\* The bounds, one by one.
LEMMA Bounds ==
  /\ MAX_ALLOWS \in Nat /\ MAX_GUARDS \in Nat /\ MAX_FAULTS \in Nat
  /\ STARTS \in Nat \ {0} /\ TRIES \in Nat \ {0}
  BY BoundAssumption

\* The longer of the two loops.
LEMMA MaxOfLoops ==
  /\ Max({STARTS, TRIES}) \in Nat
  /\ STARTS <= Max({STARTS, TRIES}) /\ TRIES <= Max({STARTS, TRIES})
<1>1. \E x \in {STARTS, TRIES} : \A y \in {STARTS, TRIES} : x >= y
  BY Bounds
<1> QED  BY <1>1, Bounds DEF Max

\* The types of the specification.
LEMMA IInvTypeOK == IInv => TypeOK
<1> SUFFICES ASSUME IInv  PROVE TypeOK
  OBVIOUS
<1> DEFINE M == Max({STARTS, TRIES})
<1>1. M \in Nat /\ STARTS <= M /\ TRIES <= M  BY MaxOfLoops
<1> HIDE DEF M
<1>2. net.tries \in 0 .. M - 1
  BY <1>1, Bounds DEF IInv, Typed, NetOK, RoundsBounded
<1>3. net \in [at : NetSteps, call : NetCalls, tries : 0 .. M - 1, known : BOOLEAN]
  BY <1>2 DEF IInv, Typed, NetOK
<1>4. off \in Int /\ allows \in 0..MAX_ALLOWS /\ guards \in 0..MAX_GUARDS
      /\ faults \in 0..MAX_FAULTS
  BY Bounds DEF IInv, GuardInv, CountsOK, Typed, FaultsOK
<1> QED
  BY <1>3, <1>4, Zenon DEF M, IInv, Typed, FlagsOK, FileOK, ModemOK, TypeOK

\* The inductive invariant holds at the start.
LEMMA InitIInv == Init => IInv
<1> SUFFICES ASSUME Init  PROVE IInv
  OBVIOUS
<1> USE DEF Init, NetRests, FileRests
<1>1. FlagsOK /\ ModemOK  BY DEF FlagsOK, ModemOK
<1>2. NetOK /\ FileOK  BY DEF NetOK, FileOK, NetSteps, NetCalls, FileCalls
<1>3. FaultsOK  BY Bounds DEF FaultsOK
<1>4. PlaceInv
  BY DEF PlaceInv, CallKnown, ConnectedIsAttached, ResetIsDetached, EventsServed,
         QueueIsServed
<1>5. RoundsBounded  BY DEF RoundsBounded
<1>6. GnssInv  BY DEF GnssInv, GnssStops, GnssHasPower
<1>7. GuardInv  BY Bounds DEF GuardInv, CountsOK, GuardsCounted, FlagFollows
<1> QED  BY <1>1, <1>2, <1>3, <1>4, <1>5, <1>6, <1>7 DEF IInv, Typed

\* Every step moves the first thread in one of these ways.
LEMMA NextMoves ==
  ASSUME Next
  PROVE  NetMove
<1> USE DEF NetMove, NetSteps, NetCalls
<1>1. AfterAttach => NetMove
  BY DEF AfterAttach
<1>2. CASE NetCall
  BY <1>2 DEF NetCall, ConnectApn, Disconnect, StartGNSS, GetHostByName, ConnectVoid,
       SetCredentials, PowerDown, StopMqttClient, Initialize, AllowPowerOff,
       DisallowPowerOff
<1>3. ASSUME NEW ok \in BOOLEAN, Startup(ok)  PROVE NetMove
  BY <1>1, <1>3 DEF Startup, OutOfTries, NextRound
<1>4. ASSUME NEW result \in {"stored", "stale", "unstored"}, Register(result)  PROVE NetMove
  BY <1>1, <1>4 DEF Register
<1>5. ASSUME NEW ok \in BOOLEAN, Fix(ok)  PROVE NetMove
  BY <1>5 DEF Fix, SearchEnds, OutOfTries, NextRound
<1>6. ASSUME NEW ok \in BOOLEAN, Deactivate(ok) \/ StopGNSS(ok)  PROVE NetMove
  BY <1>6 DEF Deactivate, StopGNSS
<1>9. ASSUME NEW ok \in BOOLEAN, Misread(ok)  PROVE NetMove
  BY <1>1, <1>9 DEF Misread
<1>7. CASE StartEvents \/ Activate \/ Spin \/ Cut \/ Resolve
  BY <1>1, <1>7 DEF StartEvents, Activate, Spin, Cut, Resolve
<1>8. CASE FileStep
  BY <1>8 DEF FileStep, FileEnters, FileCommand, FileLeaves
<1> QED  BY <1>2, <1>3, <1>4, <1>5, <1>6, <1>7, <1>8, <1>9 DEF Next, NetStep

\* What the two moves on from a place leave of it.
LEMMA Moved ==
  ASSUME NetOK
  PROVE  /\ \A at \in NetSteps :
              NetGoes(at) => net'.at = at /\ net'.call = net.call /\ net'.tries = 0
         /\ NetReturns => net'.at = "rest" /\ net'.call = "none" /\ net'.tries = 0
         /\ NextRound => /\ net'.at = net.at /\ net'.call = net.call
                         /\ net'.tries = net.tries + 1
<1>1. ASSUME NEW at \in NetSteps, NetGoes(at)
      PROVE  net'.at = at /\ net'.call = net.call /\ net'.tries = 0
  BY <1>1 DEF NetOK, NetGoes
<1>2. ASSUME NetReturns
      PROVE  net'.at = "rest" /\ net'.call = "none" /\ net'.tries = 0
  BY <1>2 DEF NetReturns, NetRests
<1>3. ASSUME NextRound
      PROVE  net'.at = net.at /\ net'.call = net.call /\ net'.tries = net.tries + 1
  BY <1>3 DEF NetOK, NextRound, Tried
<1> QED  BY <1>1, <1>2, <1>3

\* Each move keeps the type of the place, and the loops within their limits.
LEMMA MoveBounded ==
  ASSUME NetOK, RoundsBounded, NetMove
  PROVE  NetOK' /\ RoundsBounded'
<1>1. CASE UNCHANGED net
  BY <1>1 DEF NetOK, RoundsBounded
<1>2. ASSUME NEW at \in NetSteps \ {"rest"}, NEW call \in NetCalls \ {"none"},
             NetEnters(call, at)
      PROVE  NetOK' /\ RoundsBounded'
  <2>1. net' = [at |-> at, call |-> call, tries |-> 0, known |-> TRUE]
    BY <1>2 DEF NetEnters, NetRests
  <2> QED  BY <2>1, Bounds DEF NetOK, RoundsBounded
<1>3. ASSUME NEW known \in BOOLEAN,
             net' = [NetRests EXCEPT !.call = "name", !.at = "resolve", !.known = known]
      PROVE  NetOK' /\ RoundsBounded'
  BY <1>3 DEF NetRests, NetOK, RoundsBounded, NetSteps, NetCalls
<1>4. ASSUME NEW at \in NetSteps \ {"rest"}, NetGoes(at)
      PROVE  NetOK' /\ RoundsBounded'
  <2>1. NetOK'  BY <1>4 DEF NetOK, NetGoes
  <2>2. net'.tries = 0  BY <1>4, Moved
  <2> QED  BY <2>1, <2>2, Bounds DEF RoundsBounded
<1>5. CASE NextRound
  <2>1. NetOK'  BY <1>5 DEF NextRound, Tried, NetOK
  <2>2. net.tries \in Nat  BY DEF NetOK
  <2>3. net'.at = net.at /\ net'.tries = net.tries + 1  BY <1>5, Moved
  <2>4. RoundsBounded'
    BY <1>5, <2>2, <2>3, Bounds DEF NextRound, RoundsBounded
  <2> QED  BY <2>1, <2>4
<1>6. CASE NetReturns
  BY <1>6 DEF NetReturns, NetRests, NetOK, RoundsBounded, NetSteps, NetCalls
<1> QED  BY <1>1, <1>2, <1>3, <1>4, <1>5, <1>6 DEF NetMove

\* Each step keeps the flags.
LEMMA NextFlags ==
  ASSUME FlagsOK, Next
  PROVE  FlagsOK'
<1> USE DEF FlagsOK, attachVars, guardVars, fileVars, LeaveNetwork, Detach
<1>1. ASSUME NEW ok \in BOOLEAN, ConnectApn(ok)  PROVE FlagsOK'
  BY <1>1 DEF ConnectApn
<1>2. ASSUME NEW ok \in BOOLEAN, Disconnect(ok)  PROVE FlagsOK'
  BY <1>2 DEF Disconnect
<1>3. ASSUME NEW ok \in BOOLEAN, StartGNSS(ok)  PROVE FlagsOK'
  BY <1>3 DEF StartGNSS
<1>4. ASSUME NEW known \in BOOLEAN, GetHostByName(known)  PROVE FlagsOK'
  BY <1>4 DEF GetHostByName
<1>5. CASE ConnectVoid  BY <1>5 DEF ConnectVoid
<1>6. CASE SetCredentials  BY <1>6 DEF SetCredentials
<1>7. CASE PowerDown  BY <1>7 DEF PowerDown
<1>8. CASE StopMqttClient  BY <1>8 DEF StopMqttClient
<1>9. CASE Initialize  BY <1>9 DEF Initialize
<1>10. CASE AllowPowerOff  BY <1>10 DEF AllowPowerOff, Raise
<1>11. CASE DisallowPowerOff  BY <1>11 DEF DisallowPowerOff, Lower
<1>12. ASSUME NEW ok \in BOOLEAN, Startup(ok)  PROVE FlagsOK'
  BY <1>12 DEF Startup
<1>13. ASSUME NEW result \in {"stored", "stale", "unstored"}, Register(result)  PROVE FlagsOK'
  BY <1>13 DEF Register
<1>14. ASSUME NEW ok \in BOOLEAN, Deactivate(ok)  PROVE FlagsOK'
  BY <1>14 DEF Deactivate
<1>15. ASSUME NEW ok \in BOOLEAN, Fix(ok)  PROVE FlagsOK'
  BY <1>15 DEF Fix
<1>16. ASSUME NEW ok \in BOOLEAN, StopGNSS(ok)  PROVE FlagsOK'
  BY <1>16 DEF StopGNSS
<1>17. CASE StartEvents  BY <1>17 DEF StartEvents, StartThread
<1>18. CASE Activate  BY <1>18 DEF Activate
<1>19. CASE Spin  BY <1>19 DEF Spin
<1>20. CASE Cut  BY <1>20 DEF Cut
<1>21. CASE Resolve  BY <1>21 DEF Resolve
<1>22. ASSUME NEW call \in FileCalls \ {"none"}, FileEnters(call)  PROVE FlagsOK'
  BY <1>22 DEF FileEnters, Lower
<1>23. ASSUME NEW ok \in BOOLEAN, FileCommand(ok)  PROVE FlagsOK'
  BY <1>23 DEF FileCommand
<1>24. CASE FileLeaves  BY <1>24 DEF FileLeaves, Raise
<1>25. ASSUME NEW ok \in BOOLEAN, Misread(ok)  PROVE FlagsOK'
  BY <1>25 DEF Misread
<1> QED
  BY <1>1, <1>2, <1>3, <1>4, <1>5, <1>6, <1>7, <1>8, <1>9, <1>10, <1>11, <1>12,
     <1>13, <1>14, <1>15, <1>16, <1>17, <1>18, <1>19, <1>20, <1>21, <1>22,
     <1>23, <1>24, <1>25 DEF Next, NetCall, NetStep, FileStep

\* Each step keeps the types of the modem and of the second thread.
LEMMA NextModem ==
  ASSUME ModemOK, Next
  PROVE  ModemOK'
<1> USE DEF ModemOK, LeaveNetwork, Detach, ResetModem
<1>1. ASSUME NEW ok \in BOOLEAN, ConnectApn(ok)  PROVE ModemOK'
  BY <1>1 DEF ConnectApn
<1>2. ASSUME NEW ok \in BOOLEAN, Disconnect(ok)  PROVE ModemOK'
  BY <1>2 DEF Disconnect
<1>3. ASSUME NEW ok \in BOOLEAN, StartGNSS(ok)  PROVE ModemOK'
  BY <1>3 DEF StartGNSS
<1>4. ASSUME NEW known \in BOOLEAN, GetHostByName(known)  PROVE ModemOK'
  BY <1>4 DEF GetHostByName
<1>5. CASE ConnectVoid  BY <1>5 DEF ConnectVoid
<1>6. CASE SetCredentials  BY <1>6 DEF SetCredentials
<1>7. CASE PowerDown  BY <1>7 DEF PowerDown
<1>8. CASE StopMqttClient  BY <1>8 DEF StopMqttClient
<1>9. CASE Initialize  BY <1>9 DEF Initialize
<1>10. CASE AllowPowerOff  BY <1>10 DEF AllowPowerOff
<1>11. CASE DisallowPowerOff  BY <1>11 DEF DisallowPowerOff
<1>12. ASSUME NEW ok \in BOOLEAN, Startup(ok)  PROVE ModemOK'
  BY <1>12 DEF Startup
<1>13. ASSUME NEW result \in {"stored", "stale", "unstored"}, Register(result)  PROVE ModemOK'
  BY <1>13 DEF Register
<1>14. ASSUME NEW ok \in BOOLEAN, Deactivate(ok)  PROVE ModemOK'
  BY <1>14 DEF Deactivate
<1>15. ASSUME NEW ok \in BOOLEAN, Fix(ok)  PROVE ModemOK'
  BY <1>15 DEF Fix
<1>16. ASSUME NEW ok \in BOOLEAN, StopGNSS(ok)  PROVE ModemOK'
  BY <1>16 DEF StopGNSS
<1>17. CASE StartEvents  BY <1>17 DEF StartEvents
<1>18. CASE Activate  BY <1>18 DEF Activate
<1>19. CASE Spin  BY <1>19 DEF Spin
<1>20. CASE Cut  BY <1>20 DEF Cut
<1>21. CASE Resolve  BY <1>21 DEF Resolve
<1>22. ASSUME NEW call \in FileCalls \ {"none"}, FileEnters(call)  PROVE ModemOK'
  BY <1>22 DEF FileEnters
<1>23. ASSUME NEW ok \in BOOLEAN, FileCommand(ok)  PROVE ModemOK'
  BY <1>23 DEF FileCommand
<1>24. CASE FileLeaves  BY <1>24 DEF FileLeaves
<1>25. ASSUME NEW ok \in BOOLEAN, Misread(ok)  PROVE ModemOK'
  BY <1>25 DEF Misread
<1> QED
  BY <1>1, <1>2, <1>3, <1>4, <1>5, <1>6, <1>7, <1>8, <1>9, <1>10, <1>11, <1>12,
     <1>13, <1>14, <1>15, <1>16, <1>17, <1>18, <1>19, <1>20, <1>21, <1>22,
     <1>23, <1>24, <1>25 DEF Next, NetCall, NetStep, FileStep

LEMMA NextFile ==
  ASSUME FileOK, Next
  PROVE  FileOK'
<1>1. CASE NetCall
  BY <1>1 DEF FileOK, fileVars, NetCall, ConnectApn, Disconnect, StartGNSS, GetHostByName,
       ConnectVoid,
       SetCredentials, PowerDown, StopMqttClient, Initialize, AllowPowerOff,
       DisallowPowerOff
<1>2. CASE NetStep \/ Activate
  BY <1>2 DEF FileOK, fileVars, NetStep, Startup, Register, Misread, Deactivate, Fix, StopGNSS,
       StartEvents,
       Activate, Spin, Cut, Resolve
<1>3. CASE FileStep
  BY <1>3 DEF FileOK, FileRests, FileCalls, FileStep, FileEnters, FileCommand, FileLeaves
<1> QED  BY <1>1, <1>2, <1>3 DEF Next

\* Each step leaves the faults as they are, or is a command that may add one.
LEMMA NextFaults ==
  ASSUME FaultsOK, Next
  PROVE  FaultsOK' /\ faults' >= faults
<1>1. ASSUME NEW ok \in BOOLEAN, Command(ok)  PROVE FaultsOK' /\ faults' >= faults
  BY <1>1, Bounds DEF Command, FaultsOK
<1>2. UNCHANGED faults \/ \E ok \in BOOLEAN : Command(ok)
  <2>1. CASE NetCall
    BY <2>1 DEF NetCall, ConnectApn, Disconnect, StartGNSS, GetHostByName, ConnectVoid,
       SetCredentials, PowerDown, StopMqttClient, Initialize, AllowPowerOff,
       DisallowPowerOff,
       Detach, LeaveNetwork
  <2>2. CASE NetStep \/ Activate
    BY <2>2 DEF NetStep, Startup, Register, Misread, Deactivate, Fix, StopGNSS, StartEvents,
       Activate, Spin, Cut, Resolve, Detach, LeaveNetwork
  <2>3. CASE FileStep
    BY <2>3 DEF FileStep, FileEnters, FileCommand, FileLeaves
  <2> QED  BY <2>1, <2>2, <2>3 DEF Next
<1> QED  BY <1>1, <1>2 DEF FaultsOK

\* Each step keeps what concerns the calls of the first thread.
LEMMA NextPlace ==
  ASSUME Typed, PlaceInv, Next
  PROVE  PlaceInv'
<1>0. CASE UNCHANGED <<attachVars, kept, net, behind, modem>>
  BY <1>0 DEF PlaceInv, CallKnown, ConnectedIsAttached, ResetIsDetached, EventsServed,
     QueueIsServed, attachVars
<1>a. AfterAttach => \/ net'.at = "rest" /\ net'.call = "none"
                     \/ net'.at = "spin" /\ net'.call = "void"
  BY Moved DEF AfterAttach, Typed, NetSteps
<1> USE DEF Typed, FlagsOK, NetOK, ModemOK, PlaceInv, CallKnown, ConnectedIsAttached,
     ResetIsDetached, EventsServed, QueueIsServed, attachVars, LeaveNetwork
<1>1. ASSUME NEW ok \in BOOLEAN, ConnectApn(ok)  PROVE PlaceInv'
  BY <1>1 DEF ConnectApn, NetEnters, NetRests, Detach
<1>2. ASSUME NEW ok \in BOOLEAN, Disconnect(ok)  PROVE PlaceInv'
  BY <1>2 DEF Disconnect, Detach
<1>3. ASSUME NEW ok \in BOOLEAN, StartGNSS(ok)  PROVE PlaceInv'
  BY <1>3 DEF StartGNSS, NetEnters, NetRests
<1>4. ASSUME NEW known \in BOOLEAN, GetHostByName(known)  PROVE PlaceInv'
  BY <1>4 DEF GetHostByName, NetRests
<1>5. CASE ConnectVoid  BY <1>5 DEF ConnectVoid, NetEnters, NetRests
<1>6. CASE SetCredentials  BY <1>6 DEF SetCredentials, NetEnters, NetRests
<1>7. CASE PowerDown  BY <1>7 DEF PowerDown, NetEnters, NetRests
<1>8. CASE StopMqttClient  BY <1>8 DEF StopMqttClient, NetEnters, NetRests
<1>9. CASE Initialize  BY <1>9 DEF Initialize, ResetModem
<1>10. ASSUME NEW ok \in BOOLEAN, Startup(ok)  PROVE PlaceInv'
  <2>1. \/ net'.at = "thread" /\ net'.call = net.call
        \/ net'.at = "startup" /\ net'.call = net.call
        \/ AfterAttach
    BY <1>10, Moved DEF Startup, NextRound, OutOfTries, NetSteps
  <2> QED  BY <1>a, <1>10, <2>1 DEF Startup, ResetModem
<1>11. ASSUME NEW result \in {"stored", "stale", "unstored"}, Register(result)  PROVE PlaceInv'
  <2>1. CASE result # "unstored"
    <3>1. UNCHANGED <<attachVars, modem, behind>> /\ net.at = "register"
      BY <1>11, <2>1 DEF Register
    <3>2. \E at \in {"activate", "misread"} : NetGoes(at)
      BY <1>11, <2>1 DEF Register
    <3>3. net'.at \in {"activate", "misread"} /\ net'.call = net.call
      BY <3>2, Moved DEF NetSteps
    <3> QED  BY <3>1, <3>3
  <2>2. CASE result = "unstored"
    BY <1>a, <1>11, <2>2 DEF Register
  <2> QED  BY <2>1, <2>2
<1>12. CASE Activate
  BY <1>a, <1>12 DEF Activate
<1>13. ASSUME NEW ok \in BOOLEAN, Fix(ok)  PROVE PlaceInv'
  <2>1. net'.at \in {"fix", "end"}
    BY <1>13, Moved DEF Fix, SearchEnds, NextRound, OutOfTries, NetSteps
  <2> QED  BY <1>13, <2>1 DEF Fix
<1>14. ASSUME NEW ok \in BOOLEAN, Deactivate(ok)  PROVE PlaceInv'
  BY <1>14 DEF Deactivate, Detach, NetGoes
<1>15. ASSUME NEW ok \in BOOLEAN, StopGNSS(ok)  PROVE PlaceInv'
  BY <1>15 DEF StopGNSS, NetReturns, NetRests
<1>16. CASE StartEvents  BY <1>16 DEF StartEvents, StartThread, NetGoes
<1>17. CASE Spin  BY <1>17 DEF Spin, NetReturns, NetRests
<1>18. CASE Cut  BY <1>18 DEF Cut, NetReturns, NetRests
<1>19. CASE Resolve  BY <1>19 DEF Resolve, NetReturns, NetRests
<1>20. CASE FileStep \/ AllowPowerOff \/ DisallowPowerOff
  BY <1>0, <1>20 DEF FileStep, FileEnters, FileCommand, FileLeaves,
     AllowPowerOff, DisallowPowerOff
<1>21. ASSUME NEW ok \in BOOLEAN, Misread(ok)  PROVE PlaceInv'
  <2>1. CASE ok
    BY <1>a, <1>21, <2>1 DEF Misread
  <2>2. CASE ~ok
    BY <1>21, <2>2, Moved DEF Misread, NetSteps
  <2> QED  BY <2>1, <2>2
<1> QED
  BY <1>1, <1>2, <1>3, <1>4, <1>5, <1>6, <1>7, <1>8, <1>9, <1>10, <1>11, <1>12,
     <1>13, <1>14, <1>15, <1>16, <1>17, <1>18, <1>19, <1>20, <1>21 DEF Next, NetCall,
     NetStep, FileStep

\* What a step may do to the GNSS engine: it is on for the call that is to stop
\* it, or was on before outside of one, or a command has failed.
GnssMove ==
    /\ GnssHasPower'
    /\ \/ ~modem'.gnss
       \/ net'.at \in {"fix", "end"}
       \/ modem.gnss /\ net.at \notin {"fix", "end"}
       \/ \E ok \in BOOLEAN : ~ok /\ modem.power /\ Command(ok)

LEMMA NextGnssMoves ==
  ASSUME NetOK, ModemOK, GnssHasPower, Next
  PROVE  GnssMove
<1> USE DEF ModemOK, GnssHasPower, LeaveNetwork, Detach, ResetModem, GnssMove
<1>1. ASSUME NEW ok \in BOOLEAN, ConnectApn(ok)  PROVE GnssMove
  BY <1>1 DEF ConnectApn, NetEnters
<1>2. ASSUME NEW ok \in BOOLEAN, Disconnect(ok)  PROVE GnssMove
  BY <1>2 DEF Disconnect
<1>3. ASSUME NEW ok \in BOOLEAN, StartGNSS(ok)  PROVE GnssMove
  BY <1>3 DEF StartGNSS, NetEnters, NetRests
<1>4. ASSUME NEW known \in BOOLEAN, GetHostByName(known)  PROVE GnssMove
  BY <1>4 DEF GetHostByName
<1>5. CASE ConnectVoid  BY <1>5 DEF ConnectVoid, NetEnters
<1>6. CASE SetCredentials  BY <1>6 DEF SetCredentials, NetEnters
<1>7. CASE PowerDown  BY <1>7 DEF PowerDown, NetEnters
<1>8. CASE StopMqttClient  BY <1>8 DEF StopMqttClient, NetEnters
<1>9. CASE Initialize  BY <1>9 DEF Initialize
<1>10. CASE AllowPowerOff  BY <1>10 DEF AllowPowerOff
<1>11. CASE DisallowPowerOff  BY <1>11 DEF DisallowPowerOff
<1>12. ASSUME NEW ok \in BOOLEAN, Startup(ok)  PROVE GnssMove
  BY <1>12 DEF Startup
<1>13. ASSUME NEW result \in {"stored", "stale", "unstored"}, Register(result)  PROVE GnssMove
  BY <1>13 DEF Register
<1>14. ASSUME NEW ok \in BOOLEAN, Deactivate(ok)  PROVE GnssMove
  BY <1>14 DEF Deactivate
<1>15. ASSUME NEW ok \in BOOLEAN, StopGNSS(ok)  PROVE GnssMove
  BY <1>15 DEF StopGNSS
<1>16. CASE StartEvents  BY <1>16 DEF StartEvents
<1>17. CASE Activate  BY <1>17 DEF Activate
<1>18. CASE Spin  BY <1>18 DEF Spin
<1>19. CASE Cut  BY <1>19 DEF Cut
<1>20. CASE Resolve  BY <1>20 DEF Resolve
<1>21. ASSUME NEW ok \in BOOLEAN, Fix(ok)  PROVE GnssMove
  <2>1. net'.at \in {"fix", "end"}
    BY <1>21, Moved DEF Fix, SearchEnds, NextRound, OutOfTries, NetSteps
  <2> QED  BY <1>21, <2>1 DEF Fix
<1>22. CASE FileStep
  BY <1>22 DEF FileStep, FileEnters, FileCommand, FileLeaves
<1>23. ASSUME NEW ok \in BOOLEAN, Misread(ok)  PROVE GnssMove
  BY <1>23 DEF Misread
<1> QED
  BY <1>1, <1>2, <1>3, <1>4, <1>5, <1>6, <1>7, <1>8, <1>9, <1>10, <1>11, <1>12,
     <1>13, <1>14, <1>15, <1>16, <1>17, <1>18, <1>19, <1>20, <1>21, <1>22, <1>23 DEF
     Next, NetCall, NetStep, FileStep

\* Each step keeps what concerns the GNSS engine.
LEMMA NextGnss ==
  ASSUME Typed, GnssInv, Next
  PROVE  GnssInv'
<1>1. FaultsOK /\ FaultsOK' /\ faults' >= faults  BY NextFaults DEF Typed
<1>2. GnssMove  BY NextGnssMoves DEF Typed, GnssInv
<1>3. ASSUME NEW ok \in BOOLEAN, ~ok, modem.power, Command(ok)  PROVE faults' > 0
  BY <1>1, <1>3 DEF Command, FaultsOK
<1>4. modem.gnss /\ net.at \notin {"fix", "end"} => faults' > 0
  BY <1>1 DEF GnssInv, GnssStops, FaultsOK
<1>5. GnssStops'
  BY <1>2, <1>3, <1>4 DEF GnssMove, GnssStops
<1> QED  BY <1>2, <1>5 DEF GnssInv, GnssMove

\* Each step keeps what concerns the guard and the second thread.
LEMMA NextGuard ==
  ASSUME Typed, GuardInv, Next
  PROVE  GuardInv'
<1>0. allowed \in BOOLEAN /\ tangled \in BOOLEAN
  BY DEF Typed, FlagsOK
<1>1. CASE UNCHANGED <<guardVars, fileVars>>
  BY <1>1 DEF GuardInv, CountsOK, GuardsCounted, FlagFollows, guardVars, fileVars
<1> USE Bounds, <1>0 DEF GuardInv, CountsOK, guardVars, fileVars
<1>2. CASE AllowPowerOff
  <2>1. CountsOK' /\ GuardsCounted'  BY <1>2 DEF AllowPowerOff, Raise, GuardsCounted
  <2>2. ~tangled' => ~tangled /\ guards' = 0
    BY <1>2 DEF AllowPowerOff
  <2>3. allowed'
    BY <1>2 DEF AllowPowerOff, Raise
  <2>4. allows' = allows + 1 /\ guards' = guards
    BY <1>2 DEF AllowPowerOff, Raise
  <2>5. FlagFollows'  BY <2>2, <2>3, <2>4 DEF FlagFollows
  <2> QED  BY <2>1, <2>5
<1>3. CASE DisallowPowerOff
  <2>1. CountsOK' /\ GuardsCounted'  BY <1>3 DEF DisallowPowerOff, Lower, GuardsCounted
  <2>2. ~tangled' => ~tangled /\ guards' = 0
    BY <1>3 DEF DisallowPowerOff
  <2>3. off = allows - guards /\ (allowed' <=> off # 1 /\ allowed)
    BY <1>3 DEF DisallowPowerOff, Lower, GuardsCounted
  <2>4. allows' = allows - 1 /\ guards' = guards
    BY <1>3 DEF DisallowPowerOff, Lower
  <2>5. FlagFollows'  BY <2>2, <2>3, <2>4 DEF FlagFollows
  <2> QED  BY <2>1, <2>5
<1>4. ASSUME NEW call \in FileCalls \ {"none"}, FileEnters(call)  PROVE GuardInv'
  <2>1. CASE call \notin {"query", "open"}
    BY <1>4, <2>1 DEF FileEnters, GuardsCounted, FlagFollows, Typed, FileOK, FileCalls
  <2>2. CASE call \in {"query", "open"}
    <3>1. /\ file.at = "rest" /\ file'.at = "command" /\ file'.call = call
          /\ call = "open" => handle # "open"
          /\ guards < MAX_GUARDS /\ guards' = guards + 1
          /\ off' = off - 1 /\ UNCHANGED <<allows, handle>>
      BY <1>4, <2>2 DEF FileEnters, Lower
    <3>2. CountsOK'  BY <3>1
    <3>3. GuardsCounted'  BY <2>2, <3>1 DEF GuardsCounted
    <3>4. ~tangled' => ~tangled /\ guards = 0 /\ allows = 1
      BY <1>4, <2>2 DEF FileEnters
    <3>5. allowed' <=> off # 1 /\ allowed
      BY <1>4, <2>2 DEF FileEnters, Lower
    <3>6. FlagFollows'
      BY <3>1, <3>4, <3>5 DEF GuardsCounted, FlagFollows
    <3> QED  BY <3>2, <3>3, <3>6
  <2> QED  BY <2>1, <2>2
<1>5. ASSUME NEW ok \in BOOLEAN, FileCommand(ok)  PROVE GuardInv'
  BY <1>5 DEF FileCommand, GuardsCounted, FlagFollows, Typed, FileOK
<1>6. CASE FileLeaves
  <2> USE <1>6 DEF FileLeaves, Raise
  <2>1. CountsOK'  BY DEF GuardsCounted, Typed, FileOK
  <2>2. GuardsCounted'  BY DEF GuardsCounted, FileRests, Typed, FileOK
  <2>3. FlagFollows'  BY DEF GuardsCounted, FlagFollows
  <2> QED  BY <2>1, <2>2, <2>3
<1>7. CASE NetStep \/ Activate
  BY <1>1, <1>7 DEF NetStep, Startup, Register, Misread, Deactivate, Fix, StopGNSS, StartEvents,
     Activate, Spin, Cut, Resolve
<1>8. CASE NetCall /\ ~AllowPowerOff /\ ~DisallowPowerOff
  BY <1>1, <1>8 DEF NetCall, ConnectApn, Disconnect, StartGNSS, GetHostByName,
     ConnectVoid, SetCredentials, PowerDown, StopMqttClient, Initialize
<1> QED  BY <1>2, <1>3, <1>4, <1>5, <1>6, <1>7, <1>8 DEF Next, FileStep

\* The invariant is inductive, hence it always holds.
THEOREM AlwaysIInv == Spec => []IInv
<1>1. Init => IInv  BY InitIInv
<1>2. IInv /\ [Next]_vars => IInv'
  <2> SUFFICES ASSUME IInv, [Next]_vars  PROVE IInv'
    OBVIOUS
  <2>1. CASE Next
    <3>1. NetOK' /\ RoundsBounded'  BY <2>1, NextMoves, MoveBounded DEF IInv, Typed
    <3>2. Typed'
      BY <2>1, <3>1, NextFlags, NextModem, NextFile, NextFaults DEF IInv, Typed
    <3> QED  BY <2>1, <3>1, <3>2, NextPlace, NextGnss, NextGuard DEF IInv
  <2>2. CASE UNCHANGED vars
    <3> USE <2>2 DEF vars, attachVars, guardVars, fileVars, IInv
    <3>1. Typed'  BY DEF Typed, FlagsOK, NetOK, FileOK, ModemOK, FaultsOK
    <3>2. PlaceInv'
      BY DEF PlaceInv, CallKnown, ConnectedIsAttached, ResetIsDetached, EventsServed,
         QueueIsServed
    <3>3. RoundsBounded' /\ GnssInv'
      BY DEF RoundsBounded, GnssInv, GnssStops, GnssHasPower
    <3>4. GuardInv'  BY DEF GuardInv, CountsOK, GuardsCounted, FlagFollows
    <3> QED  BY <3>1, <3>2, <3>3, <3>4
  <2> QED  BY <2>1, <2>2
<1> QED  BY <1>1, <1>2, PTL DEF Spec

\* Every variable stays in its type: the counters of the loops within their
\* limits, and the guards that files hold never below zero.
THEOREM TypeCorrect == Spec => []TypeOK
<1> QED  BY IInvTypeOK, AlwaysIInv, PTL

\* An interface that takes itself for connected is attached, but where its last
\* connect was misled (the APN not stored, no power, or an OK left unread taken for that
\* of the activation) and for what is done behind it.
THEOREM AttachedWhenConnected == Spec => []ConnectedIsAttached
<1>1. IInv => ConnectedIsAttached  BY DEF IInv, PlaceInv
<1> QED  BY <1>1, AlwaysIInv, PTL

\* connect asks for the network only when the thread of the events runs, however
\* often that thread was refused a second start.
THEOREM EventsAlwaysServed == Spec => []EventsServed
<1>1. IInv => EventsServed  BY DEF IInv, PlaceInv
<1> QED  BY <1>1, AlwaysIInv, PTL

\* Used in the one way it works, the guard keeps the power exactly while a file
\* needs it.
THEOREM PowerGuarded == Spec => []GuardHolds
<1>1. IInv => GuardHolds
  BY DEF IInv, Typed, FlagsOK, GuardInv, CountsOK, FlagFollows, GuardHolds
<1> QED  BY <1>1, AlwaysIInv, PTL

\* No call leaves the GNSS engine running unless a command has failed.
THEOREM GnssAlwaysStops == Spec => []GnssStops
<1>1. IInv => GnssStops  BY DEF IInv, GnssInv
<1> QED  BY <1>1, AlwaysIInv, PTL
=============================================================================
