------------------------------ MODULE NetAttach ------------------------------
(***************************************************************************)
(* BG96Interface as two threads use it: one attaches the modem to the      *)
(* network, powers it and asks for names and positions, the other works    *)
(* with files.  Between them are the modem, _bg96_mutex and the guard that *)
(* is to keep the power on while a file is open.                           *)
(*                                                                         *)
(* A command is one step, as it holds the mutex; a call that sends several *)
(* or asks again goes step by step.  The modem (external) answers a        *)
(* command or, while a bound lasts, fails it.  Registration and activation *)
(* are the network's: it grants them or does not, at no cost.              *)
(*                                                                         *)
(* allowPowerOff and disallowPowerOff are one step each, though ++ and --  *)
(* of _power_off are loads and stores that no mutex protects.              *)
(***************************************************************************)
EXTENDS Integers, FiniteSetsExt

CONSTANTS
    MAX_ALLOWS,     \* bound: allowPowerOff calls
    MAX_GUARDS,     \* bound: guards that file calls hold at a time
    MAX_FAULTS,     \* bound: commands that fail
    STARTS,         \* resets connect has time for, each with its wait for RDY
    TRIES           \* tries of getGNSSLocation, 30 in the code

\* Both loops make their first round whatever the time.
ASSUME BoundAssumption ==
    /\ {MAX_ALLOWS, MAX_GUARDS, MAX_FAULTS} \subseteq Nat
    /\ {STARTS, TRIES} \subseteq Nat \ {0}

VARIABLES
    initialized,    \* g_isInitialized = NSAPI_ERROR_IS_CONNECTED
    queue,          \* g_bg96_queue_id: "none", "started" or the "error" of a second start
    dispatching,    \* _bg96_monitor runs, for good
    off,            \* _power_off
    allowed,        \* _power_off_allowed
    misled,         \* connected was said without an activation (history)
    kept,           \* BG96::connect has returned with _bg96_mutex
    net,            \* the first thread: where it is, in which call, its loop, its name
    file,           \* the second thread: where it is, in which call
    handle,         \* its file: "none", "open", or "failed" to open
    modem,          \* external: power, PDP context, GNSS engine
    allows,         \* allowPowerOff calls minus disallowPowerOff calls (history)
    guards,         \* guards that file calls have not given back (history)
    tangled,        \* the guard was used otherwise than it works (history)
    behind,         \* the modem was left, reset or cut behind the interface (history)
    faults

attachVars == <<initialized, queue, dispatching, misled>>
guardVars  == <<off, allowed, allows, guards, tangled>>
fileVars   == <<file, handle>>
vars == <<attachVars, guardVars, kept, net, fileVars, modem, behind, faults>>

NetCalls  == {"none", "void", "apn", "credentials", "power", "mqtt", "gnss", "name"}
NetSteps  == {"rest", "startup", "thread", "register", "misread", "activate", "spin", "deactivate",
              "cut", "fix", "end", "resolve"}
FileCalls == {"none", "query", "open", "use", "close"}

NetRests  == [at |-> "rest", call |-> "none", tries |-> 0, known |-> TRUE]
FileRests == [at |-> "rest", call |-> "none"]

Init ==
    /\ initialized = FALSE /\ queue = "none" /\ dispatching = FALSE /\ misled = FALSE
    /\ off = 0 /\ allowed \in BOOLEAN       \* not set by the constructor
    /\ kept = FALSE
    /\ net = NetRests /\ file = FileRests /\ handle = "none"
    /\ modem = [power |-> FALSE, attached |-> FALSE, gnss |-> FALSE]
    /\ allows = 0 /\ guards = 0 /\ tangled = FALSE /\ behind = FALSE
    /\ faults = 0

-----------------------------------------------------------------------------
(* Helpers.                                                                *)

\* A command: the modem obeys only with power, and may fail as a fault.
Command(ok) ==
    /\ ok => modem.power
    /\ faults' = IF ~ok /\ modem.power THEN faults + 1 ELSE faults
    /\ faults' <= MAX_FAULTS

NetGoes(at)       == net' = [net EXCEPT !.at = at, !.tries = 0]
NetEnters(c, at)  == net.at = "rest" /\ net' = [NetRests EXCEPT !.call = c, !.at = at]
NetReturns        == net' = NetRests

\* connect(void) looks for the address when connect(apn) is through.
AfterAttach == IF net.call = "void" THEN NetGoes("spin") ELSE NetReturns

\* The pins of the reset: the power goes and comes back.
ResetModem == modem' = [power |-> TRUE, attached |-> FALSE, gnss |-> FALSE]

\* BG96::disconnect: the modem may have left the network, and not have said so.
LeaveNetwork(ok) ==
    /\ Command(ok)
    /\ \E attached \in BOOLEAN :
         /\ attached => modem.attached /\ ~ok
         /\ modem' = [modem EXCEPT !.attached = attached]

\* Mutant: the counter wraps before it reaches the limit.
TriedWraps(n) == (n + 1) % 2

Tried(n) == n + 1

\* Mutant: the counter is tested before it is incremented.
OutOfTriesLate(limit) == net.tries = limit

OutOfTries(limit) == net.tries + 1 = limit

\* Mutant: the id is compared with 0, which is that of the thread that runs.
StartThreadIfZero ==
    /\ queue' = IF queue = "started" THEN "error" ELSE queue
    /\ UNCHANGED dispatching

\* An mbed Thread starts once; a second start is an error that is not looked at.
StartThread ==
    /\ queue' = CASE queue # "none" -> queue
                  [] queue = "none" /\ dispatching -> "error"
                  [] OTHER -> "started"
    /\ dispatching' = (dispatching \/ queue = "none")

\* Mutant: the interface still takes itself for connected.
DetachUnsaid(ok) ==
    /\ LeaveNetwork(ok)
    /\ queue' = "none"
    /\ UNCHANGED <<initialized, dispatching, misled, behind>>

\* BG96Interface::disconnect
Detach(ok) ==
    /\ LeaveNetwork(ok)
    /\ queue' = "none" /\ initialized' = FALSE /\ misled' = FALSE /\ behind' = FALSE
    /\ UNCHANGED dispatching

-----------------------------------------------------------------------------
(* The first thread: connect, disconnect, power.                           *)

\* connect(apn): a disconnect that succeeds returns 0, which is not ok, and one
\* that fails returns an error, which is: only then is the start-up left out.
ConnectApn(ok) ==
    /\ IF initialized THEN Detach(ok) ELSE ok /\ UNCHANGED <<attachVars, modem, behind, faults>>
    /\ NetEnters("apn", IF ok THEN "startup" ELSE "thread")
    /\ UNCHANGED <<guardVars, kept, fileVars>>

\* connect(void) leaves an interface alone that is said to be connected.
ConnectVoid ==
    /\ NetEnters("void", IF initialized THEN "spin" ELSE "startup")
    /\ UNCHANGED <<attachVars, guardVars, kept, fileVars, modem, behind, faults>>

\* BG96::startup as long as there is time; without RDY connect is over.
Startup(ready) ==
    /\ net.at = "startup"
    /\ ResetModem
    /\ CASE ready -> NetGoes("thread")
         [] ~ready /\ ~OutOfTries(STARTS) -> net' = [net EXCEPT !.tries = Tried(@)]
         [] OTHER -> AfterAttach
    /\ UNCHANGED <<attachVars, guardVars, kept, fileVars, behind, faults>>

StartEvents ==
    /\ net.at = "thread"
    /\ StartThread /\ NetGoes("register")
    /\ UNCHANGED <<initialized, misled, guardVars, kept, fileVars, modem, behind, faults>>

SetCredentials ==
    /\ NetEnters("credentials", "register")
    /\ UNCHANGED <<attachVars, guardVars, kept, fileVars, modem, behind, faults>>

\* BG96::connect up to its unlock.  The APN is stored, or was; or an OK is left
\* unread, as that of AT+CGREG? always is when the modem does not register, and any
\* other may be that is late; or the APN cannot be stored, as without power nothing
\* can: then it returns with the mutex.  Whatever it returns is not true: IS_CONNECTED.
Register(result) ==
    /\ net.at = "register"
    /\ \/ /\ result # "unstored" /\ modem.power
          /\ NetGoes(IF result = "stored" THEN "activate" ELSE "misread")
          /\ UNCHANGED <<initialized, misled, kept, faults>>
       \/ /\ result = "unstored" /\ Command(FALSE)
          /\ initialized' = TRUE /\ misled' = TRUE /\ kept' = TRUE
          /\ AfterAttach
    /\ UNCHANGED <<queue, dispatching, guardVars, fileVars, modem, behind>>

\* AT+QIACT takes that OK for its own, and whether it comes to anything nobody
\* looks; or a command of another thread has dropped it.
Misread(taken) ==
    /\ net.at = "misread"
    /\ \/ /\ taken
          /\ \E attached \in {modem.attached, TRUE} :
               modem' = [modem EXCEPT !.attached = attached]
          /\ initialized' = TRUE /\ misled' = TRUE
          /\ AfterAttach
       \/ /\ ~taken /\ NetGoes("activate") /\ UNCHANGED <<initialized, misled, modem>>
    /\ UNCHANGED <<queue, dispatching, guardVars, kept, fileVars, behind, faults>>

\* AT+QIACT is sent until it is answered with OK: the timer of the loop never
\* starts, and a refusal changes nothing.
Activate ==
    /\ net.at = "activate" /\ modem.power
    /\ modem' = [modem EXCEPT !.attached = TRUE]
    /\ initialized' = TRUE /\ misled' = FALSE /\ behind' = FALSE
    /\ AfterAttach
    /\ UNCHANGED <<queue, dispatching, guardVars, kept, fileVars, faults>>

\* while(!_BG96.isConnected()) {}
Spin ==
    /\ net.at = "spin" /\ modem.power /\ modem.attached
    /\ NetReturns
    /\ UNCHANGED <<attachVars, guardVars, kept, fileVars, modem, behind, faults>>

Disconnect(ok) ==
    /\ net.at = "rest" /\ Detach(ok)
    /\ UNCHANGED <<guardVars, kept, net, fileVars>>

\* powerDown: the flag is looked at, the network left, the power cut.
PowerDown ==
    /\ allowed /\ NetEnters("power", "deactivate")
    /\ UNCHANGED <<attachVars, guardVars, kept, fileVars, modem, behind, faults>>

\* stopMQTTClient, after its own disconnect, has BG96 leave the network.
StopMqttClient ==
    /\ NetEnters("mqtt", "deactivate")
    /\ UNCHANGED <<attachVars, guardVars, kept, fileVars, modem, behind, faults>>

\* The MQTT client calls the disconnect of BG96, not that of the interface.
Deactivate(ok) ==
    /\ net.at = "deactivate" /\ NetGoes("cut")
    /\ IF net.call = "power" THEN Detach(ok)
       ELSE LeaveNetwork(ok) /\ behind' = TRUE /\ UNCHANGED attachVars
    /\ UNCHANGED <<guardVars, kept, fileVars>>

\* BG96::powerDown, without the mutex.
Cut ==
    /\ net.at = "cut"
    /\ modem' = [power |-> FALSE, attached |-> FALSE, gnss |-> FALSE]
    /\ NetReturns
    /\ UNCHANGED <<attachVars, guardVars, kept, fileVars, behind, faults>>

\* initializeBG96, startMQTTClient and, without power, initializeGNSS.
Initialize ==
    /\ net.at = "rest" /\ ResetModem /\ behind' = TRUE
    /\ UNCHANGED <<attachVars, guardVars, kept, net, fileVars, faults>>

-----------------------------------------------------------------------------
(* The first thread: positions and names.                                  *)

\* getGNSSLocation: AT+QGPS=1, whose answer may be lost.
StartGNSS(ok) ==
    /\ net.at = "rest" /\ Command(ok)
    /\ \E on \in BOOLEAN :
         /\ ok => on
         /\ on => modem.power
         /\ modem' = [modem EXCEPT !.gnss = modem.gnss \/ on]
    /\ IF ok THEN NetEnters("gnss", "fix") ELSE UNCHANGED net
    /\ UNCHANGED <<attachVars, guardVars, kept, fileVars, behind>>

\* Mutant: without a position the call is over.
SearchEndsAtOnce(found) == IF found THEN NetGoes("end") ELSE NetReturns

SearchEnds(found) == NetGoes("end")

Fix(found) ==
    /\ net.at = "fix"
    /\ IF found \/ OutOfTries(TRIES)
         THEN SearchEnds(found)
         ELSE net' = [net EXCEPT !.tries = Tried(@)]
    /\ UNCHANGED <<attachVars, guardVars, kept, fileVars, modem, behind, faults>>

StopGNSS(ok) ==
    /\ net.at = "end" /\ Command(ok)
    /\ modem' = [modem EXCEPT !.gnss = @ /\ ~ok]
    /\ NetReturns
    /\ UNCHANGED <<attachVars, guardVars, kept, fileVars, behind>>

\* gethostbyname asks until the name resolves: iter stays 0.
GetHostByName(known) ==
    /\ net.at = "rest"
    /\ net' = [NetRests EXCEPT !.call = "name", !.at = "resolve", !.known = known]
    /\ UNCHANGED <<attachVars, guardVars, kept, fileVars, modem, behind, faults>>

Resolve ==
    /\ net.at = "resolve" /\ net.known /\ modem.power /\ modem.attached
    /\ NetReturns
    /\ UNCHANGED <<attachVars, guardVars, kept, fileVars, modem, behind, faults>>

-----------------------------------------------------------------------------
(* The guard.                                                              *)

\* Mutant: the count is tested before it is decremented.
LowerLate == /\ off' = off - 1
             /\ allowed' = IF off = 0 THEN FALSE ELSE allowed

\* disallowPowerOff
Lower ==
    /\ off' = off - 1
    /\ allowed' = IF off = 1 THEN FALSE ELSE allowed

\* allowPowerOff
Raise ==
    /\ off' = off + 1
    /\ allowed' = TRUE

\* The guard works for one guard at a time, after one allowPowerOff.
AllowPowerOff ==
    /\ net.at = "rest" /\ allows < MAX_ALLOWS
    /\ Raise /\ allows' = allows + 1
    /\ tangled' = (tangled \/ guards # 0)
    /\ UNCHANGED <<attachVars, guards, kept, net, fileVars, modem, behind, faults>>

DisallowPowerOff ==
    /\ net.at = "rest" /\ allows > 0
    /\ Lower /\ allows' = allows - 1
    /\ tangled' = (tangled \/ guards # 0)
    /\ UNCHANGED <<attachVars, guards, kept, net, fileVars, modem, behind, faults>>

-----------------------------------------------------------------------------
(* The second thread: the file calls.                                      *)

\* The first thread holds the mutex while it activates, or has kept it.
MutexFree == ~kept /\ net.at # "activate"

\* fs_open and the calls that need no open file begin with the guard, the calls
\* on a file and fs_close without it.
FileEnters(call) ==
    /\ file.at = "rest" /\ file' = [at |-> "command", call |-> call]
    /\ call = "open" => handle # "open"
    /\ call = "use" => handle = "open"
    /\ call = "close" => handle # "none"
    /\ IF call \in {"query", "open"}
         THEN /\ guards < MAX_GUARDS
              /\ Lower /\ guards' = guards + 1
              /\ tangled' = (tangled \/ guards # 0 \/ allows # 1)
              /\ UNCHANGED allows
         ELSE UNCHANGED guardVars
    /\ UNCHANGED <<attachVars, kept, net, handle, modem, behind, faults>>

\* One command of BG96, and after a failure getError.
FileCommand(ok) ==
    /\ file.at = "command" /\ MutexFree /\ Command(ok)
    /\ file' = [file EXCEPT !.at = "leave"]
    /\ handle' = IF file.call # "open" THEN handle
                 ELSE IF ok THEN "open" ELSE "failed"
    /\ UNCHANGED <<attachVars, guardVars, kept, net, modem, behind>>

\* fs_open keeps the guard, fs_close gives it back, both whatever the modem says.
FileLeaves ==
    /\ file.at = "leave" /\ file' = FileRests
    /\ IF file.call \in {"query", "close"}
         THEN Raise /\ guards' = guards - 1 /\ UNCHANGED <<allows, tangled>>
         ELSE UNCHANGED guardVars
    /\ handle' = IF file.call = "close" THEN "none" ELSE handle
    /\ UNCHANGED <<attachVars, kept, net, modem, behind, faults>>

-----------------------------------------------------------------------------

NetCall ==
    \/ \E ok \in BOOLEAN : ConnectApn(ok) \/ Disconnect(ok) \/ StartGNSS(ok)
    \/ \E known \in BOOLEAN : GetHostByName(known)
    \/ ConnectVoid \/ SetCredentials \/ PowerDown \/ StopMqttClient \/ Initialize
    \/ AllowPowerOff \/ DisallowPowerOff

NetStep ==
    \/ \E ok \in BOOLEAN :
         Startup(ok) \/ Misread(ok) \/ Deactivate(ok) \/ Fix(ok) \/ StopGNSS(ok)
    \/ \E result \in {"stored", "stale", "unstored"} : Register(result)
    \/ StartEvents \/ Spin \/ Cut \/ Resolve

FileStep ==
    \/ \E call \in FileCalls \ {"none"} : FileEnters(call)
    \/ \E ok \in BOOLEAN : FileCommand(ok)
    \/ FileLeaves

\* The network may grant an activation, or never do.
Next == NetCall \/ NetStep \/ Activate \/ FileStep

Spec == Init /\ [][Next]_vars

\* A call of the first thread that has begun goes on, and the modem answers at
\* last; nothing is assumed of the network.
FairSpec == Spec /\ WF_vars(NetStep)

-----------------------------------------------------------------------------
(* Properties.                                                             *)

TypeOK ==
    /\ {initialized, misled, dispatching, allowed, kept, tangled, behind} \subseteq BOOLEAN
    /\ queue \in {"none", "started", "error"}
    /\ net \in [at : NetSteps, call : NetCalls, tries : 0..Max({STARTS, TRIES}) - 1, known : BOOLEAN]
    /\ file \in [at : {"rest", "command", "leave"}, call : FileCalls]
    /\ handle \in {"none", "open", "failed"}
    /\ modem \in [power : BOOLEAN, attached : BOOLEAN, gnss : BOOLEAN]
    /\ off \in Int /\ allows \in 0..MAX_ALLOWS /\ guards \in 0..MAX_GUARDS
    /\ faults \in 0..MAX_FAULTS

\* An interface that takes itself for connected is attached, through any sequence
\* of connects, disconnects, power-downs and failures, unless its last connect was
\* misled (the APN could not be stored, there was no power, or an OK left unread,
\* as by a modem that does not register, passed for that of the activation), or the
\* MQTT client or initializeBG96 have left, reset or cut the modem behind it.
ConnectedIsAttached == initialized /\ ~modem.attached => behind \/ misled

\* connect asks for the network only when the thread of the events runs, though
\* it is started again after each disconnect, which an mbed Thread refuses.
EventsServed ==
    net.call \in {"apn", "void"} /\ net.at \in {"register", "misread", "activate"}
        => dispatching

\* Used in the one way it works - allowPowerOff once, then one guard at a time -
\* the guard keeps the power while a file call or an open file needs it, and
\* gives it back after.
GuardHolds == ~tangled /\ allows = 1 => (allowed <=> guards = 0)

\* No call leaves the GNSS engine running, unless a command has failed.
GnssStops == modem.gnss /\ net.at \notin {"fix", "end"} => faults > 0

\* connect spins without an address, gethostbyname without an answer, and the
\* activation until the network grants it.
Endless ==
    \/ net.at = "spin" /\ ~(modem.power /\ modem.attached)
    \/ net.at = "resolve" /\ ~(net.known /\ modem.power /\ modem.attached)
    \/ net.at = "activate"

\* Each call of the first thread comes back but for these three loops, which have
\* no time-out that works: of a call that waits in the activation, with
\* _bg96_mutex, nothing is promised.
CallsEnd == net.at # "rest" ~> net.at = "rest" \/ Endless

\* "we are in between an fs_open and fs_close, assuming power is on and cannot be
\* off": an open file has power, where the guard is used in its one right way (one
\* allowPowerOff, which sets the flag, then one guard at a time, which lowers it),
\* and nobody goes behind the interface.
FileHoldsPower == handle = "open" /\ ~behind /\ ~tangled /\ allows = 1 => modem.power
=============================================================================
