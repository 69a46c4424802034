------------------------------ MODULE TlsSocket ------------------------------
(***************************************************************************)
(* BG96TLSSocket: certificates are sent to files of the modem and named in *)
(* its ssl context, and recv asks until data come or a timer thread says   *)
(* that it is late.  That thread is one static mbed Thread, which starts   *)
(* once and never again.                                                   *)
(*                                                                         *)
(* The application is one thread; each command of a call is a step of its  *)
(* own, as BG96 gives the mutex back between them.  A certificate is a     *)
(* number, and its negative a file in which it is not whole; a file has    *)
(* the name of what it is for.  The modem is external.  A fault is a       *)
(* command that fails, an answer that is lost or late, or an upload that   *)
(* is not whole.                                                           *)
(***************************************************************************)
EXTENDS Integers, Sequences

CONSTANTS
    CERTS,          \* the certificates, 1..CERTS
    MAX_FAULTS      \* bound: faults of the commands for the certificates

ASSUME BoundAssumption == CERTS \in Nat \ {0} /\ MAX_FAULTS \in Nat

Kinds    == {"cacert", "clientcert", "privkey"}    \* .pem
Settings == {"cacert", "clientcert", "clientkey"}  \* of AT+QSSLCFG
Contexts == {0, 2}                                 \* the socket's and the MQTT client's
NoCert   == 0
NoFile   == "none"
TIMEOUT  == -2

VARIABLES
    sslctx_id,
    timeout_ovf,
    timer,          \* timeout_thread: "new", "ready", "waiting" or "ended"
    app,            \* the application: where it is, the files left of its call,
                    \* the certificate, what was stored; the count and result of recv,
                    \* and whether the thread was started for it
    file,           \* external: the certificate in each file
    path,           \* external: the file each setting of each context names
    link,           \* external: the connection is up
    inbox,          \* external: there are data to read
    faults

modemVars == <<file, path, link, inbox>>
vars == <<sslctx_id, timeout_ovf, timer, app, modemVars, faults>>

Rests == [at |-> "rest", todo |-> <<>>, cert |-> NoCert, stored |-> <<>>,
          cnt |-> -1, ret |-> -1,
          timed |-> FALSE]

Init ==
    /\ sslctx_id = 0 /\ timeout_ovf = FALSE /\ timer = "new"
    /\ app = Rests
    /\ file = [k \in Kinds |-> NoCert]
    /\ path = [c \in Contexts |-> [s \in Settings |-> NoFile]]
    /\ link = FALSE /\ inbox = FALSE
    /\ faults = 0

-----------------------------------------------------------------------------
(* The certificates.                                                       *)

Fault  == faults < MAX_FAULTS /\ faults' = faults + 1
Kind   == Head(app.todo)
Goes(at) == app' = [app EXCEPT !.at = at]
\* The call ends with an error, and with what was stored before.
Fails  == app' = [app EXCEPT !.at = "rest", !.todo = <<>>, !.stored = <<>>]

\* The MQTT client takes the socket for its own context.
UseForMqtt ==
    /\ app.at = "rest" /\ sslctx_id' = 2
    /\ app' = Rests
    /\ UNCHANGED <<timeout_ovf, timer, modemVars, faults>>

\* set_root_ca_cert, and set_client_cert_key with either part or both.
SetCerts(kinds, cert) ==
    /\ app.at = "rest"
    /\ app' = [Rests EXCEPT !.at = "exists", !.todo = kinds, !.cert = cert]
    /\ UNCHANGED <<sslctx_id, timeout_ovf, timer, modemVars, faults>>

\* Mutant: the file that is there is supposed to be right.
WhenThereKeep == "configure"

WhenThere == "delete"

\* file_exists: a file whose answer is lost is not there.
FileExists ==
    /\ app.at = "exists"
    /\ \/ Goes(IF file[Kind] = NoCert THEN "upload" ELSE WhenThere) /\ UNCHANGED faults
       \/ file[Kind] # NoCert /\ Fault /\ Goes("upload")
    /\ UNCHANGED <<sslctx_id, timeout_ovf, timer, modemVars>>

DeleteFile ==
    /\ app.at = "delete"
    /\ \/ file' = [file EXCEPT ![Kind] = NoCert] /\ Goes("upload") /\ UNCHANGED faults
       \/ Fault /\ Fails /\ file' \in {file, [file EXCEPT ![Kind] = NoCert]}
    /\ UNCHANGED <<sslctx_id, timeout_ovf, timer, path, link, inbox>>

\* AT+QFUPL does not replace a file.  Any +QFUPL is success, as nobody looks at the
\* size and the checksum in it; without one, what came of the file is not known.
Upload ==
    /\ app.at = "upload"
    /\ LET whole == [file EXCEPT ![Kind] = app.cert]
           short == [file EXCEPT ![Kind] = -app.cert] IN
       \/ file[Kind] # NoCert /\ Fails /\ UNCHANGED <<file, faults>>
       \/ /\ file[Kind] = NoCert
          /\ \/ Goes("configure") /\ file' = whole /\ UNCHANGED faults
             \/ Goes("configure") /\ file' = short /\ Fault
             \/ Fails /\ file' \in {file, whole, short} /\ Fault
    /\ UNCHANGED <<sslctx_id, timeout_ovf, timer, path, link, inbox>>

\* set_privkey_pem names the key's file as the client certificate.
SettingOf(kind) == IF kind = "cacert" THEN "cacert" ELSE "clientcert"

\* The next file of the call, or its end with OK.
Stored ==
    app' = [app EXCEPT !.at = IF Len(app.todo) = 1 THEN "rest" ELSE "exists",
                       !.todo = Tail(@), !.stored = Append(@, Kind)]

\* configure_..._path.  For the CA certificate BG96 answers a failure with -1 or
\* with the number of the error, and the socket takes all but 0 for success; for
\* the others the OK of the upload, when it is late, is taken for their own.
Configure ==
    /\ app.at = "configure"
    /\ LET named == [path EXCEPT ![sslctx_id][SettingOf(Kind)] = Kind] IN
       \/ path' = named /\ Stored /\ UNCHANGED faults
       \/ path' \in {path, named} /\ (Fails \/ Stored) /\ Fault
    /\ UNCHANGED <<sslctx_id, timeout_ovf, timer, file, link, inbox>>

-----------------------------------------------------------------------------
(* The connection.                                                         *)

\* connect and close: what the modem answers changes nothing of the socket.
Connect ==
    /\ app.at = "rest" /\ link' \in {link, TRUE}
    /\ app' = Rests
    /\ UNCHANGED <<sslctx_id, timeout_ovf, timer, file, path, inbox, faults>>

Close ==
    /\ app.at = "rest" /\ link' \in {link, FALSE} /\ inbox' = (inbox /\ link')
    /\ app' = Rests
    /\ UNCHANGED <<sslctx_id, timeout_ovf, timer, file, path, faults>>

\* recv: only the first start of the thread does anything.
Recv ==
    /\ app.at = "rest"
    /\ timer' = IF timer = "new" THEN "ready" ELSE timer
    /\ app' = [Rests EXCEPT !.at = "loop", !.timed = (timer = "new")]
    /\ UNCHANGED <<sslctx_id, timeout_ovf, modemVars, faults>>

\* while (!timeout_ovf && cnt < 0)
RecvLoop ==
    /\ app.at = "loop"
    /\ Goes(IF ~timeout_ovf /\ app.cnt < 0 THEN "read" ELSE "stop")
    /\ UNCHANGED <<sslctx_id, timeout_ovf, timer, modemVars, faults>>

\* Mutant: a read that is cut short is a device error.
CutReadError == -3012

CutRead == -1

\* sslrecv: the answer takes the data from the modem, and they are lost with the
\* line that announces them, and in a read that is cut short.  Without data, or
\* without an answer, 0.
RecvRead ==
    /\ app.at = "read"
    /\ \E cnt \in {0, 1, CutRead} :
         /\ app' = [app EXCEPT !.at = "loop", !.cnt = cnt]
         /\ \/ inbox /\ inbox' = FALSE
            \/ cnt = 0 /\ UNCHANGED inbox
    /\ UNCHANGED <<sslctx_id, timeout_ovf, timer, file, path, link, faults>>

Result == IF app.cnt = -1 /\ timeout_ovf THEN TIMEOUT ELSE app.cnt

\* Mutant: a thread that has not fired is left alone.
TimerLeft == UNCHANGED timer

\* The thread is terminated wherever it is.
TimerTerminated == timer' = "ended"

RecvStop ==
    /\ app.at = "stop"
    /\ TimerTerminated
    /\ app' = [app EXCEPT !.at = "rest", !.ret = Result]
    /\ UNCHANGED <<sslctx_id, timeout_ovf, modemVars, faults>>

-----------------------------------------------------------------------------
(* timeout_task.                                                           *)

\* Mutant: the flag is cleared when the time is over.
FlagWhenLateCleared == FALSE

FlagWhenLate == TRUE

TimerBegins ==
    /\ timer = "ready" /\ timer' = "waiting"
    /\ timeout_ovf' = FALSE
    /\ UNCHANGED <<sslctx_id, app, modemVars, faults>>

TimerFires ==
    /\ timer = "waiting" /\ timer' = "ended"
    /\ timeout_ovf' = FlagWhenLate
    /\ UNCHANGED <<sslctx_id, app, modemVars, faults>>

-----------------------------------------------------------------------------

\* The peer sends (external).
Arrive ==
    /\ link /\ ~inbox /\ inbox' = TRUE
    /\ UNCHANGED <<sslctx_id, timeout_ovf, timer, app, file, path, link, faults>>

AppCall ==
    \/ \E kinds \in {<<"cacert">>, <<"clientcert">>, <<"privkey">>, <<"clientcert", "privkey">>},
          cert \in 1..CERTS : SetCerts(kinds, cert)
    \/ UseForMqtt \/ Connect \/ Close \/ Recv

AppStep == FileExists \/ DeleteFile \/ Upload \/ Configure \/ RecvLoop \/ RecvRead \/ RecvStop

Timer == TimerBegins \/ TimerFires

Next == AppCall \/ AppStep \/ Timer \/ Arrive

Spec == Init /\ [][Next]_vars

\* The RTOS runs the timer thread, and a call that has begun goes on.
FairSpec == Spec /\ WF_vars(AppStep) /\ WF_vars(Timer)

-----------------------------------------------------------------------------
(* Properties.                                                             *)

TypeOK ==
    /\ sslctx_id \in Contexts /\ timeout_ovf \in BOOLEAN
    /\ timer \in {"new", "ready", "waiting", "ended"}
    /\ app.at \in {"rest", "exists", "delete", "upload", "configure", "loop", "read", "stop"}
    /\ app.todo \in Seq(Kinds) /\ app.stored \in Seq(Kinds)
    /\ app.cert \in 0..CERTS /\ app.cnt \in -1..1 /\ app.ret \in {TIMEOUT, -1, 0, 1}
    /\ app.timed \in BOOLEAN
    /\ file \in [Kinds -> -CERTS..CERTS]
    /\ path \in [Contexts -> [Settings -> Kinds \cup {NoFile}]]
    /\ link \in BOOLEAN /\ inbox \in BOOLEAN
    /\ faults \in 0..MAX_FAULTS

\* After an OK no file of the call is the old one, and none is missing, whatever was
\* there before and whichever answers got lost: each holds the new certificate, but
\* perhaps not all of it, as nobody looks at the size.  Without a fault it is whole,
\* and the context names the certificate that was stored last.  Of the private key
\* no more is said: it is named as the client certificate, in its place.
OkReplacesFile ==
    app.at = "rest" =>
        \A i \in DOMAIN app.stored :
            LET kind == app.stored[i] IN
            /\ file[kind] \in {app.cert, -app.cert}
            /\ faults = 0 => file[kind] = app.cert
            /\ faults = 0 /\ kind # "privkey" /\ i = Len(app.stored)
                   => path[sslctx_id][kind] = kind

\* The timer thread, which no mutex ties to recv, sets and clears the flag of the
\* socket only while recv runs: it never fires behind a recv that has returned, for
\* a later one to find.
TimerKeepsToRecv == [][timeout_ovf' # timeout_ovf => app.at \in {"loop", "read", "stop"}]_vars

\* The first recv ends by the timer if all its reads are cut short.  A later one
\* has no timer.
RecvEnds == app.at = "loop" /\ app.timed ~> app.at = "rest"
=============================================================================
