------------------------------ MODULE AtChannel ------------------------------
(***************************************************************************)
(* The AT command channel of BG96.cpp: one serial stream, one ATCmdParser  *)
(* with one time-out, one _bg96_mutex, and some fifty methods that send a  *)
(* command and read its replies, called from any thread.                   *)
(*                                                                         *)
(* A method is one or more critical sections (parts); a part is a list of  *)
(* parser steps.  The parser (external) reads lines until one matches and  *)
(* DROPS the others; it knows no "ERROR", so a command that fails is one   *)
(* whose answer does not come in time; and it does not empty the stream    *)
(* when a command is sent.  What a method leaves unread is therefore there *)
(* for the next one, which takes the first "OK" for its own.               *)
(*                                                                         *)
(* The modem (external) answers each command with ERROR or with the lines  *)
(* the method looks for and the OK that ends an answer, at once or late.   *)
(* A line is its kind; what it says matters only where it decides what is  *)
(* read next.  Loops that poll until a timer or a counter runs out are     *)
(* their last round.                                                       *)
(***************************************************************************)
EXTENDS Integers, Sequences, FiniteSetsExt

CONSTANTS
    Threads,
    NoThread,   \* the value of a free mutex
    Used,       \* the methods that are called
    MAX_CALLS,  \* bound: calls in a behaviour
    MAX_LATE    \* bound: answers that come late

ASSUME ThreadAssumption == NoThread \notin Threads
ASSUME BoundAssumption  == MAX_CALLS \in Nat /\ MAX_LATE \in Nat

-----------------------------------------------------------------------------
(* Steps.  A recv step says where to go on: past `hit' steps after a match, *)
(* past `miss' steps after a time-out, at the end of the part after a line *)
(* of `stop'.  `fails' marks the call as failed, `keeps' returns from it    *)
(* with the mutex and the time-out as they are.                            *)

END == 99
Err == <<"ERROR">>

Step0 == [op |-> "recv", answers |-> {}, kinds |-> {}, stop |-> {},
          hit |-> 0, miss |-> 0, fails |-> FALSE, keeps |-> FALSE]

Send(answers) == [Step0 EXCEPT !.op = "send", !.answers = answers \cup {Err}]
Plain         == Send({<<"OK">>})           \* AT+X
Asks(k)       == Send({<<k, "OK">>})        \* AT+X?
Starts(k)     == Send({<<"OK", k>>})        \* AT+X, the result comes later
Prompted      == Send({<<">">>})            \* AT+X, data is to follow
Back          == [Step0 EXCEPT !.op = "back"]

\* send(...) && recv(k) && ...
Must(k) == [Step0 EXCEPT !.kinds = {k}, !.miss = END, !.fails = TRUE]
\* recv(k), whose result is not looked at
May(k)  == [Step0 EXCEPT !.kinds = {k}]
\* if( recv(k) ) and the n steps that depend on it
If(k, n) == [May(k) EXCEPT !.miss = n]

\* A part: own says that it sets a time-out of its own, back that it sets the
\* default one again at its end, flush that it empties the stream; then and else
\* are the parts that may follow, 0 for none.
Default(steps) == [steps |-> steps, own |-> FALSE, back |-> FALSE, flush |-> FALSE,
                   then |-> {0}, else |-> {0}]
Timed(steps)   == [Default(steps) EXCEPT !.own = TRUE, !.back = TRUE]
Followed(part, then, else) == [part EXCEPT !.then = then, !.else = else]

-----------------------------------------------------------------------------
(* The methods: network.                                                   *)

\* AT+CGMM's OK is read before the text that came ahead of it.
AnyLine == [Must("any") EXCEPT !.kinds = {"any"}]
getRev == <<Default(<<Asks("text"), Must("OK"), AnyLine, Must("OK"),
                      Asks("text"), AnyLine, Must("OK")>>)>>

tx2bg96               == <<Default(<<Plain, Must("OK")>>)>>
configure_pdp_context == <<Default(<<Plain, Must("OK")>>)>>
\* What is sent is a reset.
BG96Ready             == <<Default(<<[Step0 EXCEPT !.op = "send", !.answers = {<<"RDY">>, <<>>}],
                                     Must("RDY")>>)>>
getSIMStatus          == <<Timed(<<Plain, Must("OK")>>)>>
getCSServiceStatus    == <<Timed(<<Asks("+CREG"), Must("+CREG"), Must("OK")>>)>>

\* Registration, operator, time zone; then the APN, which is stored if it cannot
\* be read.  When the modem does not register the time-out stays as it is, and
\* when the APN cannot be stored the mutex does.
Registration ==
    <<Send({<<"+CGREG", "OK">>, <<"+CGREG unregistered", "OK">>}),
      [Must("+CGREG") EXCEPT !.kinds = @ \cup {"+CGREG unregistered"},
                             !.stop = {"+CGREG unregistered"}],
      Asks("+COPS"), May("+COPS"), Plain, May("OK")>>
Apn == <<Asks("+QICSGP"), If("+QICSGP", 2), May("OK"), [Back EXCEPT !.hit = END],
         Back, Plain, [Must("OK") EXCEPT !.keeps = TRUE]>>
Activate == Followed([Timed(<<Plain, Must("OK")>>) EXCEPT !.own = FALSE], {0}, {0})
connect ==
    <<Followed([Default(<<Plain, If("OK", 2 + Len(Registration)), Plain, May("OK")>>
                        \o Registration \o Apn) EXCEPT !.own = TRUE], {2}, {2}),
      Activate>>
connect_pdp == <<Activate>>

disconnect == <<Timed(<<Plain, Must("OK")>>)>>

resolveUrl ==
    <<Timed(<<Send({<<"OK", "dnsgip error">>, <<"OK", "dnsgip count", "dnsgip">>}), Must("OK"),
              [If("dnsgip count", END) EXCEPT !.kinds = @ \cup {"dnsgip error"},
                                              !.stop = {"dnsgip error"}],
              Must("dnsgip")>>)>>

getRSSI       == <<Default(<<Asks("+CSQ"), Must("+CSQ")>>)>>
getIPAddress  == <<[Timed(<<Asks("+QIACT"), Must("+QIACT"), Must("OK")>>) EXCEPT !.flush = TRUE]>>
getMACAddress == <<Default(<<Asks("+QCCID"), May("+QCCID")>>)>>

-----------------------------------------------------------------------------
(* The methods: sockets.                                                   *)

\* Waits for an unsolicited line, and so drops what is left in the stream.
chkRxAvail == Timed(<<May("+QIURC")>>)

\* A read that brings no data leaves its OK.
ReadSocket ==
    Default(<<Send({<<"+QIRD", "OK">>, <<"+QIRD 0", "OK">>}),
              [Must("+QIRD") EXCEPT !.kinds = @ \cup {"+QIRD 0"}, !.stop = {"+QIRD 0"}],
              Must("OK")>>)

recv == <<Followed(chkRxAvail, {2}, {2}), ReadSocket>>

\* The link, and one round of the loop that drains it.
open == <<Followed(Timed(<<Starts("+QIOPEN"), Must("OK"), Must("+QIOPEN")>>), {2}, {0}),
          Followed(chkRxAvail, {3}, {3}), ReadSocket>>

getError == Default(<<Asks("+QIGETERROR"), Must("+QIGETERROR"), Must("OK")>>)
close    == <<Timed(<<Plain, Must("OK")>>)>>
rxAvail  == <<Default(<<Asks("+QIRD"), Must("+QIRD")>>)>>

\* Without the prompt no data is written, and SEND OK is waited for all the same.
send == <<Timed(<<Prompted, If(">", 1), Send({<<"SEND OK">>}), Must("SEND OK")>>)>>

-----------------------------------------------------------------------------
(* The methods: GNSS, files and TLS.                                       *)

startGNSS     == <<Default(<<Plain, Must("OK")>>)>>
stopGNSS      == <<Default(<<Plain, Must("OK")>>)>>
isGNSSOn      == <<Timed(<<Asks("+QGPS"), Must("+QGPS")>>)>>
updateGNSSLoc == <<Timed(<<Asks("+QGPSLOC"), Must("+QGPSLOC")>>)>>

file_exists == Timed(<<Asks("+QFLST"), Must("+QFLST"), Must("OK")>>)
delete_file == Default(<<Plain, Must("OK")>>)

\* Mutant: the early return of an upload that is refused does not unlock.
UploadKeeping == Timed(<<Send({<<"CONNECT">>}), [Must("CONNECT") EXCEPT !.keeps = TRUE],
                         Send({<<"+QFUPL", "OK">>}), Must("+QFUPL"), May("OK")>>)

Upload == Timed(<<Send({<<"CONNECT">>}), Must("CONNECT"),
                  Send({<<"+QFUPL", "OK">>}), Must("+QFUPL"), May("OK")>>)

\* A file that exists is kept, or deleted first.
send_file == <<Followed(file_exists, {0, 2}, {3}), Followed(delete_file, {3}, {0}), Upload>>

configure_cacert_path ==
    <<Timed(<<Plain, [Must("OK") EXCEPT !.hit = END, !.miss = 0],
              Asks("+QIGETERROR"), If("+QIGETERROR", 1), May("OK"),
              Asks("+QSSLCFG"), May("OK")>>)>>
configure_client_cert_path == <<Default(<<Plain, Must("OK")>>)>>
configure_privkey_path     == <<Default(<<Plain, Must("OK")>>)>>

sslopen           == <<Timed(<<Starts("+QSSLOPEN"), Must("OK"), Must("+QSSLOPEN")>>)>>
ssl_client_status == <<Timed(<<Asks("+QSSLSTATE"), May("+QSSLSTATE")>>)>>
sslsend           == <<Timed(<<Prompted, If(">", 1), Send({<<"SEND OK">>}), May("SEND OK")>>)>>
sslsend_timeout   == <<Timed(<<Prompted, If(">", END), Send({<<"SEND OK">>}), May("SEND OK")>>)>>
sslChkRxAvail     == Timed(<<May("+QSSLURC")>>)
sslrecv ==
    <<Followed(sslChkRxAvail, {2}, {2}),
      Timed(<<Send({<<"+QSSLRECV", "OK">>, <<"+QSSLRECV 0", "OK">>}),
              [Must("+QSSLRECV") EXCEPT !.kinds = @ \cup {"+QSSLRECV 0"},
                                        !.stop = {"+QSSLRECV 0"}],
              May("OK")>>)>>

\* Mutants: the answer to the close is not waited for; the time-out stays.
SslcloseBlind == <<Timed(<<Plain>>)>>
SslcloseSlow  == <<[Timed(<<Plain, Must("OK")>>) EXCEPT !.back = FALSE]>>

sslclose == <<Timed(<<Plain, Must("OK")>>)>>

fs_size          == <<Timed(<<Asks("+QFLDS"), Must("+QFLDS"), Must("OK")>>)>>
fs_nfiles        == <<Timed(<<Asks("+QFLDS"), Must("+QFLDS"), Must("OK")>>)>>
fs_file_size     == <<Timed(<<Asks("+QFLST"), Must("+QFLST"), Must("OK")>>)>>
fs_delete_file   == <<Timed(<<Plain, Must("OK")>>)>>
fs_upload_file   == <<Upload>>
fs_download_file == <<Timed(<<Send({<<"CONNECT", "+QFDWL", "OK">>}), Must("CONNECT"),
                              Must("+QFDWL")>>)>>
fs_open          == <<Default(<<Asks("+QFOPEN"), Must("+QFOPEN"), Must("OK")>>)>>
fs_read          == <<Timed(<<Send({<<"CONNECT", "OK">>}), Must("CONNECT"), Must("OK")>>)>>
fs_write         == <<Timed(<<Send({<<"CONNECT">>}), Must("CONNECT"),
                              Send({<<"+QFWRITE", "OK">>}), Must("OK")>>)>>
fs_seek          == <<Default(<<Plain, Must("OK")>>)>>
fs_get_offset    == <<Default(<<Asks("+QFPOSITION"), Must("+QFPOSITION")>>)>>
fs_truncate      == <<Timed(<<Plain, Must("OK")>>)>>
fs_close         == <<Timed(<<Plain, Must("OK")>>)>>

-----------------------------------------------------------------------------
(* The methods: MQTT.                                                      *)

mqtt_open == <<Followed(Timed(<<Starts("+QMTOPEN"), Must("OK"), May("+QMTOPEN")>>), {0}, {2}),
               getError>>
mqtt_close       == <<Default(<<Starts("+QMTCLOSE"), Must("OK"), May("+QMTCLOSE")>>)>>
send_generic_cmd == <<Timed(<<Plain, Must("OK")>>)>>
mqtt_connect ==
    <<Followed(Timed(<<Starts("+QMTCONN"), Must("OK"), May("+QMTCONN")>>), {0}, {2}), getError>>
mqtt_disconnect  == <<Default(<<Starts("+QMTDISC"), Must("OK")>>)>>
mqtt_subscribe   == <<Timed(<<Starts("+QMTSUB"), Must("OK")>>)>>
mqtt_unsubscribe == <<Timed(<<Starts("+QMTUNS"), Must("OK")>>)>>

\* Without the prompt the method returns with the mutex and its time-out.
mqtt_publish == <<Timed(<<Prompted, [Must(">") EXCEPT !.keeps = TRUE],
                          Starts("+QMTPUB"), Must("+QMTPUB")>>)>>
getLatesSyncTime == <<Timed(<<Asks("+QLTS"), Must("+QLTS"), Must("OK")>>)>>
mqtt_checkAvail  == <<Timed(<<May("+QMTRECV")>>)>>

Table == [
    getRev |-> getRev, tx2bg96 |-> tx2bg96, configure_pdp_context |-> configure_pdp_context,
    BG96Ready |-> BG96Ready, getSIMStatus |-> getSIMStatus,
    getCSServiceStatus |-> getCSServiceStatus, connect |-> connect, connect_pdp |-> connect_pdp,
    disconnect |-> disconnect, resolveUrl |-> resolveUrl, getRSSI |-> getRSSI,
    getIPAddress |-> getIPAddress, getMACAddress |-> getMACAddress, recv |-> recv, open |-> open,
    getError |-> <<getError>>, close |-> close, rxAvail |-> rxAvail, send |-> send,
    startGNSS |-> startGNSS, stopGNSS |-> stopGNSS, isGNSSOn |-> isGNSSOn,
    updateGNSSLoc |-> updateGNSSLoc, send_file |-> send_file,
    configure_cacert_path |-> configure_cacert_path,
    configure_client_cert_path |-> configure_client_cert_path,
    configure_privkey_path |-> configure_privkey_path, sslopen |-> sslopen,
    ssl_client_status |-> ssl_client_status, sslsend |-> sslsend,
    sslsend_timeout |-> sslsend_timeout, sslrecv |-> sslrecv, sslclose |-> sslclose,
    fs_size |-> fs_size, fs_nfiles |-> fs_nfiles, fs_file_size |-> fs_file_size,
    fs_delete_file |-> fs_delete_file, fs_upload_file |-> fs_upload_file,
    fs_download_file |-> fs_download_file, fs_open |-> fs_open, fs_read |-> fs_read,
    fs_write |-> fs_write, fs_seek |-> fs_seek, fs_get_offset |-> fs_get_offset,
    fs_truncate |-> fs_truncate, fs_close |-> fs_close, mqtt_open |-> mqtt_open,
    mqtt_close |-> mqtt_close, send_generic_cmd |-> send_generic_cmd,
    mqtt_connect |-> mqtt_connect, mqtt_disconnect |-> mqtt_disconnect,
    mqtt_subscribe |-> mqtt_subscribe, mqtt_unsubscribe |-> mqtt_unsubscribe,
    mqtt_publish |-> mqtt_publish, getLatesSyncTime |-> getLatesSyncTime,
    mqtt_checkAvail |-> mqtt_checkAvail]

ASSUME UsedAssumption == Used \subseteq DOMAIN Table

-----------------------------------------------------------------------------
VARIABLES
    mutex,    \* _bg96_mutex: its owner and how often the owner locked it
    timeout,  \* the parser's: "AT" (BG96_AT_TIMEOUT) or "own"
    stream,   \* the unread lines: their kind, the method they answer, and
              \* whether a command has been sent since
    coming,   \* the lines the modem is late with
    call,     \* each thread: its method, and where it is in it
    calls, lates,    \* counters for the bounds
    tardy,    \* history: the methods that got an answer late
    keepers,  \* history: the methods that returned with the mutex
    mixups    \* history: the replies that were taken for another command's

vars    == <<mutex, timeout, stream, coming, call, calls, lates, tardy, keepers, mixups>>
bounds  == <<calls, lates>>
history == <<tardy, keepers, mixups>>

Idle == [at |-> "idle", method |-> "", part |-> 1, step |-> 1, ok |-> TRUE]
\* A thread that is about to run a part of method m.
About(m, part) == [at |-> "lock", method |-> m, part |-> part, step |-> 1, ok |-> TRUE]

Init ==
    /\ mutex = [owner |-> NoThread, count |-> 0]
    /\ timeout = "AT"
    /\ stream = <<>> /\ coming = <<>>
    /\ call = [t \in Threads |-> Idle]
    /\ calls = 0 /\ lates = 0
    /\ tardy = {} /\ keepers = {} /\ mixups = <<>>

Part(t) == Table[call[t].method][call[t].part]
Step(t) == Part(t).steps[call[t].step]
InStep(t, op) == /\ call[t].at = "in"
                 /\ call[t].step <= Len(Part(t).steps)
                 /\ Step(t).op = op

\* Thread t goes on past the next n steps.
GoOn(t, n, ok) == call' = [call EXCEPT ![t].step = @ + 1 + n, ![t].ok = @ /\ ok]

Call(t, m) ==
    /\ call[t].at = "idle" /\ calls < MAX_CALLS
    /\ call' = [call EXCEPT ![t] = About(m, 1)]
    /\ calls' = calls + 1
    /\ UNCHANGED <<mutex, timeout, stream, coming, lates, history>>

\* mbed's Mutex is recursive: the owner may lock it again.
Lock(t) ==
    /\ call[t].at = "lock" /\ mutex.owner \in {NoThread, t}
    /\ mutex' = [owner |-> t, count |-> mutex.count + 1]
    /\ timeout' = IF Part(t).own THEN "own" ELSE timeout
    /\ call' = [call EXCEPT ![t].at = "in"]
    /\ UNCHANGED <<stream, coming, bounds, history>>

Aged(lines) == [i \in DOMAIN lines |-> [lines[i] EXCEPT !.old = TRUE]]
Lines(answer, m) == [i \in DOMAIN answer |-> [kind |-> answer[i], by |-> m, old |-> FALSE]]

\* The modem answers one command after the other.
Transmit(t) ==
    /\ InStep(t, "send")
    /\ \E answer \in Step(t).answers : LET lines == Lines(answer, call[t].method) IN
        \/ /\ coming = <<>>
           /\ stream' = Aged(stream) \o lines
           /\ UNCHANGED <<coming, lates, tardy>>
        \/ /\ lates < MAX_LATE
           /\ stream' = Aged(stream) /\ coming' = Aged(coming) \o lines
           /\ lates' = lates + 1
           /\ tardy' = tardy \cup {call[t].method}
    /\ GoOn(t, 0, TRUE)
    /\ UNCHANGED <<mutex, timeout, calls, keepers, mixups>>

Arrive ==
    /\ coming # <<>>
    /\ stream' = stream \o coming /\ coming' = <<>>
    /\ UNCHANGED <<mutex, timeout, call, bounds, history>>

Matching(t) == {i \in DOMAIN stream :
                   "any" \in Step(t).kinds \/ stream[i].kind \in Step(t).kinds}

\* The first line that matches; those before it are dropped.
Receive(t) ==
    /\ InStep(t, "recv") /\ Matching(t) # {}
    /\ LET i    == Min(Matching(t))
           line == stream[i]
       IN /\ stream' = SubSeq(stream, i + 1, Len(stream))
          /\ GoOn(t, IF line.kind \in Step(t).stop THEN END ELSE Step(t).hit, TRUE)
          /\ mixups' = IF line.old
                        THEN Append(mixups, [taker |-> call[t].method, part |-> call[t].part,
                                             giver |-> line.by])
                        ELSE mixups
    /\ UNCHANGED <<mutex, timeout, coming, bounds, tardy, keepers>>

\* No line matches in time; all that came are dropped.
TimeOut(t) ==
    /\ InStep(t, "recv") /\ Matching(t) = {}
    /\ stream' = <<>>
    /\ IF Step(t).keeps
          THEN /\ call' = [call EXCEPT ![t] = Idle]
               /\ keepers' = keepers \cup {call[t].method}
          ELSE /\ GoOn(t, Step(t).miss, ~Step(t).fails)
               /\ UNCHANGED keepers
    /\ UNCHANGED <<mutex, timeout, coming, bounds, tardy, mixups>>

SetBack(t) ==
    /\ InStep(t, "back")
    /\ timeout' = "AT"
    /\ GoOn(t, Step(t).hit, TRUE)
    /\ UNCHANGED <<mutex, stream, coming, bounds, history>>

\* Mutant: a way out unlocks once more.
UnlockedTwice == [owner |-> IF mutex.count = 1 THEN NoThread ELSE mutex.owner,
                  count |-> mutex.count - 2]

Unlocked == [owner |-> IF mutex.count = 1 THEN NoThread ELSE mutex.owner,
             count |-> mutex.count - 1]

\* The end of a part: what it resets, the unlock, and the next part or the return.
Unlock(t) ==
    /\ call[t].at = "in" /\ call[t].step > Len(Part(t).steps)
    /\ mutex' = Unlocked
    /\ timeout' = IF Part(t).back THEN "AT" ELSE timeout
    /\ stream' = IF Part(t).flush THEN <<>> ELSE stream
    /\ \E next \in (IF call[t].ok THEN Part(t).then ELSE Part(t).else) :
          call' = [call EXCEPT ![t] = IF next = 0 THEN Idle ELSE About(call[t].method, next)]
    /\ UNCHANGED <<coming, bounds, history>>

Next ==
    \/ \E t \in Threads :
          \/ \E m \in Used : Call(t, m)
          \/ Lock(t) \/ Transmit(t) \/ Receive(t) \/ TimeOut(t) \/ SetBack(t) \/ Unlock(t)
    \/ Arrive

Spec == Init /\ [][Next]_vars

-----------------------------------------------------------------------------
(* Properties.                                                             *)

\* Each variable has its type; a thread is in a part its method has, and only the
\* owner of the mutex is inside one.
TypeOK ==
    /\ mutex.owner \in Threads \cup {NoThread}
    /\ mutex.count \in 0..MAX_CALLS /\ (mutex.count = 0 <=> mutex.owner = NoThread)
    /\ timeout \in {"AT", "own"}
    /\ \A t \in Threads :
         /\ call[t].at \in {"idle", "lock", "in"}
         /\ call[t].at # "idle" => /\ call[t].method \in DOMAIN Table
                                   /\ call[t].part \in DOMAIN Table[call[t].method]
         /\ call[t].at = "in" => mutex.owner = t
    /\ calls \in 0..MAX_CALLS /\ lates \in 0..MAX_LATE

\* Every method that sets a time-out of its own sets the default one again on each of
\* its ways out, so that a command without one waits BG96_AT_TIMEOUT.  BG96::connect
\* alone unlocks with its own (392), for as long as its thread is about to activate
\* the context.
TimeoutRestored ==
    mutex.owner = NoThread /\ timeout = "own" =>
        \E t \in Threads : call[t].at = "lock" /\ call[t].method = "connect" /\ call[t].part = 2

\* A thread outside the driver does not hold _bg96_mutex, on which every other thread
\* would wait for ever, unless BG96::mqtt_publish (1357) or BG96::connect (387) returned
\* early.  No other of the many early returns forgets the unlock.
KeptByTwoOnly ==
    \A t \in Threads : mutex.owner = t /\ call[t].at # "in" =>
        keepers # {} /\ keepers \subseteq {"mqtt_publish", "connect"}

\* The methods that return while a line of their answer is unread, though it is in time
\* and another method could take it for its own.
Untidy == {"connect", "getRSSI", "getMACAddress", "recv", "open", "rxAvail", "isGNSSOn",
           "updateGNSSLoc", "ssl_client_status", "sslrecv", "fs_download_file",
           "fs_get_offset"}

\* The first time a method takes a line for its reply that answers an earlier command,
\* that line was late or was left by one of the methods above: all others read the
\* answer to its end, on success and on failure, so that whatever two threads call, the
\* reply one of them reads is its own.
MixupHasCause == mixups # <<>> => mixups[1].giver \in tardy \cup Untidy
=============================================================================
