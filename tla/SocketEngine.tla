---------------------------- MODULE SocketEngine ----------------------------
(***************************************************************************)
(* The data path of BG96Interface: the socket table g_sock, the read and   *)
(* write state machines g_socRx and g_socTx, and the periodic event that   *)
(* drives them.                                                            *)
(*                                                                         *)
(* socket_recv, socket_send and socket_close run under txrx_mutex, so each *)
(* is one step here; what they return is read from the shared record AFTER *)
(* the unlock, in a step of its own.  g_eq_event holds txrx_mutex too, but *)
(* socket_open, socket_connect, socket_attach and socket_listen do not     *)
(* take it, so the event is a step per socket and per callback and they    *)
(* come in between.  (An event that finds the mutex taken only puts itself *)
(* back in the queue: EqSchedule has that race.)                           *)
(*                                                                         *)
(* Data is counted, not carried: a buffer is a name, a read or a write is  *)
(* a number of bytes.  The modem is external: per socket, whether it has   *)
(* the connection and how many bytes wait for AT+QIRD.                     *)
(***************************************************************************)
EXTENDS Integers

CONSTANTS
    SOCKET_COUNT,   \* BG96_SOCKET_COUNT
    READ_TO,        \* BG96_LIBRARY_READ_TIMEOUTMS/EQ_FREQ, in events
    SLOW_FACTOR,    \* EQ_FREQ_SLOW/EQ_FREQ
    BUFF_SIZE,      \* BG96::BG96_BUFF_SIZE
    Buffers,        \* the application's buffers
    RecvSizes,      \* the sizes it reads with
    SendSizes,      \* the sizes it writes with
    Listeners,      \* the sockets it binds or listens on
    SameRetry,      \* does it retry a call with the arguments it began with?
    SendOutcomes,   \* what BG96::send may come to, see TxOutcomes
    MAX_FAULTS,     \* bound: modem faults in a behaviour
    MAX_ARRIVALS,   \* bound: bytes that arrive in a behaviour
    MAX_OPENS       \* bound: sockets opened in a behaviour

Sockets == 0..(SOCKET_COUNT - 1)

ASSUME SizeAssumption ==
    /\ SOCKET_COUNT \in Nat \ {0}
    /\ READ_TO \in Nat \ {0}
    /\ SLOW_FACTOR \in Nat \ {0}
    /\ BUFF_SIZE \in Nat \ {0}
    /\ RecvSizes \subseteq Nat \ {0}
    /\ SendSizes \subseteq Nat \ {0}
    /\ {MAX_FAULTS, MAX_ARRIVALS, MAX_OPENS} \subseteq Nat
ASSUME UseAssumption ==
    /\ Buffers # {}
    /\ Listeners \subseteq Sockets
    /\ SameRetry \in BOOLEAN
    /\ SendOutcomes \subseteq {"sent", "refused", "unprompted", "unacked"}

NoBuffer == "NULL"
Error    == -1              \* NSAPI_ERROR_DEVICE_ERROR
SlowCap  == READ_TO * SLOW_FACTOR

VARIABLES
    sock,           \* g_sock: id, disTO, connected, _callback
    rx,             \* g_socRx, with the history fields polls and got
    tx,             \* g_socTx, with the history fields took, lost and twice
    ret,            \* the call whose return value is still to be read
    ev,             \* the event thread: where it is, its i, done and goSlow
    events,         \* scheduled_events and the queue it counts
    modem,          \* external: per socket, linked and inbox
    faults, arrivals, opens

vars == <<sock, rx, tx, ret, ev, events, modem, faults, arrivals, opens>>

RxStates == {"READ_START", "READ_INIT", "READ_ACTIVE", "READ_DOCB", "DATA_AVAILABLE"}
TxStates == {"TX_IDLE", "TX_STARTING", "TX_ACTIVE", "TX_DOCB", "TX_COMPLETE"}

FreeSock == [id |-> -1, disTO |-> FALSE, connected |-> FALSE, callback |-> FALSE]
IdleRx   == [state |-> "READ_START", disTO |-> FALSE, timer |-> 0, req |-> 0,
             count |-> 0, buffer |-> NoBuffer, size |-> 0, callback |-> FALSE,
             polls |-> 0, got |-> 0]
IdleTx   == [state |-> "TX_IDLE", orig |-> 0, req |-> 0, sent |-> 0, from |-> 0,
             buffer |-> NoBuffer, callback |-> FALSE, took |-> 0, lost |-> 0, twice |-> 0]
NoReturn == [op |-> "none", buffer |-> NoBuffer, size |-> 0]
EvIdle   == [at |-> "idle", i |-> 0, more |-> FALSE, slow |-> FALSE]

Init ==
    /\ sock = [i \in Sockets |-> FreeSock]
    /\ rx = [i \in Sockets |-> IdleRx]
    /\ tx = [i \in Sockets |-> IdleTx]
    /\ ret = [i \in Sockets |-> NoReturn]
    /\ ev = EvIdle
    /\ events = 0
    /\ modem = [i \in Sockets |-> [linked |-> FALSE, inbox |-> 0]]
    /\ faults = 0 /\ arrivals = 0 /\ opens = 0

-----------------------------------------------------------------------------
(* Helpers.                                                                *)

IsOpen(i) == sock[i].id # -1
Least(a, b) == IF a < b THEN a ELSE b

\* txrx_mutex is free, and no thread is inside a call on the socket: mbed's
\* socket classes let one call at a time into the stack.
MayCall(i) == ev.at = "idle" /\ IsOpen(i) /\ ret[i] = NoReturn

\* Mutant: the cap is reached one event early.
ScheduledEarly(n) == IF n + 1 < SOCKET_COUNT THEN n + 1 ELSE n

\* _eq_schedule
Scheduled(n) == IF n < SOCKET_COUNT THEN n + 1 ELSE n

\* A request of the application that must repeat an unfinished one.
Repeats(pending, buffer, size, b, n) == SameRetry /\ pending => b = buffer /\ n = size

\* BG96::recv of at most req bytes: what it returns, the bytes it takes out of
\* the modem, and whether that is a fault.  Without a link AT+QIRD fails; a
\* reply that is cut short is an error that may have consumed the data.
RxOutcomes(i, req) ==
    LET n == Least(req, modem[i].inbox) IN
    IF ~modem[i].linked
      THEN {[cnt |-> Error, taken |-> 0, fault |-> 0]}
      ELSE {[cnt |-> n, taken |-> n, fault |-> 0]}
           \cup {o \in {[cnt |-> Error, taken |-> t, fault |-> 1] : t \in {0, n}} :
                   faults < MAX_FAULTS}

\* An outcome of BG96::send: what it returns (done), what the modem took, what it
\* will never have of it although done is true, and what it will be given again
\* although it has it.
Outcome(name, done, took, lost, twice, fault) ==
    [name |-> name, done |-> done, took |-> took, lost |-> lost, twice |-> twice,
     fault |-> fault]

\* BG96::send of req bytes.
\*   sent       SEND OK
\*   refused    the command, or the data after the prompt, cannot be written
\*   unprompted the modem does not answer with the prompt
\*   unacked    the data is written and no SEND OK comes
TxOutcomes(i, req) ==
    LET all == {Outcome("sent",       TRUE,  req, 0,   0,   0),
                Outcome("refused",    TRUE,  0,   req, 0,   1),
                Outcome("unprompted", FALSE, 0,   0,   0,   1),
                Outcome("unacked",    FALSE, req, 0,   req, 1)}
    IN IF ~modem[i].linked
         THEN {Outcome("unprompted", FALSE, 0, 0, 0, 0)}
         ELSE {o \in all : o.name \in SendOutcomes /\ faults + o.fault <= MAX_FAULTS}

-----------------------------------------------------------------------------
(* rx_event and tx_event: the record after one attempt, and whether it     *)
(* says EVENT_GETMORE.                                                     *)


\* A request that is over calls back if it has a callback.
RxDone(r) == IF r.callback THEN "READ_DOCB" ELSE "DATA_AVAILABLE"

\* Mutant: >= for >.
LateOrEqual(r) == r.timer + 1 >= READ_TO /\ ~r.disTO

\* Mutant: the flag that disables the time-out is not looked at.
LateDespiteFlag(r) == r.timer + 1 > READ_TO

\* if( ++ptr->m_rx_timer > (BG96_LIBRARY_READ_TIMEOUTMS/EQ_FREQ) && !ptr->m_rx_disTO )
Late(r) == r.timer + 1 > READ_TO /\ ~r.disTO

\* An attempt that brought nothing (history: at most READ_TO + 1 are told apart).
Polled(r) == [r EXCEPT !.polls = Least(@ + 1, READ_TO + 1)]

\* Mutant: the timer is not advanced.
TickedNever(r) == Polled(r)

Ticked(r) == [Polled(r) EXCEPT !.timer = @ + 1]

\* Mutant: the bytes are not added to m_rx_return_cnt.
ReceivedUncounted(r, n) == [r EXCEPT !.state = RxDone(r), !.got = @ + n]

\* The bytes go to the buffer of the request: got is how many (history).
Received(r, n) == [r EXCEPT !.state = RxDone(r), !.count = @ + n, !.got = @ + n]

\* cnt is what BG96::recv returned.
RxEvent(r, cnt) ==
    IF cnt = Error  THEN [rx |-> [Polled(r) EXCEPT !.timer = 0], more |-> TRUE]
    ELSE IF cnt > 0 THEN [rx |-> Received(r, cnt), more |-> FALSE]
    ELSE IF Late(r) THEN [rx |-> [Ticked(r) EXCEPT !.state = RxDone(r), !.count = 0],
                          more |-> FALSE]
    ELSE [rx |-> Ticked(r), more |-> TRUE]

\* Mutant: the next chunk is not cut to BG96_BUFF_SIZE's remainder of the data.
NextChunkFull(t) == [t EXCEPT !.from = @ + t.req, !.req = BUFF_SIZE]

\* The pointer moves past the chunk that was sent, and the next one is cut.
NextChunk(t) == [t EXCEPT !.from = @ + t.req, !.req = Least(t.orig - t.sent, BUFF_SIZE)]

\* What came of the bytes of an attempt (history).
Booked(t, o) == [t EXCEPT !.took = @ + o.took, !.lost = @ + o.lost, !.twice = @ + o.twice]

\* Mutant: a chunk that did not get through is skipped.
TxEventSkipping(t, o) ==
    LET sent == [Booked(t, o) EXCEPT !.sent = @ + t.req]
    IN IF sent.sent < sent.orig THEN [tx |-> NextChunk(sent), more |-> TRUE]
       ELSE [tx |-> [sent EXCEPT !.state = IF t.callback THEN "TX_DOCB" ELSE "TX_COMPLETE"],
             more |-> FALSE]

\* o is what BG96::send came to.
TxEvent(t, o) ==
    LET sent == [Booked(t, o) EXCEPT !.sent = @ + t.req]
    IN IF ~o.done THEN [tx |-> Booked(t, o), more |-> TRUE]
       ELSE IF sent.sent < sent.orig THEN [tx |-> NextChunk(sent), more |-> TRUE]
       ELSE [tx |-> [sent EXCEPT !.state = IF t.callback THEN "TX_DOCB" ELSE "TX_COMPLETE"],
             more |-> FALSE]

-----------------------------------------------------------------------------
(* The calls of the application.                                           *)

\* The first free socket; takes gvupdate_mutex, so the event may be under way.
SocketOpen(i) ==
    /\ opens < MAX_OPENS
    /\ ~IsOpen(i) /\ \A j \in 0..(i - 1) : IsOpen(j)
    /\ sock' = [sock EXCEPT ![i] = [FreeSock EXCEPT !.id = i]]
    /\ tx' = [tx EXCEPT ![i].state = "TX_IDLE"]
    /\ rx' = [rx EXCEPT ![i].state = "READ_START"]
    /\ opens' = opens + 1
    /\ UNCHANGED <<ret, ev, events, modem, faults, arrivals>>

\* The link is closed only for a socket that counts as connected, and whether
\* AT+QICLOSE succeeds is not looked at.
SocketClose(i) ==
    /\ MayCall(i)
    /\ \E failed \in {0, 1} :
         /\ failed = 1 => sock[i].connected /\ faults < MAX_FAULTS
         /\ faults' = faults + failed
         /\ modem' = IF sock[i].connected /\ failed = 0
                       THEN [modem EXCEPT ![i] = [linked |-> FALSE, inbox |-> 0]]
                       ELSE modem
    /\ sock' = [sock EXCEPT ![i] = FreeSock]
    /\ tx' = [tx EXCEPT ![i].state = "TX_IDLE"]
    /\ rx' = [rx EXCEPT ![i].state = "READ_START"]
    /\ UNCHANGED <<ret, ev, events, arrivals, opens>>

\* Up to three attempts of AT+QIOPEN, each failure followed by AT+QICLOSE; an
\* id that is in use fails.  The loop counts the attempt that succeeds, so a
\* success of the third one is an error.  A link that opens is drained.
SocketConnect(i) ==
    /\ IsOpen(i) /\ ret[i] = NoReturn
    /\ \E attempt \in 1..4 :
         /\ modem[i].linked => attempt > 1
         /\ faults' = faults + attempt - (IF modem[i].linked THEN 2 ELSE 1)
         /\ faults' <= MAX_FAULTS
         /\ modem' = [modem EXCEPT ![i] = [linked |-> attempt < 4, inbox |-> 0]]
         /\ sock' = [sock EXCEPT ![i].connected = @ \/ attempt < 3]
    /\ UNCHANGED <<rx, tx, ret, ev, events, arrivals, opens>>

SocketAttach(i, callback) ==
    /\ IsOpen(i) /\ ret[i] = NoReturn
    /\ sock' = [sock EXCEPT ![i].callback = callback]
    /\ UNCHANGED <<rx, tx, ret, ev, events, modem, faults, arrivals, opens>>

\* socket_bind and socket_listen; a connected socket is refused.
SocketListen(i) ==
    /\ i \in Listeners
    /\ IsOpen(i) /\ ret[i] = NoReturn
    /\ ~sock[i].connected
    /\ sock' = [sock EXCEPT ![i].disTO = TRUE]
    /\ events' = Scheduled(events)
    /\ UNCHANGED <<rx, tx, ret, ev, modem, faults, arrivals, opens>>

\* The request socket_recv posts; m_rx_asked_size is never set, size is history.
Request(i, b, n) ==
    [IdleRx EXCEPT !.state = "READ_INIT", !.disTO = sock[i].disTO,
                   !.req = Least(n, BUFF_SIZE), !.buffer = b, !.size = n,
                   !.callback = sock[i].callback]

\* socket_recv that posts a read, and makes the first attempt.
RecvStart(i, b, n) ==
    /\ MayCall(i)
    /\ rx[i].state = "READ_START"
    /\ \E o \in RxOutcomes(i, Request(i, b, n).req) :
         LET e == RxEvent(Request(i, b, n), o.cnt) IN
         /\ faults' = faults + o.fault
         /\ modem' = [modem EXCEPT ![i].inbox = @ - o.taken]
         /\ IF e.more
              THEN /\ rx' = [rx EXCEPT ![i] = [e.rx EXCEPT !.state = "READ_ACTIVE"]]
                   /\ events' = Scheduled(events)
                   /\ ret' = ret
              ELSE /\ rx' = [rx EXCEPT ![i] = [e.rx EXCEPT !.state = "READ_START"]]
                   /\ ret' = [ret EXCEPT ![i] = [op |-> "recv", buffer |-> b, size |-> n]]
                   /\ events' = events
    /\ UNCHANGED <<sock, tx, ev, arrivals, opens>>

\* socket_recv that collects a read.  In every other state of the read it
\* returns WOULD_BLOCK or DEVICE_ERROR and changes nothing.
RecvCollect(i, b, n) ==
    /\ MayCall(i)
    /\ rx[i].state = "DATA_AVAILABLE"
    /\ Repeats(TRUE, rx[i].buffer, rx[i].size, b, n)
    /\ rx' = [rx EXCEPT ![i].state = "READ_START"]
    /\ ret' = [ret EXCEPT ![i] = [op |-> "recv", buffer |-> b, size |-> n]]
    /\ UNCHANGED <<sock, tx, ev, events, modem, faults, arrivals, opens>>

\* Mutant: m_tx_total_sent is not reset.
WriteUnreset(i, b, n) ==
    [IdleTx EXCEPT !.state = "TX_STARTING", !.buffer = b, !.orig = n, !.sent = tx[i].sent,
                   !.req = Least(n, BUFF_SIZE), !.callback = sock[i].callback]

\* The write socket_send posts.
Write(i, b, n) ==
    [IdleTx EXCEPT !.state = "TX_STARTING", !.buffer = b, !.orig = n,
                   !.req = Least(n, BUFF_SIZE), !.callback = sock[i].callback]

\* socket_send that posts a write, and sends the first chunk.
SendStart(i, b, n) ==
    /\ MayCall(i)
    /\ tx[i].state = "TX_IDLE"
    /\ \E o \in TxOutcomes(i, Write(i, b, n).req) :
         LET e == TxEvent(Write(i, b, n), o) IN
         /\ faults' = faults + o.fault
         /\ IF e.more
              THEN /\ tx' = [tx EXCEPT ![i] = [e.tx EXCEPT !.state = "TX_ACTIVE"]]
                   /\ events' = Scheduled(events)
                   /\ ret' = ret
              ELSE /\ tx' = [tx EXCEPT ![i] = [e.tx EXCEPT !.state = "TX_IDLE"]]
                   /\ ret' = [ret EXCEPT ![i] = [op |-> "send", buffer |-> b, size |-> n]]
                   /\ events' = events
    /\ UNCHANGED <<sock, rx, ev, modem, arrivals, opens>>

\* socket_send that collects a write, as RecvCollect.
SendCollect(i, b, n) ==
    /\ MayCall(i)
    /\ tx[i].state = "TX_COMPLETE"
    /\ Repeats(TRUE, tx[i].buffer, tx[i].orig, b, n)
    /\ tx' = [tx EXCEPT ![i].state = "TX_IDLE"]
    /\ ret' = [ret EXCEPT ![i] = [op |-> "send", buffer |-> b, size |-> n]]
    /\ UNCHANGED <<sock, rx, ev, events, modem, faults, arrivals, opens>>

\* return rxsock->m_rx_return_cnt, return txsock->m_tx_total_sent: after the
\* mutex is unlocked.
Return(i) ==
    /\ ret[i] # NoReturn
    /\ ret' = [ret EXCEPT ![i] = NoReturn]
    /\ UNCHANGED <<sock, rx, tx, ev, events, modem, faults, arrivals, opens>>

-----------------------------------------------------------------------------
(* g_eq_event.                                                             *)

EvBegin ==
    /\ ev.at = "idle"
    /\ events > 0
    /\ events' = events - 1
    /\ ev' = [EvIdle EXCEPT !.at = "rx"]
    /\ UNCHANGED <<sock, rx, tx, ret, modem, faults, arrivals, opens>>

\* Mutant: the timer of a read without time-out is not held at the cap.
UnclampedTimer(r, slow) == r

\* Mutant: the mark is that of the time-out.
ClampedSoon(r, slow) == IF slow \/ r.timer > READ_TO THEN [r EXCEPT !.timer = SlowCap] ELSE r

\* A timer that has passed the slow mark is held there; once one has, so are
\* those of the sockets after it, unless a write is active in between.
Clamped(r, slow) == IF slow THEN [r EXCEPT !.timer = SlowCap] ELSE r

\* Mutant: &= for |=.
EvMoreAll(before, more) == before /\ more

\* done |= ...
EvMore(before, more) == before \/ more

EvRx ==
    /\ ev.at = "rx"
    /\ LET i == ev.i IN
       IF rx[i].state = "READ_ACTIVE" \/ rx[i].disTO
         THEN \E o \in RxOutcomes(i, rx[i].req) :
                LET e    == RxEvent(rx[i], o.cnt)
                    slow == ev.slow \/ e.rx.timer > SlowCap
                IN /\ rx' = [rx EXCEPT ![i] = Clamped(e.rx, slow)]
                   /\ ev' = [ev EXCEPT !.at = "tx", !.more = EvMore(@, e.more), !.slow = slow]
                   /\ faults' = faults + o.fault
                   /\ modem' = [modem EXCEPT ![i].inbox = @ - o.taken]
         ELSE /\ ev' = [ev EXCEPT !.at = "tx"]
              /\ UNCHANGED <<rx, faults, modem>>
    /\ UNCHANGED <<sock, tx, ret, events, arrivals, opens>>

\* The next socket of the loop, or on to the callbacks.
EvNext(e, phase, after) ==
    IF e.i + 1 < SOCKET_COUNT THEN [e EXCEPT !.i = @ + 1, !.at = phase]
                              ELSE [e EXCEPT !.i = 0, !.at = after]

EvTx ==
    /\ ev.at = "tx"
    /\ LET i == ev.i IN
       IF tx[i].state = "TX_ACTIVE"
         THEN \E o \in TxOutcomes(i, tx[i].req) :
                LET e == TxEvent(tx[i], o)
                IN /\ tx' = [tx EXCEPT ![i] = e.tx]
                   /\ ev' = EvNext([ev EXCEPT !.more = EvMore(@, e.more), !.slow = FALSE],
                                   "rx", "callback")
                   /\ faults' = faults + o.fault
         ELSE /\ ev' = EvNext(ev, "rx", "callback")
              /\ UNCHANGED <<tx, faults>>
    /\ UNCHANGED <<sock, rx, ret, events, modem, arrivals, opens>>

\* The state is moved on before the callback runs.
RxCalledBack(i) ==
    IF rx[i].state = "READ_DOCB" THEN [rx EXCEPT ![i].state = "DATA_AVAILABLE"] ELSE rx

\* Mutant: an else between the callback of the read and that of the write.
TxCalledBackElse(i) ==
    IF tx[i].state = "TX_DOCB" /\ rx[i].state # "READ_DOCB"
      THEN [tx EXCEPT ![i].state = "TX_COMPLETE"] ELSE tx

TxCalledBack(i) ==
    IF tx[i].state = "TX_DOCB" THEN [tx EXCEPT ![i].state = "TX_COMPLETE"] ELSE tx

EvCallback ==
    /\ ev.at = "callback"
    /\ rx' = RxCalledBack(ev.i)
    /\ tx' = TxCalledBack(ev.i)
    /\ ev' = EvNext(ev, "callback", "end")
    /\ UNCHANGED <<sock, ret, events, modem, faults, arrivals, opens>>

EvEnd ==
    /\ ev.at = "end"
    /\ events' = IF ev.more THEN Scheduled(events) ELSE events
    /\ ev' = EvIdle
    /\ UNCHANGED <<sock, rx, tx, ret, modem, faults, arrivals, opens>>

-----------------------------------------------------------------------------
(* The modem (external).                                                   *)

Arrive(i) ==
    /\ modem[i].linked
    /\ arrivals < MAX_ARRIVALS
    /\ modem' = [modem EXCEPT ![i].inbox = @ + 1]
    /\ arrivals' = arrivals + 1
    /\ UNCHANGED <<sock, rx, tx, ret, ev, events, faults, opens>>

\* The peer closes the connection.
Hangup(i) ==
    /\ modem[i].linked
    /\ faults < MAX_FAULTS
    /\ modem' = [modem EXCEPT ![i] = [linked |-> FALSE, inbox |-> 0]]
    /\ faults' = faults + 1
    /\ UNCHANGED <<sock, rx, tx, ret, ev, events, arrivals, opens>>

-----------------------------------------------------------------------------
AppNext(i) ==
    \/ SocketOpen(i) \/ SocketClose(i) \/ SocketConnect(i) \/ SocketListen(i)
    \/ \E callback \in BOOLEAN : SocketAttach(i, callback)
    \/ \E b \in Buffers, n \in RecvSizes : RecvStart(i, b, n) \/ RecvCollect(i, b, n)
    \/ \E b \in Buffers, n \in SendSizes : SendStart(i, b, n) \/ SendCollect(i, b, n)

EvStep == EvBegin \/ EvRx \/ EvTx \/ EvCallback \/ EvEnd

Next == \/ EvStep
        \/ \E i \in Sockets : AppNext(i) \/ Return(i) \/ Arrive(i) \/ Hangup(i)

Spec == Init /\ [][Next]_vars

\* The dispatcher runs, and a thread inside a call gets to its return; the
\* application and the modem owe nothing.
FairSpec == Spec /\ WF_vars(EvStep) /\ \A i \in Sockets : WF_vars(Return(i))

-----------------------------------------------------------------------------
(* Properties.                                                             *)

\* The types, and the ranges that keep the integers of the records small:
\* the timer of a read that never times out is held at the slow mark and does
\* not run on towards the overflow of its int.
TypeOK ==
    /\ sock \in [Sockets -> [id : {-1} \cup Sockets, disTO : BOOLEAN,
                             connected : BOOLEAN, callback : BOOLEAN]]
    /\ \A i \in Sockets :
         /\ rx[i].state \in RxStates /\ rx[i].timer \in 0..SlowCap
         /\ rx[i].req \in 0..BUFF_SIZE /\ rx[i].count \in Nat
         /\ tx[i].state \in TxStates
         /\ {tx[i].orig, tx[i].sent, tx[i].req, tx[i].from} \subseteq Nat
         /\ ret[i].op \in {"none", "recv", "send"}
         /\ modem[i].linked \in BOOLEAN /\ modem[i].inbox \in Nat
    /\ ev.at \in {"idle", "rx", "tx", "callback", "end"} /\ ev.i \in Sockets
    /\ events \in 0..SOCKET_COUNT

\* The transient states are never seen by a call: whenever txrx_mutex is free
\* no machine is in READ_INIT, READ_DOCB, TX_STARTING or TX_DOCB, so a callback
\* that is due has run and no call takes the DEVICE_ERROR branches.
TransientHidden ==
    ev.at = "idle" => \A i \in Sockets :
        /\ rx[i].state \in {"READ_START", "READ_ACTIVE", "DATA_AVAILABLE"}
        /\ tx[i].state \in {"TX_IDLE", "TX_ACTIVE", "TX_COMPLETE"}

\* "received bytes received": what socket_recv returns, read from the shared
\* record after the unlock, is the number of bytes its request put in the
\* buffer of this very call, and they fit in it.  For sockets that do not listen
\* and callers that repeat a call with its arguments.
RecvReturnsItsData ==
    \A i \in Sockets : ret[i].op = "recv" =>
        /\ rx[i].count = rx[i].got
        /\ rx[i].got > 0 => rx[i].buffer = ret[i].buffer
        /\ rx[i].count <= ret[i].size

\* "no of bytes sent": what socket_send returns, over all the chunks, events and
\* repetitions of its write, is the size it was called with, and the modem has
\* each of these bytes of this call's buffer exactly once, but for what BG96::send
\* misreports: a chunk it could not write and said to be sent is missing (lost), a
\* chunk that was written and not acknowledged is there again (twice).  It is
\* stated for callers that repeat a call with its arguments (SameRetry): a write
\* that is collected with others answers for the first ones.
SendReturnsItsData ==
    \A i \in Sockets : ret[i].op = "send" =>
        /\ tx[i].sent = ret[i].size
        /\ tx[i].took + tx[i].lost = tx[i].sent + tx[i].twice
        /\ tx[i].buffer = ret[i].buffer

\* The chunks of a write are consecutive, none is empty, and none reaches
\* beyond the end of the caller's data.
ChunkInData ==
    \A i \in Sockets : tx[i].state = "TX_ACTIVE" =>
        /\ tx[i].from = tx[i].sent
        /\ tx[i].req \in 1..BUFF_SIZE
        /\ tx[i].from + tx[i].req <= tx[i].orig

\* "Time out after TO period": a read that ends without data was polled without
\* success for the whole time-out.
NoEarlyTimeout ==
    \A i \in Sockets :
        rx[i].state \in {"READ_DOCB", "DATA_AVAILABLE"} /\ rx[i].got = 0
            => rx[i].polls > READ_TO

\* "unless socket has TO disabled": a read of a listening socket never ends
\* without data.
ListenerWaits ==
    \A i \in Sockets :
        rx[i].state \in {"READ_DOCB", "DATA_AVAILABLE"} /\ rx[i].disTO => rx[i].got > 0

\* The timer of a read advances by one a poll, so that its time-out is the one
\* of the comment, unless the same event has passed a socket before it whose timer
\* stands at the slow mark: one that listens, or one that was moved there itself.
TimerMovedBySlow ==
    [][\A i \in Sockets :
          rx'[i].timer > rx[i].timer + 1 =>
              \E j \in 0..(i - 1) : rx[j].timer = SlowCap]_vars

\* A transfer that is active has an event coming, or the event under way will
\* ask for another one: the g_eq_event loop forgets no socket it has passed.
TransferHasEvent ==
    (\E i \in Sockets : rx[i].state = "READ_ACTIVE" \/ tx[i].state = "TX_ACTIVE")
        => events > 0 \/ ev.at # "idle"

\* A read with a time-out comes to its end, by data or by the time-out, as long
\* as the modem has the link.
ReadCompletes ==
    \A i \in Sockets :
        (rx[i].state = "READ_ACTIVE" /\ ~rx[i].disTO)
            ~> (rx[i].state # "READ_ACTIVE" \/ ~modem[i].linked)

\* A write comes to its end as long as the modem has the link.
WriteCompletes ==
    \A i \in Sockets :
        tx[i].state = "TX_ACTIVE" ~> (tx[i].state # "TX_ACTIVE" \/ ~modem[i].linked)

\* "Time out after TO period unless socket has TO disabled", as the comment of
\* rx_event has it: with or without the link, a read of a connected socket that
\* has the time-out enabled comes to its end.
ReadTimesOut ==
    \A i \in Sockets :
        (rx[i].state = "READ_ACTIVE" /\ ~rx[i].disTO /\ sock[i].connected)
            ~> rx[i].state # "READ_ACTIVE"

-----------------------------------------------------------------------------
(* The service that this data path implements.  A transfer is pending      *)
(* from the call that posts it until its callback is due; an answer is     *)
(* what Return would read from the shared record now.                      *)

Phase(state) ==
    CASE state \in {"READ_START", "TX_IDLE"} -> "idle"
      [] state \in {"READ_INIT", "READ_ACTIVE", "TX_STARTING", "TX_ACTIVE"} -> "pending"
      [] OTHER -> "done"

Transfer(state, size, count) ==
    IF Phase(state) = "idle" THEN [phase |-> "idle", size |-> 0, count |-> 0]
    ELSE [phase |-> Phase(state), size |-> size, count |-> count]

Answer(i) ==
    [op |-> ret[i].op, size |-> ret[i].size,
     count |-> CASE ret[i].op = "recv" -> rx[i].count
                 [] ret[i].op = "send" -> tx[i].sent
                 [] OTHER -> 0]

Service == INSTANCE SocketService WITH
    reader <- [i \in Sockets |-> Transfer(rx[i].state, rx[i].size, rx[i].count)],
    writer <- [i \in Sockets |-> Transfer(tx[i].state, tx[i].orig, tx[i].sent)],
    answer <- [i \in Sockets |-> Answer(i)]

\* For a caller that retries with the same arguments and sockets that do not
\* listen, the calls, the event, the callbacks and the modem's faults together
\* are SocketService: each transfer ends once and is collected once, a read
\* ends without data only after it was pending, a write ends when all is sent,
\* and nothing changes what a call is about to return after its unlock.
ServiceSpec == Service!Spec
=============================================================================
