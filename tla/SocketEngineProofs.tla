------------------------- MODULE SocketEngineProofs -------------------------
(***************************************************************************)
(* Proofs about SocketEngine for every number of sockets, every time-out   *)
(* and every use that the assumptions allow: listening or not, retrying    *)
(* with the same arguments or not, whatever BG96::send comes to.           *)
(*                                                                         *)
(* The event visits the sockets in order, so most of what is true of one   *)
(* depends on whether the event under way has passed it: an active         *)
(* transfer has an event in the queue, or is still ahead of the event, or  *)
(* has made it ask for another one.                                        *)
(***************************************************************************)
EXTENDS SocketEngine, TLAPS

RxRec == [state : RxStates, disTO : BOOLEAN, timer : Nat, req : Nat, count : Nat,
          buffer : Buffers \cup {NoBuffer}, size : Nat, callback : BOOLEAN,
          polls : Nat, got : Nat]
TxRec == [state : TxStates, orig : Nat, req : Nat, sent : Nat, from : Nat,
          buffer : Buffers \cup {NoBuffer}, callback : BOOLEAN,
          took : Nat, lost : Nat, twice : Nat]
SockRec == [id : {-1} \cup Sockets, disTO : BOOLEAN, connected : BOOLEAN,
            callback : BOOLEAN]
RetRec == [op : {"none", "recv", "send"}, buffer : Buffers \cup {NoBuffer}, size : Nat]
EvRec  == [at : {"idle", "rx", "tx", "callback", "end"}, i : Nat,
           more : BOOLEAN, slow : BOOLEAN]

TableOK  == rx \in [Sockets -> RxRec] /\ tx \in [Sockets -> TxRec]
CallsOK  == sock \in [Sockets -> SockRec] /\ ret \in [Sockets -> RetRec]
EventOK  == /\ ev \in EvRec /\ ev.i < SOCKET_COUNT
            /\ events \in Nat /\ events <= SOCKET_COUNT
ModemOK  == /\ modem \in [Sockets -> [linked : BOOLEAN, inbox : Nat]]
            /\ faults \in Nat

\* What is true of each record by itself.
RxGood(r) ==
    /\ r.state # "READ_INIT"
    /\ r.timer <= SlowCap /\ r.req <= BUFF_SIZE
    /\ r.state \in {"READ_DOCB", "DATA_AVAILABLE"} /\ r.disTO => r.got > 0
TxGood(t) ==
    /\ t.state # "TX_STARTING"
    /\ t.state = "TX_ACTIVE" =>
         /\ t.from = t.sent /\ t.req > 0 /\ t.req <= BUFF_SIZE
         /\ t.from + t.req <= t.orig

RecordsGood == \A j \in Sockets : RxGood(rx[j]) /\ TxGood(tx[j])

\* The event has not come to the callbacks of socket j.
CallbackAhead(j) == ev.at \in {"rx", "tx"} \/ (ev.at = "callback" /\ ev.i <= j)

\* A callback that is due is ahead of the event.
DueAhead == \A j \in Sockets :
    rx[j].state = "READ_DOCB" \/ tx[j].state = "TX_DOCB" => CallbackAhead(j)

RxAhead(j) == (ev.at = "rx" /\ ev.i <= j) \/ (ev.at = "tx" /\ ev.i < j)
TxAhead(j) == ev.at \in {"rx", "tx"} /\ ev.i <= j
AskedMore  == events > 0 \/ (ev.at # "idle" /\ ev.more)

\* A transfer that is active has an event, or is ahead of the one under way.
ActiveServed == \A j \in Sockets :
    /\ rx[j].state = "READ_ACTIVE" => AskedMore \/ RxAhead(j)
    /\ tx[j].state = "TX_ACTIVE"   => AskedMore \/ TxAhead(j)

\* goSlow is set by a socket that the event has passed.
SlowHasCause ==
    ev.slow /\ ev.at \in {"rx", "tx"} =>
        \E j \in Sockets : /\ j < ev.i \/ (j = ev.i /\ ev.at = "tx")
                           /\ rx[j].timer = SlowCap

\* The inductive invariant.
IInv == /\ TableOK /\ CallsOK /\ EventOK /\ ModemOK
        /\ RecordsGood /\ DueAhead /\ ActiveServed /\ SlowHasCause

-----------------------------------------------------------------------------
(* The operators of the model.                                             *)

\* The slow mark is a number of events, and not before the time-out.
LEMMA SlowCapAfterTimeout == SlowCap \in Nat /\ SlowCap >= READ_TO
<1>1. READ_TO \in Nat /\ SLOW_FACTOR \in Nat /\ SLOW_FACTOR >= 1
  BY SizeAssumption
<1>2. \A m \in Nat : m * SLOW_FACTOR \in Nat /\ m * SLOW_FACTOR >= m
  BY <1>1
<1> QED  BY <1>1, <1>2 DEF SlowCap

\* Scheduling counts up to the number of sockets, and always leaves an event.
LEMMA ScheduledInRange ==
  ASSUME NEW n \in Nat, n <= SOCKET_COUNT
  PROVE  Scheduled(n) \in Nat /\ Scheduled(n) <= SOCKET_COUNT /\ Scheduled(n) > 0
  BY SizeAssumption DEF Scheduled

\* What BG96::recv returns is an error or a number of bytes within the request.
LEMMA RxOutcomesInRange ==
  ASSUME ModemOK, NEW i \in Sockets, NEW req \in Nat, NEW o \in RxOutcomes(i, req)
  PROVE  /\ o.cnt \in Int /\ o.cnt >= -1 /\ o.cnt <= req
         /\ o.taken \in Nat /\ o.taken <= modem[i].inbox /\ o.fault \in Nat
<1>1. modem[i].inbox \in Nat
  BY DEF ModemOK
<1> DEFINE n == Least(req, modem[i].inbox)
<1>2. n \in Nat /\ n <= req /\ n <= modem[i].inbox
  BY <1>1 DEF Least
<1>3. \/ o = [cnt |-> Error, taken |-> 0, fault |-> 0]
      \/ o = [cnt |-> n, taken |-> n, fault |-> 0]
      \/ o = [cnt |-> Error, taken |-> 0, fault |-> 1]
      \/ o = [cnt |-> Error, taken |-> n, fault |-> 1]
  BY Zenon DEF RxOutcomes
<1> HIDE DEF n
<1> QED  BY <1>1, <1>2, <1>3 DEF Error

\* What tx_event needs to know of an outcome.
TxOutcomeOK(o) ==
    /\ o.done \in BOOLEAN
    /\ o.took \in Nat /\ o.lost \in Nat /\ o.twice \in Nat /\ o.fault \in Nat

\* What BG96::send comes to: the modem takes the whole chunk or nothing, and what
\* it took beside what send reports is told by lost and twice.
LEMMA TxOutcomesInRange ==
  ASSUME NEW i \in Sockets, NEW req \in Nat, NEW o \in TxOutcomes(i, req)
  PROVE  TxOutcomeOK(o) /\ o.took + o.lost = (IF o.done THEN req ELSE 0) + o.twice
<1>1. \/ o = Outcome("sent",       TRUE,  req, 0,   0,   0)
      \/ o = Outcome("refused",    TRUE,  0,   req, 0,   1)
      \/ o = Outcome("unprompted", FALSE, 0,   0,   0,   1)
      \/ o = Outcome("unacked",    FALSE, req, 0,   req, 1)
      \/ o = Outcome("unprompted", FALSE, 0,   0,   0,   0)
  BY Zenon DEF TxOutcomes
<1>2. o.done = TRUE \/ o.done = FALSE
  BY <1>1 DEF Outcome
<1>3. /\ o.took \in {0, req} /\ o.fault \in {0, 1}
      /\ o.lost \in {0, req} /\ o.twice \in {0, req}
  BY <1>1 DEF Outcome
<1>4. o.took \in Nat /\ o.fault \in Nat /\ o.lost \in Nat /\ o.twice \in Nat
  BY <1>3
<1>5. /\ o.done => o.took + o.lost = req /\ o.twice = 0
      /\ ~o.done => o.took = o.twice /\ o.lost = 0
  BY <1>1 DEF Outcome
<1>6. o.took + o.lost = (IF o.done THEN req ELSE 0) + o.twice
  BY <1>4, <1>5
<1> QED  BY <1>2, <1>4, <1>6, Zenon DEF TxOutcomeOK

\* The records that an attempt to read leaves.
LEMMA RxRecPolled ==
  ASSUME NEW r \in RxRec, NEW polls \in Nat, NEW timer \in Nat
  PROVE  [r EXCEPT !.polls = polls, !.timer = timer] \in RxRec
  BY DEF RxRec

LEMMA RxRecTimedOut ==
  ASSUME NEW r \in RxRec, NEW state \in RxStates, NEW polls \in Nat, NEW timer \in Nat
  PROVE  [r EXCEPT !.polls = polls, !.timer = timer, !.state = state, !.count = 0]
            \in RxRec
  BY DEF RxRec

\* An attempt to read: the request stays as it is and its timer advances by at
\* most one.  A read that is over without time-out has brought data.
LEMMA RxEventMoves ==
  ASSUME NEW r \in RxRec, NEW cnt \in Int, cnt >= -1,
         NEW e, e = RxEvent(r, cnt)
  PROVE  /\ e.rx \in RxRec
         /\ \/ e.more = TRUE  /\ e.rx.state = r.state
            \/ e.more = FALSE /\ e.rx.state = RxDone(r) /\ (r.disTO => e.rx.got > 0)
         /\ e.rx.timer <= r.timer + 1 /\ e.rx.got >= r.got
         /\ e.rx.req = r.req /\ e.rx.disTO = r.disTO
<1>1. READ_TO \in Nat
  BY SizeAssumption
<1>2. /\ r.timer \in Nat /\ r.count \in Nat /\ r.polls \in Nat /\ r.got \in Nat
      /\ RxDone(r) \in RxStates
  BY DEF RxRec, RxDone, RxStates
<1> DEFINE polls == Least(r.polls + 1, READ_TO + 1)
           done  == RxDone(r)
<1>3. polls \in Nat
  BY <1>1, <1>2 DEF Least
<1>0. done \in RxStates
  BY <1>2
<1> HIDE DEF polls, done
<1>4. CASE cnt = Error
  <2>0. 0 \in Nat
    OBVIOUS
  <2>1. e = [rx |-> [r EXCEPT !.polls = polls, !.timer = 0], more |-> TRUE]
    BY <1>4 DEF RxEvent, Polled, polls
  <2>2. e.rx = [r EXCEPT !.polls = polls, !.timer = 0] /\ e.more = TRUE
    BY <2>1
  <2>3. e.rx \in RxRec
    BY <1>3, <2>2, <2>0, RxRecPolled, Zenon
  <2>4. /\ e.rx.state = r.state /\ e.rx.timer = 0 /\ e.rx.req = r.req
        /\ e.rx.disTO = r.disTO /\ e.rx.got = r.got
    BY <2>2 DEF RxRec
  <2>5. e.rx.timer <= r.timer + 1 /\ e.rx.got >= r.got
    BY <1>2, <2>0, <2>4
  <2> QED  BY <2>2, <2>3, <2>4, <2>5, Zenon
<1>5. CASE cnt # Error /\ cnt > 0
  <2> DEFINE count == r.count + cnt
             got   == r.got + cnt
  <2>1. e = [rx |-> [r EXCEPT !.state = done, !.count = count, !.got = got],
             more |-> FALSE]
    BY <1>5 DEF RxEvent, Received, done
  <2>3. count \in Nat /\ got \in Nat /\ got > 0 /\ got >= r.got
    BY <1>2, <1>5
  <2> HIDE DEF count, got
  <2>2. /\ e.rx = [r EXCEPT !.state = done, !.count = count, !.got = got]
        /\ e.more = FALSE
    BY <2>1
  <2>4. e.rx \in RxRec
    BY <1>0, <2>2, <2>3 DEF RxRec
  <2>5. /\ e.rx.state = done /\ e.rx.timer = r.timer /\ e.rx.req = r.req
        /\ e.rx.disTO = r.disTO /\ e.rx.got = got
    BY <2>2 DEF RxRec
  <2>6. e.rx.timer <= r.timer + 1 /\ e.rx.got >= r.got /\ e.rx.got > 0
    BY <1>2, <2>3, <2>5
  <2> QED  BY <2>2, <2>4, <2>5, <2>6, Zenon DEF done
<1>6. CASE cnt # Error /\ ~(cnt > 0) /\ Late(r)
  <2> DEFINE timer == r.timer + 1
  <2>0. timer \in Nat /\ timer <= r.timer + 1
    BY <1>2
  <2>1. e = [rx |-> [r EXCEPT !.polls = polls, !.timer = timer,
                              !.state = done, !.count = 0],
             more |-> FALSE]
    BY <1>6 DEF RxEvent, Ticked, Polled, polls, done
  <2> HIDE DEF timer
  <2>2. /\ e.rx = [r EXCEPT !.polls = polls, !.timer = timer,
                            !.state = done, !.count = 0]
        /\ e.more = FALSE
    BY <2>1
  <2>3. ~r.disTO
    BY <1>6 DEF Late
  <2>4. e.rx \in RxRec
    <3>1. [r EXCEPT !.polls = polls, !.timer = timer, !.state = done, !.count = 0] \in RxRec
      BY <1>0, <1>3, <2>0, RxRecTimedOut
    <3> QED  BY <2>2, <3>1, Zenon
  <2>5. /\ e.rx.state = done /\ e.rx.timer = timer /\ e.rx.req = r.req
        /\ e.rx.disTO = r.disTO /\ e.rx.got = r.got
    BY <2>2 DEF RxRec
  <2>6. e.rx.timer <= r.timer + 1 /\ e.rx.got >= r.got
    BY <1>2, <2>0, <2>5
  <2> QED  BY <2>2, <2>3, <2>4, <2>5, <2>6, Zenon DEF done
<1>7. CASE cnt # Error /\ ~(cnt > 0) /\ ~Late(r)
  <2> DEFINE timer == r.timer + 1
  <2>0. timer \in Nat /\ timer <= r.timer + 1
    BY <1>2
  <2>1. e = [rx |-> [r EXCEPT !.polls = polls, !.timer = timer], more |-> TRUE]
    BY <1>7 DEF RxEvent, Ticked, Polled, polls
  <2> HIDE DEF timer
  <2>2. e.rx = [r EXCEPT !.polls = polls, !.timer = timer] /\ e.more = TRUE
    BY <2>1
  <2>3. e.rx \in RxRec
    BY <1>3, <2>2, <2>0, RxRecPolled, Zenon
  <2>4. /\ e.rx.state = r.state /\ e.rx.timer = timer /\ e.rx.req = r.req
        /\ e.rx.disTO = r.disTO /\ e.rx.got = r.got
    BY <2>2 DEF RxRec
  <2>5. e.rx.timer <= r.timer + 1 /\ e.rx.got >= r.got
    BY <1>2, <2>0, <2>4
  <2> QED  BY <2>2, <2>3, <2>4, <2>5, Zenon
<1> QED  BY <1>4, <1>5, <1>6, <1>7 DEF done

\* The history fields are all that an outcome changes by itself.
LEMMA BookedInRange ==
  ASSUME NEW t \in TxRec, NEW o, TxOutcomeOK(o), NEW u, u = Booked(t, o)
  PROVE  /\ u \in TxRec
         /\ u.state = t.state /\ u.from = t.from /\ u.sent = t.sent /\ u.req = t.req
         /\ u.orig = t.orig /\ u.callback = t.callback /\ u.buffer = t.buffer
         /\ u.took = t.took + o.took /\ u.lost = t.lost + o.lost
         /\ u.twice = t.twice + o.twice
<1> DEFINE took == t.took + o.took
           lost == t.lost + o.lost
           twice == t.twice + o.twice
<1>1. took \in Nat /\ lost \in Nat /\ twice \in Nat
  BY DEF TxRec, TxOutcomeOK
<1>2. u = [t EXCEPT !.took = took, !.lost = lost, !.twice = twice]
  BY DEF Booked
<1> HIDE DEF took, lost, twice
<1>3. /\ u \in TxRec
      /\ u.state = t.state /\ u.from = t.from /\ u.sent = t.sent /\ u.req = t.req
      /\ u.orig = t.orig /\ u.callback = t.callback /\ u.buffer = t.buffer
      /\ u.took = took /\ u.lost = lost /\ u.twice = twice
  BY <1>1, <1>2 DEF TxRec
<1> QED  BY <1>3 DEF took, lost, twice

\* An attempt to send a chunk that lies in the data: what is left of the write is
\* such a chunk again.
LEMMA TxEventMoves ==
  ASSUME NEW t \in TxRec,
         t.from = t.sent, t.req > 0, t.req <= BUFF_SIZE, t.from + t.req <= t.orig,
         NEW o, TxOutcomeOK(o),
         NEW e, e = TxEvent(t, o)
  PROVE  /\ e.tx \in TxRec /\ e.more \in BOOLEAN
         /\ e.more => /\ e.tx.state = t.state
                      /\ e.tx.from = e.tx.sent /\ e.tx.req > 0 /\ e.tx.req <= BUFF_SIZE
                      /\ e.tx.from + e.tx.req <= e.tx.orig
         /\ ~e.more => e.tx.state \in {"TX_DOCB", "TX_COMPLETE"}
<1>1. BUFF_SIZE \in Nat \ {0}
  BY SizeAssumption
<1>2. t.sent \in Nat /\ t.req \in Nat /\ t.from \in Nat /\ t.orig \in Nat
  BY DEF TxRec
<1> DEFINE booked == Booked(t, o)
           sent   == [booked EXCEPT !.sent = booked.sent + t.req]
<1>3. /\ booked \in TxRec
      /\ booked.state = t.state /\ booked.from = t.from /\ booked.sent = t.sent
      /\ booked.req = t.req /\ booked.orig = t.orig /\ booked.callback = t.callback
  BY BookedInRange
<1> HIDE DEF booked
<1>4. /\ sent \in TxRec
      /\ sent.sent = t.sent + t.req /\ sent.orig = t.orig
      /\ sent.from = t.from /\ sent.req = t.req /\ sent.state = t.state
  <2>1. booked.sent + t.req \in Nat
    BY <1>2, <1>3
  <2> QED  BY <1>3, <2>1 DEF TxRec
<1>5. CASE ~o.done
  <2>1. e.tx = booked /\ e.more = TRUE
    BY <1>5 DEF TxEvent, booked
  <2> QED  BY <1>3, <2>1
<1>6. CASE o.done /\ sent.sent < sent.orig
  <2>1. e.tx = NextChunk(sent) /\ e.more = TRUE
    BY <1>6 DEF TxEvent, booked
  <2> HIDE DEF sent
  <2> DEFINE req == Least(sent.orig - sent.sent, BUFF_SIZE)
  <2>2. req \in Nat /\ req > 0 /\ req <= BUFF_SIZE /\ sent.sent + req <= sent.orig
    BY <1>1, <1>2, <1>4, <1>6 DEF Least
  <2>3. NextChunk(sent) = [sent EXCEPT !.from = sent.from + sent.req, !.req = req]
    BY DEF NextChunk
  <2> HIDE DEF req
  <2>4. sent.from + sent.req = sent.sent /\ sent.sent \in Nat
    BY <1>2, <1>4
  <2>5. e.tx = [sent EXCEPT !.from = sent.sent, !.req = req]
    BY <2>1, <2>3, <2>4
  <2>6. e.tx \in TxRec
    BY <1>4, <2>2, <2>4, <2>5 DEF TxRec
  <2>7. /\ e.tx.state = t.state /\ e.tx.from = sent.sent /\ e.tx.sent = sent.sent
        /\ e.tx.req = req /\ e.tx.orig = sent.orig
    BY <1>4, <2>5 DEF TxRec
  <2> QED  BY <2>1, <2>2, <2>6, <2>7
<1>7. CASE o.done /\ ~(sent.sent < sent.orig)
  <2> DEFINE state == IF t.callback THEN "TX_DOCB" ELSE "TX_COMPLETE"
  <2>1. e.tx = [sent EXCEPT !.state = state] /\ e.more = FALSE
    BY <1>7 DEF TxEvent, booked
  <2> HIDE DEF sent
  <2>2. state \in {"TX_DOCB", "TX_COMPLETE"} /\ state \in TxStates
    BY DEF TxStates
  <2> HIDE DEF state
  <2>3. e.tx \in TxRec /\ e.tx.state = state
    BY <1>4, <2>1, <2>2 DEF TxRec
  <2> QED  BY <2>1, <2>2, <2>3
<1> QED  BY <1>5, <1>6, <1>7

-----------------------------------------------------------------------------
(* The steps.                                                              *)

\* What TimerMovedBySlow says of a step.
TimerMoves == \A i \in Sockets :
    rx'[i].timer > rx[i].timer + 1 => \E j \in 0..(i - 1) : rx[j].timer = SlowCap

\* The invariant holds at the start.
LEMMA InitIInv == Init => IInv
<1> SUFFICES ASSUME Init  PROVE IInv
  OBVIOUS
<1> USE DEF Init
<1>1. SlowCap >= 0 /\ BUFF_SIZE >= 0 /\ SOCKET_COUNT > 0 /\ SOCKET_COUNT \in Nat
  BY SizeAssumption, SlowCapAfterTimeout
<1>2. IdleRx \in RxRec /\ IdleTx \in TxRec
  BY DEF IdleRx, IdleTx, RxRec, TxRec, RxStates, TxStates
<1>3. FreeSock \in SockRec /\ NoReturn \in RetRec /\ EvIdle \in EvRec
  BY DEF FreeSock, SockRec, NoReturn, RetRec, EvIdle, EvRec
<1>4. TableOK
  BY <1>2, Zenon DEF TableOK
<1>5. CallsOK
  BY <1>3, Zenon DEF CallsOK
<1>6. EventOK
  BY <1>1, <1>3 DEF EventOK, EvIdle
<1>7. ModemOK
  BY DEF ModemOK
<1>8. RecordsGood
  BY <1>1 DEF RecordsGood, RxGood, TxGood, IdleRx, IdleTx
<1>9. DueAhead /\ ActiveServed
  BY DEF DueAhead, ActiveServed, IdleRx, IdleTx
<1>10. SlowHasCause
  BY DEF SlowHasCause, EvIdle
<1> QED  BY <1>4, <1>5, <1>6, <1>7, <1>8, <1>9, <1>10 DEF IInv

\* A step that leaves the records and the event alone.
LEMMA QuietKeeps ==
  ASSUME IInv, UNCHANGED <<rx, tx, ev>>, CallsOK', ModemOK',
         events' \in Nat, events' <= SOCKET_COUNT, events' >= events
  PROVE  IInv' /\ TimerMoves
<1>1. TableOK' /\ RecordsGood'
  BY DEF IInv, TableOK, RecordsGood, RxGood, TxGood
<1>2. EventOK'
  BY DEF IInv, EventOK
<1>3. DueAhead'
  BY DEF IInv, DueAhead, CallbackAhead
<1>4. ActiveServed'
  <2>1. AskedMore => AskedMore'
    BY DEF IInv, EventOK, AskedMore
  <2>2. ActiveServed
    BY DEF IInv
  <2> QED  BY <2>1, <2>2 DEF ActiveServed, RxAhead, TxAhead
<1>5. SlowHasCause'
  BY DEF IInv, SlowHasCause
<1>6. TimerMoves
  <2>1. \A i \in Sockets : rx[i].timer \in Nat
    BY DEF IInv, TableOK, RxRec
  <2> QED  BY <2>1 DEF TimerMoves
<1> QED  BY <1>1, <1>2, <1>3, <1>4, <1>5, <1>6 DEF IInv

\* A step that puts machines to rest and leaves the event alone.
LEMMA RestKeeps ==
  ASSUME IInv, UNCHANGED <<ev, events>>, CallsOK', ModemOK', NEW i \in Sockets,
         rx' = rx \/ rx' = [rx EXCEPT ![i].state = "READ_START"],
         tx' = tx \/ tx' = [tx EXCEPT ![i].state = "TX_IDLE"]
  PROVE  IInv' /\ TimerMoves
<1>1. /\ rx \in [Sockets -> RxRec] /\ tx \in [Sockets -> TxRec]
      /\ RecordsGood /\ DueAhead /\ ActiveServed /\ SlowHasCause
  BY DEF IInv, TableOK
<1>2. [rx[i] EXCEPT !.state = "READ_START"] \in RxRec
  BY <1>1 DEF RxRec, RxStates
<1>3. [tx[i] EXCEPT !.state = "TX_IDLE"] \in TxRec
  BY <1>1 DEF TxRec, TxStates
<1>4. TableOK'
  BY <1>1, <1>2, <1>3 DEF TableOK
<1>5. \A j \in Sockets :
        /\ rx'[j].state \in {rx[j].state, "READ_START"}
        /\ rx'[j].timer = rx[j].timer /\ rx'[j].req = rx[j].req
        /\ rx'[j].disTO = rx[j].disTO /\ rx'[j].got = rx[j].got
  BY <1>1 DEF RxRec
<1>6. \A j \in Sockets :
        /\ tx'[j].state \in {tx[j].state, "TX_IDLE"}
        /\ tx'[j].orig = tx[j].orig /\ tx'[j].req = tx[j].req
        /\ tx'[j].sent = tx[j].sent /\ tx'[j].from = tx[j].from
  BY <1>1 DEF TxRec
<1>7. EventOK'
  BY DEF IInv, EventOK
<1>8. RecordsGood'
  BY <1>1, <1>5, <1>6 DEF RecordsGood, RxGood, TxGood
<1>9. DueAhead'
  BY <1>1, <1>5, <1>6 DEF DueAhead, CallbackAhead
<1>10. ActiveServed'
  BY <1>1, <1>5, <1>6 DEF ActiveServed, AskedMore, RxAhead, TxAhead
<1>11. SlowHasCause'
  BY <1>1, <1>5 DEF SlowHasCause
<1>12. TimerMoves
  <2>1. \A j \in Sockets : rx[j].timer \in Nat
    BY <1>1 DEF RxRec
  <2> QED  BY <1>5, <2>1 DEF TimerMoves
<1> QED  BY <1>4, <1>7, <1>8, <1>9, <1>10, <1>11, <1>12 DEF IInv

\* A flag of a socket that is set.
LEMMA SockFlags ==
  ASSUME NEW s \in SockRec, NEW flag \in BOOLEAN
  PROVE  /\ [s EXCEPT !.connected = flag] \in SockRec
         /\ [s EXCEPT !.disTO = flag] \in SockRec
         /\ [s EXCEPT !.callback = flag] \in SockRec
<1>1. [s EXCEPT !.connected = flag] \in SockRec  BY DEF SockRec
<1>2. [s EXCEPT !.disTO = flag] \in SockRec  BY DEF SockRec
<1>3. [s EXCEPT !.callback = flag] \in SockRec  BY DEF SockRec
<1> QED  BY <1>1, <1>2, <1>3

\* The calls that post no transfer, the return of a call, and the modem.
LEMMA OtherKeeps ==
  ASSUME IInv, NEW i \in Sockets,
         \/ SocketOpen(i) \/ SocketClose(i) \/ SocketConnect(i) \/ SocketListen(i)
         \/ \E callback \in BOOLEAN : SocketAttach(i, callback)
         \/ \E b \in Buffers, n \in RecvSizes : RecvCollect(i, b, n)
         \/ \E b \in Buffers, n \in SendSizes : SendCollect(i, b, n)
         \/ Return(i) \/ Arrive(i) \/ Hangup(i)
  PROVE  IInv' /\ TimerMoves
<1>1. /\ sock \in [Sockets -> SockRec] /\ ret \in [Sockets -> RetRec]
      /\ modem \in [Sockets -> [linked : BOOLEAN, inbox : Nat]] /\ faults \in Nat
      /\ events \in Nat /\ events <= SOCKET_COUNT
  BY DEF IInv, CallsOK, ModemOK, EventOK
<1>2. /\ FreeSock \in SockRec /\ [FreeSock EXCEPT !.id = i] \in SockRec
      /\ NoReturn \in RetRec
  BY DEF FreeSock, SockRec, NoReturn, RetRec
<1>3. RecvSizes \subseteq Nat /\ SendSizes \subseteq Nat
  BY SizeAssumption
<1>4. CASE SocketOpen(i)
  <2>1. CallsOK' /\ ModemOK'
    BY <1>1, <1>2, <1>4 DEF SocketOpen, CallsOK, ModemOK
  <2> QED  BY <1>4, <2>1, RestKeeps DEF SocketOpen
<1>5. CASE SocketClose(i)
  <2>1. CallsOK'
    BY <1>1, <1>2, <1>5 DEF SocketClose, CallsOK
  <2>2. ModemOK'
    BY <1>1, <1>5 DEF SocketClose, ModemOK
  <2> QED  BY <1>5, <2>1, <2>2, RestKeeps DEF SocketClose
<1>6. CASE SocketConnect(i)
  <2>1. PICK attempt \in 1..4 :
          /\ modem[i].linked => attempt > 1
          /\ faults' = faults + attempt - (IF modem[i].linked THEN 2 ELSE 1)
          /\ modem' = [modem EXCEPT ![i] = [linked |-> attempt < 4, inbox |-> 0]]
          /\ sock' = [sock EXCEPT ![i].connected = @ \/ attempt < 3]
    BY <1>6 DEF SocketConnect
  <2>2. faults' \in Nat
    BY <1>1, <2>1
  <2>3. [linked |-> attempt < 4, inbox |-> 0] \in [linked : BOOLEAN, inbox : Nat]
    OBVIOUS
  <2>4. ModemOK'
    BY <1>1, <2>1, <2>2, <2>3 DEF ModemOK
  <2> DEFINE connected == sock[i].connected \/ attempt < 3
  <2>5. connected \in BOOLEAN
    OBVIOUS
  <2> HIDE DEF connected
  <2>6. [sock[i] EXCEPT !.connected = connected] \in SockRec
    BY <1>1, <2>5, SockFlags
  <2>7. CallsOK'
    BY <1>1, <1>6, <2>1, <2>6 DEF CallsOK, SocketConnect, connected
  <2> QED  BY <1>1, <1>6, <2>4, <2>7, QuietKeeps DEF SocketConnect
<1>7. CASE SocketListen(i)
  <2>1. [sock[i] EXCEPT !.disTO = TRUE] \in SockRec
    BY <1>1, SockFlags
  <2>2. CallsOK' /\ ModemOK'
    BY <1>1, <1>7, <2>1 DEF SocketListen, CallsOK, ModemOK
  <2>3. events' \in Nat /\ events' <= SOCKET_COUNT /\ events' >= events
    BY <1>1, <1>7, SizeAssumption DEF SocketListen, Scheduled
  <2> QED  BY <1>7, <2>2, <2>3, QuietKeeps DEF SocketListen
<1>8. ASSUME NEW callback \in BOOLEAN, SocketAttach(i, callback)
      PROVE  IInv' /\ TimerMoves
  <2>1. [sock[i] EXCEPT !.callback = callback] \in SockRec
    BY <1>1, SockFlags
  <2>2. CallsOK' /\ ModemOK'
    BY <1>1, <1>8, <2>1 DEF SocketAttach, CallsOK, ModemOK
  <2> QED  BY <1>1, <1>8, <2>2, QuietKeeps DEF SocketAttach
<1>9. ASSUME NEW b \in Buffers, NEW n \in RecvSizes, RecvCollect(i, b, n)
      PROVE  IInv' /\ TimerMoves
  <2>1. [op |-> "recv", buffer |-> b, size |-> n] \in RetRec
    BY <1>3 DEF RetRec
  <2>2. CallsOK' /\ ModemOK'
    BY <1>1, <1>9, <2>1 DEF RecvCollect, CallsOK, ModemOK
  <2> QED  BY <1>9, <2>2, RestKeeps DEF RecvCollect
<1>10. ASSUME NEW b \in Buffers, NEW n \in SendSizes, SendCollect(i, b, n)
       PROVE  IInv' /\ TimerMoves
  <2>1. [op |-> "send", buffer |-> b, size |-> n] \in RetRec
    BY <1>3 DEF RetRec
  <2>2. CallsOK' /\ ModemOK'
    BY <1>1, <1>10, <2>1 DEF SendCollect, CallsOK, ModemOK
  <2> QED  BY <1>10, <2>2, RestKeeps DEF SendCollect
<1>11. CASE Return(i)
  <2>1. CallsOK' /\ ModemOK'
    BY <1>1, <1>2, <1>11 DEF Return, CallsOK, ModemOK
  <2> QED  BY <1>1, <1>11, <2>1, QuietKeeps DEF Return
<1>12. CASE Arrive(i)
  <2>1. [modem[i] EXCEPT !.inbox = @ + 1] \in [linked : BOOLEAN, inbox : Nat]
    BY <1>1
  <2>2. CallsOK' /\ ModemOK'
    BY <1>1, <1>12, <2>1 DEF Arrive, CallsOK, ModemOK
  <2> QED  BY <1>1, <1>12, <2>2, QuietKeeps DEF Arrive
<1>13. CASE Hangup(i)
  <2>1. [linked |-> FALSE, inbox |-> 0] \in [linked : BOOLEAN, inbox : Nat]
    OBVIOUS
  <2>2. CallsOK' /\ ModemOK'
    BY <1>1, <1>13, <2>1 DEF Hangup, CallsOK, ModemOK
  <2> QED  BY <1>1, <1>13, <2>2, QuietKeeps DEF Hangup
<1> QED
  BY <1>4, <1>5, <1>6, <1>7, <1>8, <1>9, <1>10, <1>11, <1>12, <1>13

\* The request of a read, and the record of a write.
LEMMA RequestInRange ==
  ASSUME CallsOK, NEW i \in Sockets, NEW b \in Buffers, NEW n \in Nat \ {0},
         NEW r, r = Request(i, b, n)
  PROVE  /\ r \in RxRec /\ r.timer = 0 /\ r.got = 0 /\ r.count = 0
         /\ r.req \in Nat /\ r.req > 0 /\ r.req <= BUFF_SIZE /\ r.req <= n
         /\ r.size = n /\ r.buffer = b /\ r.disTO = sock[i].disTO /\ r.polls = 0
<1>1. sock[i].disTO \in BOOLEAN /\ sock[i].callback \in BOOLEAN
  BY DEF CallsOK, SockRec
<1> DEFINE req == Least(n, BUFF_SIZE)
<1>2. req \in Nat /\ req > 0 /\ req <= BUFF_SIZE /\ req <= n
  BY SizeAssumption DEF Least
<1> HIDE DEF req
<1>3. r = [state |-> "READ_INIT", disTO |-> sock[i].disTO, timer |-> 0, req |-> req,
           count |-> 0, buffer |-> b, size |-> n, callback |-> sock[i].callback,
           polls |-> 0, got |-> 0]
  BY DEF Request, IdleRx, req
<1>4. r \in RxRec
  BY <1>1, <1>2, <1>3 DEF RxRec, RxStates
<1>5. /\ r.timer = 0 /\ r.got = 0 /\ r.count = 0 /\ r.req = req /\ r.polls = 0
      /\ r.size = n /\ r.buffer = b /\ r.disTO = sock[i].disTO
  BY <1>3
<1> QED  BY <1>2, <1>4, <1>5, Zenon

LEMMA WriteInRange ==
  ASSUME CallsOK, NEW i \in Sockets, NEW b \in Buffers, NEW n \in Nat \ {0},
         NEW t, t = Write(i, b, n)
  PROVE  /\ t \in TxRec /\ t.from = t.sent /\ t.sent = 0
         /\ t.took = 0 /\ t.lost = 0 /\ t.twice = 0
         /\ t.req \in Nat /\ t.req > 0 /\ t.req <= BUFF_SIZE
         /\ t.from + t.req <= t.orig
         /\ t.orig = n /\ t.buffer = b
<1>1. sock[i].callback \in BOOLEAN
  BY DEF CallsOK, SockRec
<1> DEFINE req == Least(n, BUFF_SIZE)
<1>2. req \in Nat /\ req > 0 /\ req <= BUFF_SIZE /\ req <= n
  BY SizeAssumption DEF Least
<1> HIDE DEF req
<1>3. t = [state |-> "TX_STARTING", orig |-> n, req |-> req, sent |-> 0, from |-> 0,
           buffer |-> b, callback |-> sock[i].callback, took |-> 0, lost |-> 0, twice |-> 0]
  BY DEF Write, IdleTx, req
<1>4. t \in TxRec
  BY <1>1, <1>2, <1>3 DEF TxRec, TxStates
<1>5. /\ t.from = 0 /\ t.sent = 0 /\ t.took = 0 /\ t.lost = 0 /\ t.twice = 0
      /\ t.req = req
      /\ t.orig = n /\ t.buffer = b
  BY <1>3
<1>6. 0 + req <= n
  BY <1>2
<1> QED  BY <1>2, <1>4, <1>5, <1>6, Zenon

\* socket_recv that posts a read.
LEMMA RecvStartKeeps ==
  ASSUME IInv, NEW i \in Sockets, NEW b \in Buffers, NEW n \in RecvSizes,
         RecvStart(i, b, n)
  PROVE  IInv' /\ TimerMoves
<1>1. /\ rx \in [Sockets -> RxRec] /\ RecordsGood /\ DueAhead /\ ActiveServed
      /\ CallsOK /\ ModemOK /\ events \in Nat /\ events <= SOCKET_COUNT
      /\ ev.at = "idle" /\ ev' = ev
  BY DEF IInv, TableOK, EventOK, RecvStart, MayCall
<1>2. n \in Nat \ {0}
  BY SizeAssumption
<1> DEFINE r == Request(i, b, n)
<1>3. r \in RxRec /\ r.timer = 0 /\ r.req \in Nat /\ r.req <= BUFF_SIZE
  BY <1>1, <1>2, RequestInRange
<1>4. PICK o \in RxOutcomes(i, r.req) :
        LET e == RxEvent(r, o.cnt) IN
        /\ faults' = faults + o.fault
        /\ modem' = [modem EXCEPT ![i].inbox = @ - o.taken]
        /\ IF e.more
             THEN /\ rx' = [rx EXCEPT ![i] = [e.rx EXCEPT !.state = "READ_ACTIVE"]]
                  /\ events' = Scheduled(events)
                  /\ ret' = ret
             ELSE /\ rx' = [rx EXCEPT ![i] = [e.rx EXCEPT !.state = "READ_START"]]
                  /\ ret' = [ret EXCEPT ![i] = [op |-> "recv", buffer |-> b, size |-> n]]
                  /\ events' = events
  BY DEF RecvStart
<1>5. /\ o.cnt \in Int /\ o.cnt >= -1 /\ o.taken \in Nat
      /\ o.taken <= modem[i].inbox /\ o.fault \in Nat
  BY <1>1, <1>3, RxOutcomesInRange
<1> HIDE DEF r
<1> DEFINE e == RxEvent(r, o.cnt)
<1>6. e.rx \in RxRec /\ e.rx.timer <= 1 /\ e.rx.req <= BUFF_SIZE
  <2>1. e.rx \in RxRec /\ e.rx.timer <= r.timer + 1 /\ e.rx.req = r.req
    BY <1>3, <1>5, RxEventMoves, Zenon
  <2> HIDE DEF e
  <2> QED  BY <1>3, <2>1
<1>7. PICK state \in {"READ_ACTIVE", "READ_START"} :
        /\ rx' = [rx EXCEPT ![i] = [e.rx EXCEPT !.state = state]]
        /\ events' = IF state = "READ_ACTIVE" THEN Scheduled(events) ELSE events
        /\ \/ ret' = ret
           \/ ret' = [ret EXCEPT ![i] = [op |-> "recv", buffer |-> b, size |-> n]]
  BY <1>4
<1> HIDE DEF e
<1>8. /\ [e.rx EXCEPT !.state = state] \in RxRec
      /\ rx'[i] = [e.rx EXCEPT !.state = state]
      /\ \A j \in Sockets \ {i} : rx'[j] = rx[j]
  <2>1. state \in RxStates
    BY DEF RxStates
  <2>2. [e.rx EXCEPT !.state = state] \in RxRec
    BY <1>6, <2>1 DEF RxRec
  <2> QED  BY <1>1, <1>7, <2>2
<1>9. /\ rx'[i].state = state /\ rx'[i].timer = e.rx.timer
      /\ rx'[i].req = e.rx.req
  BY <1>6, <1>8 DEF RxRec
<1>10. TableOK'
  BY <1>1, <1>7, <1>8 DEF TableOK, IInv, RecvStart
<1>11. CallsOK'
  <2>1. [op |-> "recv", buffer |-> b, size |-> n] \in RetRec
    BY <1>2 DEF RetRec
  <2> QED  BY <1>1, <1>7, <2>1 DEF CallsOK, RecvStart
<1>12. ModemOK'
  <2>1. [modem[i] EXCEPT !.inbox = @ - o.taken] \in [linked : BOOLEAN, inbox : Nat]
    <3>1. modem[i].inbox - o.taken \in Nat
      BY <1>1, <1>5 DEF ModemOK
    <3> QED  BY <1>1, <3>1 DEF ModemOK
  <2>2. faults' \in Nat
    BY <1>1, <1>4, <1>5 DEF ModemOK
  <2> QED  BY <1>1, <1>4, <2>1, <2>2 DEF ModemOK
<1>13. /\ events' \in Nat /\ events' <= SOCKET_COUNT /\ events' >= events
       /\ state = "READ_ACTIVE" => events' > 0
  BY <1>1, <1>7, SizeAssumption DEF Scheduled
<1>14. EventOK'
  BY <1>1, <1>13 DEF EventOK, IInv
<1>15. RecordsGood'
  <2>1. RxGood(rx[i])'
    BY <1>6, <1>9, SlowCapAfterTimeout, SizeAssumption DEF RxGood, RxRec
  <2>2. \A j \in Sockets \ {i} : RxGood(rx[j])'
    BY <1>1, <1>8 DEF RecordsGood, RxGood
  <2>3. \A j \in Sockets : TxGood(tx[j])'
    BY <1>1 DEF RecordsGood, TxGood, RecvStart
  <2> QED  BY <2>1, <2>2, <2>3 DEF RecordsGood
<1>16. DueAhead'
  BY <1>1, <1>8, <1>9 DEF DueAhead, CallbackAhead, RecvStart
<1>17. ActiveServed'
  <2>1. \A j \in Sockets :
          rx'[j].state = "READ_ACTIVE" \/ tx'[j].state = "TX_ACTIVE" => events' > 0
    <3>1. \A j \in Sockets :
            rx[j].state = "READ_ACTIVE" \/ tx[j].state = "TX_ACTIVE" => events > 0
      BY <1>1 DEF ActiveServed, AskedMore, RxAhead, TxAhead
    <3>2. tx' = tx
      BY DEF RecvStart
    <3>3. events > 0 => events' > 0
      BY <1>1, <1>13
    <3> QED  BY <1>8, <1>9, <1>13, <3>1, <3>2, <3>3
  <2> QED  BY <2>1 DEF ActiveServed, AskedMore
<1>18. SlowHasCause'
  BY <1>1 DEF SlowHasCause
<1>19. TimerMoves
  <2>1. \A j \in Sockets : rx[j].timer \in Nat /\ rx'[j].timer \in Nat
    BY <1>1, <1>10 DEF TableOK, RxRec
  <2>2. \A j \in Sockets : rx'[j].timer <= rx[j].timer + 1
    <3>1. rx'[i].timer <= rx[i].timer + 1
      BY <1>6, <1>9, <2>1
    <3>2. \A j \in Sockets \ {i} : rx'[j].timer <= rx[j].timer + 1
      BY <1>8, <2>1
    <3> QED  BY <3>1, <3>2
  <2> QED  BY <2>1, <2>2 DEF TimerMoves
<1> QED
  BY <1>10, <1>11, <1>12, <1>14, <1>15, <1>16, <1>17, <1>18, <1>19 DEF IInv

\* socket_send that posts a write.
LEMMA SendStartKeeps ==
  ASSUME IInv, NEW i \in Sockets, NEW b \in Buffers, NEW n \in SendSizes,
         SendStart(i, b, n)
  PROVE  IInv' /\ TimerMoves
<1>1. /\ tx \in [Sockets -> TxRec] /\ RecordsGood /\ DueAhead /\ ActiveServed
      /\ CallsOK /\ ModemOK /\ events \in Nat /\ events <= SOCKET_COUNT
      /\ ev.at = "idle" /\ ev' = ev /\ rx' = rx
  BY DEF IInv, TableOK, EventOK, SendStart, MayCall
<1>2. n \in Nat \ {0}
  BY SizeAssumption
<1> DEFINE t == Write(i, b, n)
<1>3. /\ t \in TxRec /\ t.from = t.sent /\ t.req \in Nat
      /\ t.req > 0 /\ t.req <= BUFF_SIZE /\ t.from + t.req <= t.orig
  BY <1>1, <1>2, WriteInRange
<1>4. PICK o \in TxOutcomes(i, t.req) :
        LET e == TxEvent(t, o) IN
        /\ faults' = faults + o.fault
        /\ IF e.more
             THEN /\ tx' = [tx EXCEPT ![i] = [e.tx EXCEPT !.state = "TX_ACTIVE"]]
                  /\ events' = Scheduled(events)
                  /\ ret' = ret
             ELSE /\ tx' = [tx EXCEPT ![i] = [e.tx EXCEPT !.state = "TX_IDLE"]]
                  /\ ret' = [ret EXCEPT ![i] = [op |-> "send", buffer |-> b, size |-> n]]
                  /\ events' = events
  BY DEF SendStart
<1>5. TxOutcomeOK(o) /\ o.fault \in Nat
  BY <1>3, TxOutcomesInRange DEF TxOutcomeOK
<1> HIDE DEF t
<1> DEFINE e == TxEvent(t, o)
<1>6. /\ e.tx \in TxRec
      /\ e.more => /\ e.tx.from = e.tx.sent /\ e.tx.req > 0 /\ e.tx.req <= BUFF_SIZE
                   /\ e.tx.from + e.tx.req <= e.tx.orig
  BY <1>3, <1>5, TxEventMoves
<1>7. PICK state \in {"TX_ACTIVE", "TX_IDLE"} :
        /\ state = "TX_ACTIVE" => e.more
        /\ tx' = [tx EXCEPT ![i] = [e.tx EXCEPT !.state = state]]
        /\ events' = IF state = "TX_ACTIVE" THEN Scheduled(events) ELSE events
        /\ \/ ret' = ret
           \/ ret' = [ret EXCEPT ![i] = [op |-> "send", buffer |-> b, size |-> n]]
  BY <1>4
<1> HIDE DEF e
<1>8. /\ [e.tx EXCEPT !.state = state] \in TxRec
      /\ tx'[i] = [e.tx EXCEPT !.state = state]
      /\ \A j \in Sockets \ {i} : tx'[j] = tx[j]
  <2>1. state \in TxStates
    BY DEF TxStates
  <2>2. [e.tx EXCEPT !.state = state] \in TxRec
    BY <1>6, <2>1 DEF TxRec
  <2> QED  BY <1>1, <1>7, <2>2
<1>9. /\ tx'[i].state = state /\ tx'[i].from = e.tx.from /\ tx'[i].sent = e.tx.sent
      /\ tx'[i].req = e.tx.req /\ tx'[i].orig = e.tx.orig
  BY <1>6, <1>8 DEF TxRec
<1>10. TableOK'
  BY <1>1, <1>7, <1>8 DEF TableOK, IInv
<1>11. CallsOK'
  <2>1. [op |-> "send", buffer |-> b, size |-> n] \in RetRec
    BY <1>2 DEF RetRec
  <2> QED  BY <1>1, <1>7, <2>1 DEF CallsOK, SendStart
<1>12. ModemOK'
  <2>1. faults' \in Nat
    BY <1>1, <1>4, <1>5 DEF ModemOK
  <2> QED  BY <1>1, <2>1 DEF ModemOK, SendStart
<1>13. /\ events' \in Nat /\ events' <= SOCKET_COUNT /\ events' >= events
       /\ state = "TX_ACTIVE" => events' > 0
  BY <1>1, <1>7, SizeAssumption DEF Scheduled
<1>14. EventOK'
  BY <1>1, <1>13 DEF EventOK, IInv
<1>15. RecordsGood'
  <2>1. TxGood(tx[i])'
    BY <1>6, <1>7, <1>9 DEF TxGood
  <2>2. \A j \in Sockets \ {i} : TxGood(tx[j])'
    BY <1>1, <1>8 DEF RecordsGood, TxGood
  <2>3. \A j \in Sockets : RxGood(rx[j])'
    BY <1>1 DEF RecordsGood, RxGood
  <2> QED  BY <2>1, <2>2, <2>3 DEF RecordsGood
<1>16. DueAhead'
  BY <1>1, <1>8, <1>9 DEF DueAhead, CallbackAhead
<1>17. ActiveServed'
  <2>1. \A j \in Sockets :
          rx'[j].state = "READ_ACTIVE" \/ tx'[j].state = "TX_ACTIVE" => events' > 0
    <3>1. \A j \in Sockets :
            rx[j].state = "READ_ACTIVE" \/ tx[j].state = "TX_ACTIVE" => events > 0
      BY <1>1 DEF ActiveServed, AskedMore, RxAhead, TxAhead
    <3>2. events > 0 => events' > 0
      BY <1>1, <1>13
    <3> QED  BY <1>1, <1>8, <1>9, <1>13, <3>1, <3>2
  <2> QED  BY <2>1 DEF ActiveServed, AskedMore
<1>18. SlowHasCause'
  BY <1>1 DEF SlowHasCause
<1>19. TimerMoves
  <2>1. \A j \in Sockets : rx[j].timer \in Nat
    BY DEF IInv, TableOK, RxRec
  <2> QED  BY <1>1, <2>1 DEF TimerMoves
<1> QED
  BY <1>10, <1>11, <1>12, <1>14, <1>15, <1>16, <1>17, <1>18, <1>19 DEF IInv

-----------------------------------------------------------------------------
(* The event.                                                              *)

\* The event leaves the queue.
LEMMA EvBeginKeeps ==
  ASSUME IInv, EvBegin
  PROVE  IInv' /\ TimerMoves
<1>1. /\ ev' = [at |-> "rx", i |-> 0, more |-> FALSE, slow |-> FALSE]
      /\ ev.at = "idle" /\ events > 0 /\ events' = events - 1
      /\ UNCHANGED <<sock, rx, tx, ret, modem, faults>>
  BY DEF EvBegin, EvIdle
<1>2. ev'.at = "rx" /\ ev'.i = 0 /\ ev'.slow = FALSE
  BY <1>1
<1>3. TableOK' /\ CallsOK' /\ ModemOK' /\ RecordsGood'
  BY <1>1 DEF IInv, TableOK, CallsOK, ModemOK, RecordsGood, RxGood, TxGood
<1>4. EventOK'
  <2>1. ev' \in EvRec
    BY <1>1 DEF EvRec
  <2>2. /\ ev'.i < SOCKET_COUNT /\ events' \in Nat /\ events' <= SOCKET_COUNT
    BY <1>1, <1>2, SizeAssumption DEF IInv, EventOK
  <2> QED  BY <2>1, <2>2 DEF EventOK
<1>5. DueAhead'
  BY <1>2 DEF DueAhead, CallbackAhead
<1>6. ActiveServed'
  BY <1>2 DEF ActiveServed, RxAhead, TxAhead, Sockets
<1>7. SlowHasCause'
  BY <1>2 DEF SlowHasCause
<1>8. TimerMoves
  <2>1. \A j \in Sockets : rx[j].timer \in Nat
    BY DEF IInv, TableOK, RxRec
  <2> QED  BY <1>1, <2>1 DEF TimerMoves
<1> QED  BY <1>3, <1>4, <1>5, <1>6, <1>7, <1>8 DEF IInv

\* The event has passed all sockets, and is put back if one asked for more.
LEMMA EvEndKeeps ==
  ASSUME IInv, EvEnd
  PROVE  IInv' /\ TimerMoves
<1>1. /\ ev' = [at |-> "idle", i |-> 0, more |-> FALSE, slow |-> FALSE]
      /\ ev.at = "end" /\ events' = IF ev.more THEN Scheduled(events) ELSE events
      /\ UNCHANGED <<sock, rx, tx, ret, modem, faults>>
  BY DEF EvEnd, EvIdle
<1>2. ev'.at = "idle" /\ ev'.i = 0 /\ ev'.slow = FALSE
  BY <1>1
<1>3. TableOK' /\ CallsOK' /\ ModemOK' /\ RecordsGood'
  BY <1>1 DEF IInv, TableOK, CallsOK, ModemOK, RecordsGood, RxGood, TxGood
<1>4. /\ events' \in Nat /\ events' <= SOCKET_COUNT
      /\ events > 0 => events' > 0
      /\ ev.more => events' > 0
  <2>1. events \in Nat /\ events <= SOCKET_COUNT
    BY DEF IInv, EventOK
  <2>2. events' = Scheduled(events) \/ events' = events
    BY <1>1
  <2>3. ev.more => events' = Scheduled(events)
    BY <1>1
  <2> QED  BY <2>1, <2>2, <2>3, ScheduledInRange
<1>5. EventOK'
  <2>1. ev' \in EvRec
    BY <1>1 DEF EvRec
  <2>2. ev'.i < SOCKET_COUNT
    BY <1>2, SizeAssumption
  <2> QED  BY <1>4, <2>1, <2>2 DEF EventOK
<1>6. DueAhead'
  BY <1>1 DEF IInv, DueAhead, CallbackAhead
<1>7. ActiveServed'
  BY <1>1, <1>4 DEF IInv, ActiveServed, AskedMore, RxAhead, TxAhead
<1>8. SlowHasCause'
  BY <1>2 DEF SlowHasCause
<1>9. TimerMoves
  <2>1. \A j \in Sockets : rx[j].timer \in Nat
    BY DEF IInv, TableOK, RxRec
  <2> QED  BY <1>1, <2>1 DEF TimerMoves
<1> QED  BY <1>3, <1>5, <1>6, <1>7, <1>8, <1>9 DEF IInv

\* The record after a poll by the event, its timer held at the slow mark.
LEMMA ClampedMoves ==
  ASSUME NEW r \in RxRec, NEW slow \in BOOLEAN, ~slow => r.timer <= SlowCap,
         NEW c, c = Clamped(r, slow)
  PROVE  /\ c \in RxRec /\ c.state = r.state /\ c.req = r.req /\ c.disTO = r.disTO
         /\ c.got = r.got /\ c.count = r.count /\ c.size = r.size
         /\ c.buffer = r.buffer /\ c.polls = r.polls
         /\ c.timer <= SlowCap /\ (slow => c.timer = SlowCap) /\ (~slow => c = r)
<1>1. CASE slow
  <2>1. c = [r EXCEPT !.timer = SlowCap] /\ SlowCap \in Nat
    BY <1>1, SlowCapAfterTimeout DEF Clamped
  <2>2. c \in RxRec
    BY <2>1 DEF RxRec
  <2>3. /\ c.state = r.state /\ c.req = r.req /\ c.disTO = r.disTO /\ c.got = r.got
        /\ c.count = r.count /\ c.size = r.size /\ c.buffer = r.buffer
        /\ c.polls = r.polls /\ c.timer = SlowCap
    BY <2>1 DEF RxRec
  <2>4. SlowCap <= SlowCap
    BY <2>1
  <2> QED  BY <1>1, <2>2, <2>3, <2>4, Zenon
<1>2. CASE ~slow
  <2>1. c = r
    BY <1>2 DEF Clamped
  <2> QED  BY <1>2, <2>1, Zenon
<1> QED  BY <1>1, <1>2

\* The event is at one of the sockets.
LEMMA EventAtSocket ==
  ASSUME EventOK
  PROVE  ev.i \in Sockets /\ ev.i \in Nat /\ ev.i < SOCKET_COUNT
<1>1. ev.i \in Nat /\ ev.i < SOCKET_COUNT
  BY DEF EventOK, EvRec
<1> QED  BY <1>1, SizeAssumption DEF Sockets

\* The event polls the read of a socket, or passes it.
LEMMA EvRxKeeps ==
  ASSUME IInv, EvRx
  PROVE  IInv' /\ TimerMoves
<1> DEFINE i == ev.i
<1>1. /\ rx \in [Sockets -> RxRec] /\ RecordsGood /\ DueAhead /\ ActiveServed
      /\ SlowHasCause /\ CallsOK /\ ModemOK
      /\ i \in Sockets /\ ev \in EvRec /\ ev.at = "rx"
      /\ UNCHANGED <<sock, tx, ret, events>>
  BY EventAtSocket DEF IInv, TableOK, EventOK, EvRx
<1>2. ev.i \in Nat /\ ev.more \in BOOLEAN /\ ev.slow \in BOOLEAN /\ i < SOCKET_COUNT
  BY <1>1 DEF EvRec, IInv, EventOK
<1>3. \A j \in Sockets : rx[j].timer \in Nat /\ rx[j].req \in Nat /\ rx[j].got \in Nat
  BY <1>1 DEF RxRec
<1>4. CallsOK'
  BY <1>1 DEF CallsOK
<1>5. CASE ~(rx[i].state = "READ_ACTIVE" \/ rx[i].disTO)
  <2>1. ev' = [ev EXCEPT !.at = "tx"] /\ UNCHANGED <<rx, faults, modem>>
    BY <1>5 DEF EvRx
  <2>2. ev' \in EvRec
    BY <1>1, <2>1 DEF EvRec
  <2>3. ev'.at = "tx" /\ ev'.i = i /\ ev'.more = ev.more /\ ev'.slow = ev.slow
    BY <1>1, <2>1 DEF EvRec
  <2>4. TableOK' /\ ModemOK' /\ RecordsGood'
    BY <1>1, <2>1 DEF IInv, TableOK, ModemOK, RecordsGood, RxGood, TxGood
  <2>5. EventOK'
    BY <1>1, <2>2, <2>3 DEF IInv, EventOK
  <2>6. DueAhead'
    BY <2>3 DEF DueAhead, CallbackAhead
  <2>7. ActiveServed'
    <3>1. AskedMore => AskedMore'
      BY <1>1, <2>3 DEF AskedMore
    <3>2. \A j \in Sockets \ {i} : RxAhead(j) => RxAhead(j)'
      BY <1>1, <1>2, <2>3 DEF RxAhead, Sockets
    <3>3. \A j \in Sockets : TxAhead(j) => TxAhead(j)'
      BY <1>1, <2>3 DEF TxAhead
    <3> QED  BY <1>1, <1>5, <2>1, <3>1, <3>2, <3>3 DEF ActiveServed
  <2>8. SlowHasCause'
    BY <1>1, <2>1, <2>3 DEF SlowHasCause
  <2>9. TimerMoves
    BY <1>3, <2>1 DEF TimerMoves
  <2> QED  BY <1>4, <2>4, <2>5, <2>6, <2>7, <2>8, <2>9 DEF IInv
<1>6. CASE rx[i].state = "READ_ACTIVE" \/ rx[i].disTO
  <2> DEFINE r == rx[i]
  <2>1. PICK o \in RxOutcomes(i, r.req) :
          LET e    == RxEvent(r, o.cnt)
              slow == ev.slow \/ e.rx.timer > SlowCap
          IN /\ rx' = [rx EXCEPT ![i] = Clamped(e.rx, slow)]
             /\ ev' = [ev EXCEPT !.at = "tx", !.more = EvMore(@, e.more), !.slow = slow]
             /\ faults' = faults + o.fault
             /\ modem' = [modem EXCEPT ![i].inbox = @ - o.taken]
    BY <1>6 DEF EvRx
  <2>2. /\ o.cnt \in Int /\ o.cnt >= -1 /\ o.taken \in Nat
        /\ o.taken <= modem[i].inbox /\ o.fault \in Nat
    BY <1>1, <1>3, RxOutcomesInRange
  <2>3. r \in RxRec /\ r.timer \in Nat /\ r.timer <= SlowCap /\ r.req <= BUFF_SIZE
    BY <1>1, <1>3 DEF RecordsGood, RxGood
  <2> DEFINE e    == RxEvent(r, o.cnt)
             slow == ev.slow \/ e.rx.timer > SlowCap
             more == ev.more \/ e.more
             c    == rx'[i]
  <2> HIDE DEF r
  <2>4. /\ e.rx \in RxRec
        /\ \/ e.more = TRUE  /\ e.rx.state = r.state
           \/ e.more = FALSE /\ e.rx.state = RxDone(r) /\ (r.disTO => e.rx.got > 0)
        /\ e.rx.timer <= r.timer + 1 /\ e.rx.got >= r.got
        /\ e.rx.req = r.req /\ e.rx.disTO = r.disTO
    BY <2>2, <2>3, RxEventMoves
  <2>5. /\ rx' = [rx EXCEPT ![i] = Clamped(e.rx, slow)]
        /\ ev' = [ev EXCEPT !.at = "tx", !.more = more, !.slow = slow]
        /\ faults' = faults + o.fault
        /\ modem' = [modem EXCEPT ![i].inbox = @ - o.taken]
    BY <2>1 DEF EvMore
  <2> HIDE DEF e
  <2>6. slow \in BOOLEAN /\ more \in BOOLEAN
    OBVIOUS
  <2>7. ~slow => e.rx.timer <= SlowCap
    <3>1. e.rx.timer \in Nat
      BY <2>4 DEF RxRec
    <3> QED  BY <3>1, SlowCapAfterTimeout
  <2>8. c = Clamped(e.rx, slow) /\ \A j \in Sockets \ {i} : rx'[j] = rx[j]
    BY <1>1, <2>5
  <2>9. (slow => ev.slow \/ e.rx.timer > SlowCap) /\ (e.more => more) /\ (ev.more => more)
    OBVIOUS
  <2> HIDE DEF slow, more, c
  <2>10. /\ c \in RxRec /\ c.state = e.rx.state /\ c.req = e.rx.req
         /\ c.disTO = e.rx.disTO /\ c.got = e.rx.got /\ c.timer <= SlowCap
         /\ (slow => c.timer = SlowCap) /\ (~slow => c = e.rx)
    BY <2>4, <2>6, <2>7, <2>8, ClampedMoves
  <2>11. ev' \in EvRec
    BY <1>1, <2>5, <2>6 DEF EvRec
  <2>12. ev'.at = "tx" /\ ev'.i = i /\ ev'.more = more /\ ev'.slow = slow
    BY <1>1, <2>5 DEF EvRec
  <2>13. TableOK'
    BY <1>1, <2>5, <2>8, <2>10 DEF IInv, TableOK
  <2>14. ModemOK'
    <3>1. modem[i].inbox - o.taken \in Nat
      BY <1>1, <2>2 DEF ModemOK
    <3>2. [modem[i] EXCEPT !.inbox = @ - o.taken] \in [linked : BOOLEAN, inbox : Nat]
      BY <1>1, <3>1 DEF ModemOK
    <3>3. faults' \in Nat
      BY <1>1, <2>2, <2>5 DEF ModemOK
    <3> QED  BY <1>1, <2>5, <3>2, <3>3 DEF ModemOK
  <2>15. EventOK'
    BY <1>1, <2>11, <2>12 DEF IInv, EventOK
  <2>16. RecordsGood'
    <3>1. RxGood(c)
      <4>1. c.state # "READ_INIT"
        BY <1>1, <2>4, <2>10 DEF RecordsGood, RxGood, RxDone, r
      <4>2. c.timer <= SlowCap /\ c.req <= BUFF_SIZE
        BY <2>3, <2>4, <2>10
      <4>3. c.state \in {"READ_DOCB", "DATA_AVAILABLE"} /\ c.disTO => c.got > 0
        <5>1. e.more = TRUE /\ r.got > 0 => c.got > 0
          <6>1. r.got \in Nat /\ c.got \in Nat
            BY <2>3, <2>10 DEF RxRec
          <6> QED  BY <2>4, <2>10, <6>1
        <5>2. r.state \in {"READ_DOCB", "DATA_AVAILABLE"} /\ r.disTO => r.got > 0
          BY <1>1 DEF RecordsGood, RxGood, r
        <5> QED  BY <2>4, <2>10, <5>1, <5>2
      <4> QED  BY <4>1, <4>2, <4>3 DEF RxGood
    <3>2. \A j \in Sockets \ {i} : RxGood(rx[j])'
      BY <1>1, <2>8 DEF RecordsGood, RxGood
    <3>3. \A j \in Sockets : TxGood(tx[j])'
      BY <1>1 DEF RecordsGood, TxGood
    <3> QED  BY <3>1, <3>2, <3>3 DEF RecordsGood, RxGood, c
  <2>17. DueAhead'
    BY <2>12 DEF DueAhead, CallbackAhead
  <2>18. ActiveServed'
    <3>1. AskedMore => AskedMore'
      BY <1>1, <2>9, <2>12 DEF AskedMore
    <3>2. \A j \in Sockets \ {i} : RxAhead(j) => RxAhead(j)'
      BY <1>1, <1>2, <2>12 DEF RxAhead, Sockets
    <3>3. \A j \in Sockets : TxAhead(j) => TxAhead(j)'
      BY <1>1, <2>12 DEF TxAhead
    <3>4. rx'[i].state = "READ_ACTIVE" => AskedMore'
      <4>1. RxDone(r) # "READ_ACTIVE"
        BY DEF RxDone
      <4>2. c.state = "READ_ACTIVE" => more
        BY <2>4, <2>9, <2>10, <4>1
      <4> QED  BY <2>12, <4>2 DEF AskedMore, c
    <3> QED  BY <1>1, <2>8, <3>1, <3>2, <3>3, <3>4 DEF ActiveServed
  <2>19. SlowHasCause'
    BY <1>1, <2>10, <2>12 DEF SlowHasCause, c
  <2>20. TimerMoves
    <3>1. \A j \in Sockets \ {i} : ~(rx'[j].timer > rx[j].timer + 1)
      BY <1>3, <2>8
    <3>2. ASSUME c.timer > r.timer + 1
          PROVE  \E j \in 0..(i - 1) : rx[j].timer = SlowCap
      <4>1. c.timer \in Nat /\ e.rx.timer \in Nat /\ SlowCap \in Nat
        BY <2>4, <2>10, SlowCapAfterTimeout DEF RxRec
      <4>2. slow
        <5>1. c # e.rx
          BY <2>3, <2>4, <3>2, <4>1
        <5> QED  BY <2>10, <5>1
      <4>3. ~(e.rx.timer > SlowCap)
        BY <2>3, <2>4, <2>10, <3>2, <4>1, <4>2
      <4>4. ev.slow
        BY <2>9, <4>2, <4>3
      <4>5. PICK j \in Sockets : j < ev.i /\ rx[j].timer = SlowCap
        BY <1>1, <4>4 DEF SlowHasCause
      <4> QED  BY <1>2, <4>5 DEF Sockets
    <3> QED  BY <3>1, <3>2 DEF TimerMoves, c, r
  <2> QED
    BY <1>4, <2>13, <2>14, <2>15, <2>16, <2>17, <2>18, <2>19, <2>20 DEF IInv
<1> QED  BY <1>5, <1>6

\* Where the event goes from a socket.
LEMMA EvNextMoves ==
  ASSUME NEW e \in EvRec, e.i < SOCKET_COUNT,
         NEW phase \in {"rx", "callback"}, NEW after \in {"callback", "end"},
         NEW n, n = EvNext(e, phase, after)
  PROVE  /\ n \in EvRec /\ n.i < SOCKET_COUNT /\ n.more = e.more /\ n.slow = e.slow
         /\ \/ e.i + 1 < SOCKET_COUNT /\ n.i = e.i + 1 /\ n.at = phase
            \/ e.i + 1 = SOCKET_COUNT /\ n.i = 0 /\ n.at = after
<1>1. e.i \in Nat /\ SOCKET_COUNT \in Nat /\ SOCKET_COUNT > 0
  BY SizeAssumption DEF EvRec
<1>2. CASE e.i + 1 < SOCKET_COUNT
  <2> DEFINE i == e.i + 1
  <2>1. n = [e EXCEPT !.i = i, !.at = phase]
    BY <1>2 DEF EvNext
  <2>2. i \in Nat
    BY <1>1
  <2> HIDE DEF i
  <2>3. n \in EvRec
    BY <2>1, <2>2 DEF EvRec
  <2>4. n.i = i /\ n.at = phase /\ n.more = e.more /\ n.slow = e.slow
    BY <2>1 DEF EvRec
  <2> QED  BY <1>2, <2>3, <2>4, Zenon DEF i
<1>3. CASE ~(e.i + 1 < SOCKET_COUNT)
  <2>1. n = [e EXCEPT !.i = 0, !.at = after]
    BY <1>3 DEF EvNext
  <2>2. n \in EvRec
    <3>1. 0 \in Nat
      OBVIOUS
    <3> QED  BY <2>1, <3>1, Zenon DEF EvRec
  <2>3. n.i = 0 /\ n.at = after /\ n.more = e.more /\ n.slow = e.slow
    <3>1. n.i = 0 /\ n.at = after
      BY <2>1 DEF EvRec
    <3>2. n.more = e.more /\ n.slow = e.slow
      BY <2>1 DEF EvRec
    <3> QED  BY <3>1, <3>2
  <2>4. e.i + 1 = SOCKET_COUNT
    BY <1>1, <1>3
  <2>5. n.i < SOCKET_COUNT
    BY <1>1, <2>3
  <2> QED  BY <2>2, <2>3, <2>4, <2>5, Zenon
<1> QED  BY <1>2, <1>3

\* The event sends a chunk of the write of a socket, or passes it.
LEMMA EvTxKeeps ==
  ASSUME IInv, EvTx
  PROVE  IInv' /\ TimerMoves
<1> DEFINE i == ev.i
<1>1. /\ tx \in [Sockets -> TxRec] /\ RecordsGood /\ DueAhead /\ ActiveServed
      /\ SlowHasCause /\ CallsOK /\ ModemOK
      /\ i \in Sockets /\ i \in Nat /\ i < SOCKET_COUNT /\ ev \in EvRec /\ ev.at = "tx"
      /\ UNCHANGED <<sock, rx, ret, events, modem>>
  BY EventAtSocket DEF IInv, TableOK, EventOK, EvTx
<1>2. ev.more \in BOOLEAN /\ ev.slow \in BOOLEAN
  BY <1>1 DEF EvRec
<1>3. CallsOK' /\ TimerMoves
  <2>1. \A j \in Sockets : rx[j].timer \in Nat
    BY DEF IInv, TableOK, RxRec
  <2> QED  BY <1>1, <2>1 DEF CallsOK, TimerMoves
\* The event goes on, and asks for more if this write or one before did.
<1>4. ASSUME NEW more \in BOOLEAN, ev.more => more,
             ev'.slow = ev.slow \/ ev'.slow = FALSE,
             ev' \in EvRec, ev'.i < SOCKET_COUNT, ev'.more = more,
             \/ i + 1 < SOCKET_COUNT /\ ev'.i = i + 1 /\ ev'.at = "rx"
             \/ i + 1 = SOCKET_COUNT /\ ev'.i = 0 /\ ev'.at = "callback",
             faults' \in Nat, tx'[i] \in TxRec, TxGood(tx'[i]),
             tx'[i].state = "TX_ACTIVE" => more,
             tx' = [tx EXCEPT ![i] = tx'[i]]
      PROVE  IInv'
  <2>1. TableOK' /\ ModemOK' /\ EventOK'
    BY <1>1, <1>4 DEF IInv, TableOK, ModemOK, EventOK
  <2>2. \A j \in Sockets \ {i} : tx'[j] = tx[j]
    BY <1>1, <1>4
  <2>3. RecordsGood'
    BY <1>1, <1>4, <2>2 DEF RecordsGood, RxGood, TxGood
  <2>4. DueAhead'
    <3>1. \A j \in Sockets : CallbackAhead(j)'
      BY <1>4, SizeAssumption DEF CallbackAhead, Sockets
    <3> QED  BY <3>1 DEF DueAhead
  <2>5. ActiveServed'
    <3>1. AskedMore => AskedMore'
      BY <1>1, <1>4 DEF AskedMore
    <3>2. \A j \in Sockets : RxAhead(j) => RxAhead(j)'
      <4> SUFFICES ASSUME NEW j \in Sockets, i < j  PROVE RxAhead(j)'
        BY <1>1 DEF RxAhead
      <4>1. j \in Nat /\ j < SOCKET_COUNT
        BY SizeAssumption DEF Sockets
      <4>2. ev'.i = i + 1 /\ ev'.at = "rx"
        BY <1>1, <1>4, <4>1
      <4> QED  BY <1>1, <4>1, <4>2 DEF RxAhead
    <3>3. \A j \in Sockets \ {i} : TxAhead(j) => TxAhead(j)'
      <4> SUFFICES ASSUME NEW j \in Sockets \ {i}, i <= j  PROVE TxAhead(j)'
        BY <1>1 DEF TxAhead
      <4>1. j \in Nat /\ j < SOCKET_COUNT /\ i < j
        BY <1>1, SizeAssumption DEF Sockets
      <4>2. ev'.i = i + 1 /\ ev'.at = "rx"
        BY <1>1, <1>4, <4>1
      <4> QED  BY <1>1, <4>1, <4>2 DEF TxAhead
    <3>4. tx'[i].state = "TX_ACTIVE" => AskedMore'
      BY <1>4 DEF AskedMore
    <3> QED  BY <1>1, <2>2, <3>1, <3>2, <3>3, <3>4 DEF ActiveServed
  <2>6. SlowHasCause'
    <3> SUFFICES ASSUME ev'.slow, ev'.at \in {"rx", "tx"}
                 PROVE  \E j \in Sockets : j < ev'.i /\ rx'[j].timer = SlowCap
      BY DEF SlowHasCause
    <3>1. PICK j \in Sockets : (j < i \/ j = i) /\ rx[j].timer = SlowCap
      BY <1>1, <1>4 DEF SlowHasCause
    <3>2. ev'.i = i + 1
      BY <1>4
    <3>3. j < ev'.i
      BY <1>1, <3>1, <3>2 DEF Sockets
    <3> QED  BY <1>1, <3>1, <3>3
  <2> QED  BY <1>3, <2>1, <2>3, <2>4, <2>5, <2>6 DEF IInv
<1>5. CASE tx[i].state # "TX_ACTIVE"
  <2>1. ev' = EvNext(ev, "rx", "callback") /\ UNCHANGED <<tx, faults>>
    BY <1>5 DEF EvTx
  <2>2. /\ ev' \in EvRec /\ ev'.i < SOCKET_COUNT /\ ev'.more = ev.more
        /\ ev'.slow = ev.slow
        /\ \/ i + 1 < SOCKET_COUNT /\ ev'.i = i + 1 /\ ev'.at = "rx"
           \/ i + 1 = SOCKET_COUNT /\ ev'.i = 0 /\ ev'.at = "callback"
    BY <1>1, <2>1, EvNextMoves
  <2>3. /\ tx' = [tx EXCEPT ![i] = tx'[i]] /\ tx'[i] \in TxRec /\ TxGood(tx'[i])
        /\ tx'[i].state # "TX_ACTIVE" /\ faults' \in Nat
    BY <1>1, <1>5, <2>1 DEF RecordsGood, ModemOK
  <2> QED  BY <1>2, <1>3, <1>4, <2>2, <2>3
<1>6. CASE tx[i].state = "TX_ACTIVE"
  <2> DEFINE t == tx[i]
  <2>1. PICK o \in TxOutcomes(i, t.req) :
          LET e == TxEvent(t, o)
          IN /\ tx' = [tx EXCEPT ![i] = e.tx]
             /\ ev' = EvNext([ev EXCEPT !.more = EvMore(@, e.more), !.slow = FALSE],
                             "rx", "callback")
             /\ faults' = faults + o.fault
    BY <1>6 DEF EvTx
  <2>2. /\ t \in TxRec /\ t.from = t.sent /\ t.req \in Nat /\ t.req > 0
        /\ t.req <= BUFF_SIZE /\ t.from + t.req <= t.orig /\ t.state = "TX_ACTIVE"
    <3>1. t \in TxRec /\ t.req \in Nat
      BY <1>1 DEF TxRec
    <3> QED  BY <1>1, <1>6, <3>1 DEF RecordsGood, TxGood
  <2>3. TxOutcomeOK(o) /\ o.fault \in Nat
    BY <1>1, <2>2, TxOutcomesInRange DEF TxOutcomeOK
  <2> HIDE DEF t
  <2> DEFINE e    == TxEvent(t, o)
             more == ev.more \/ e.more
             v    == [ev EXCEPT !.more = more, !.slow = FALSE]
  <2>4. /\ e.tx \in TxRec
        /\ e.more => /\ e.tx.state = t.state
                     /\ e.tx.from = e.tx.sent /\ e.tx.req > 0 /\ e.tx.req <= BUFF_SIZE
                     /\ e.tx.from + e.tx.req <= e.tx.orig
        /\ ~e.more => e.tx.state \in {"TX_DOCB", "TX_COMPLETE"}
    BY <2>2, <2>3, TxEventMoves
  <2>5. tx' = [tx EXCEPT ![i] = e.tx] /\ ev' = EvNext(v, "rx", "callback")
    BY <2>1 DEF EvMore
  <2>6. faults' \in Nat
    BY <1>1, <2>1, <2>3 DEF ModemOK
  <2> HIDE DEF e
  <2>7. more \in BOOLEAN /\ (e.more => more) /\ (ev.more => more)
    OBVIOUS
  <2> HIDE DEF more
  <2>8. v \in EvRec /\ v.at = "tx" /\ v.i = i /\ v.more = more /\ v.slow = FALSE
    <3>1. v \in EvRec
      BY <1>1, <2>7 DEF EvRec
    <3>2. v.at = "tx" /\ v.i = i /\ v.more = more /\ v.slow = FALSE
      BY <1>1 DEF EvRec
    <3> QED  BY <3>1, <3>2
  <2> HIDE DEF v
  <2>9. /\ ev' \in EvRec /\ ev'.i < SOCKET_COUNT /\ ev'.more = more
        /\ ev'.slow = FALSE
        /\ \/ i + 1 < SOCKET_COUNT /\ ev'.i = i + 1 /\ ev'.at = "rx"
           \/ i + 1 = SOCKET_COUNT /\ ev'.i = 0 /\ ev'.at = "callback"
    BY <1>1, <2>5, <2>8, EvNextMoves
  <2>10. tx'[i] = e.tx /\ tx' = [tx EXCEPT ![i] = tx'[i]]
    BY <1>1, <2>5
  <2>11. TxGood(e.tx) /\ (e.tx.state = "TX_ACTIVE" => more)
    BY <2>2, <2>4, <2>7 DEF TxGood
  <2> QED  BY <1>3, <1>4, <2>4, <2>6, <2>7, <2>9, <2>10, <2>11
<1> QED  BY <1>5, <1>6

\* The event makes the callbacks of a socket that are due.
LEMMA EvCallbackKeeps ==
  ASSUME IInv, EvCallback
  PROVE  IInv' /\ TimerMoves
<1> DEFINE i == ev.i
<1>1. /\ rx \in [Sockets -> RxRec] /\ tx \in [Sockets -> TxRec]
      /\ RecordsGood /\ DueAhead /\ ActiveServed /\ SlowHasCause
      /\ i \in Sockets /\ i \in Nat /\ i < SOCKET_COUNT /\ ev \in EvRec
      /\ ev.at = "callback"
      /\ UNCHANGED <<sock, ret, events, modem, faults>>
  BY EventAtSocket DEF IInv, TableOK, EventOK, EvCallback
<1>2. /\ ev' \in EvRec /\ ev'.i < SOCKET_COUNT /\ ev'.more = ev.more
      /\ ev'.slow = ev.slow
      /\ \/ i + 1 < SOCKET_COUNT /\ ev'.i = i + 1 /\ ev'.at = "callback"
         \/ i + 1 = SOCKET_COUNT /\ ev'.i = 0 /\ ev'.at = "end"
  <2>1. ev' = EvNext(ev, "callback", "end")
    BY DEF EvCallback
  <2> QED  BY <1>1, <2>1, EvNextMoves
<1>3. /\ rx' = rx \/ rx' = [rx EXCEPT ![i].state = "DATA_AVAILABLE"]
      /\ rx[i].state = "READ_DOCB" => rx' = [rx EXCEPT ![i].state = "DATA_AVAILABLE"]
      /\ rx[i].state # "READ_DOCB" => rx' = rx
  BY DEF EvCallback, RxCalledBack
<1>4. /\ tx' = tx \/ tx' = [tx EXCEPT ![i].state = "TX_COMPLETE"]
      /\ tx[i].state = "TX_DOCB" => tx' = [tx EXCEPT ![i].state = "TX_COMPLETE"]
      /\ tx[i].state # "TX_DOCB" => tx' = tx
  BY DEF EvCallback, TxCalledBack
<1>5. [rx[i] EXCEPT !.state = "DATA_AVAILABLE"] \in RxRec
  BY <1>1 DEF RxRec, RxStates
<1>6. [tx[i] EXCEPT !.state = "TX_COMPLETE"] \in TxRec
  BY <1>1 DEF TxRec, TxStates
<1>7. TableOK'
  BY <1>1, <1>3, <1>4, <1>5, <1>6 DEF TableOK
<1>8. \A j \in Sockets :
        /\ \/ rx'[j].state = rx[j].state /\ (j = i => rx[j].state # "READ_DOCB")
           \/ /\ j = i /\ rx[j].state = "READ_DOCB"
              /\ rx'[j].state = "DATA_AVAILABLE"
        /\ rx'[j].timer = rx[j].timer /\ rx'[j].req = rx[j].req
        /\ rx'[j].disTO = rx[j].disTO /\ rx'[j].got = rx[j].got
  BY <1>1, <1>3 DEF RxRec
<1>9. \A j \in Sockets :
        /\ \/ tx'[j].state = tx[j].state /\ (j = i => tx[j].state # "TX_DOCB")
           \/ j = i /\ tx[j].state = "TX_DOCB" /\ tx'[j].state = "TX_COMPLETE"
        /\ tx'[j].orig = tx[j].orig /\ tx'[j].req = tx[j].req
        /\ tx'[j].sent = tx[j].sent /\ tx'[j].from = tx[j].from
  BY <1>1, <1>4 DEF TxRec
<1>10. CallsOK' /\ ModemOK' /\ EventOK'
  BY <1>1, <1>2 DEF IInv, CallsOK, ModemOK, EventOK
<1>11. RecordsGood'
  BY <1>1, <1>8, <1>9 DEF RecordsGood, RxGood, TxGood
<1>12. DueAhead'
  <2> SUFFICES ASSUME NEW j \in Sockets,
                      rx'[j].state = "READ_DOCB" \/ tx'[j].state = "TX_DOCB"
               PROVE  CallbackAhead(j)'
    BY DEF DueAhead
  <2>1. j # i /\ (rx[j].state = "READ_DOCB" \/ tx[j].state = "TX_DOCB")
    BY <1>8, <1>9
  <2>2. i <= j
    BY <1>1, <2>1 DEF DueAhead, CallbackAhead
  <2>3. j \in Nat /\ j < SOCKET_COUNT /\ i < j
    BY <1>1, <2>1, <2>2, SizeAssumption DEF Sockets
  <2>4. ev'.i = i + 1 /\ ev'.at = "callback"
    BY <1>1, <1>2, <2>3, SizeAssumption
  <2> QED  BY <1>1, <2>3, <2>4 DEF CallbackAhead
<1>13. ActiveServed'
  <2>1. \A j \in Sockets :
          rx[j].state = "READ_ACTIVE" \/ tx[j].state = "TX_ACTIVE" => AskedMore
    BY <1>1 DEF ActiveServed, RxAhead, TxAhead
  <2>2. AskedMore => AskedMore'
    BY <1>1, <1>2 DEF AskedMore
  <2> QED  BY <1>8, <1>9, <2>1, <2>2 DEF ActiveServed
<1>14. SlowHasCause'
  BY <1>2 DEF SlowHasCause
<1>15. TimerMoves
  <2>1. \A j \in Sockets : rx[j].timer \in Nat
    BY <1>1 DEF RxRec
  <2> QED  BY <1>8, <2>1 DEF TimerMoves
<1> QED  BY <1>7, <1>10, <1>11, <1>12, <1>13, <1>14, <1>15 DEF IInv

-----------------------------------------------------------------------------
(* The theorems.                                                           *)

LEMMA NextKeeps ==
  ASSUME IInv, [Next]_vars
  PROVE  IInv' /\ TimerMoves
<1>1. CASE UNCHANGED vars
  <2>1. UNCHANGED <<rx, tx, ev, sock, ret, modem, faults, events>>
    BY <1>1 DEF vars
  <2>2. CallsOK' /\ ModemOK'
    BY <2>1 DEF IInv, CallsOK, ModemOK
  <2>3. events \in Nat /\ events <= SOCKET_COUNT
    BY DEF IInv, EventOK
  <2> QED  BY <2>1, <2>2, <2>3, QuietKeeps
<1>2. CASE EvStep
  BY <1>2, EvBeginKeeps, EvRxKeeps, EvTxKeeps, EvCallbackKeeps, EvEndKeeps DEF EvStep
<1>3. ASSUME NEW i \in Sockets, AppNext(i) \/ Return(i) \/ Arrive(i) \/ Hangup(i)
      PROVE  IInv' /\ TimerMoves
  <2>1. ASSUME NEW b \in Buffers, NEW n \in RecvSizes, RecvStart(i, b, n)
        PROVE  IInv' /\ TimerMoves
    BY <2>1, RecvStartKeeps
  <2>2. ASSUME NEW b \in Buffers, NEW n \in SendSizes, SendStart(i, b, n)
        PROVE  IInv' /\ TimerMoves
    BY <2>2, SendStartKeeps
  <2> QED  BY <1>3, <2>1, <2>2, OtherKeeps DEF AppNext
<1> QED  BY <1>1, <1>2, <1>3 DEF Next

\* The inductive invariant always holds.
THEOREM AlwaysIInv == Spec => []IInv
<1>1. IInv /\ [Next]_vars => IInv'
  BY NextKeeps
<1> QED  BY <1>1, InitIInv, PTL DEF Spec

\* The types, and the timer that never passes the slow mark: with any number of
\* sockets and any time-out, the int of a read that never times out stays small.
THEOREM TypeCorrect == Spec => []TypeOK
<1>1. IInv => TypeOK
  <2> SUFFICES ASSUME IInv  PROVE TypeOK
    OBVIOUS
  <2>1. sock \in [Sockets -> [id : {-1} \cup Sockets, disTO : BOOLEAN,
                              connected : BOOLEAN, callback : BOOLEAN]]
    BY DEF IInv, CallsOK, SockRec
  <2>2. ASSUME NEW i \in Sockets
        PROVE  /\ rx[i].state \in RxStates /\ rx[i].timer \in 0..SlowCap
               /\ rx[i].req \in 0..BUFF_SIZE /\ rx[i].count \in Nat
    <3>1. /\ rx[i].state \in RxStates /\ rx[i].timer \in Nat
          /\ rx[i].req \in Nat /\ rx[i].count \in Nat
      BY DEF IInv, TableOK, RxRec
    <3>2. rx[i].timer <= SlowCap /\ rx[i].req <= BUFF_SIZE
      BY DEF IInv, RecordsGood, RxGood
    <3> QED  BY <3>1, <3>2, SlowCapAfterTimeout, SizeAssumption
  <2>3. ASSUME NEW i \in Sockets
        PROVE  /\ tx[i].state \in TxStates
               /\ {tx[i].orig, tx[i].sent, tx[i].req, tx[i].from} \subseteq Nat
    BY DEF IInv, TableOK, TxRec
  <2>4. ASSUME NEW i \in Sockets
        PROVE  /\ ret[i].op \in {"none", "recv", "send"}
               /\ modem[i].linked \in BOOLEAN /\ modem[i].inbox \in Nat
    BY DEF IInv, CallsOK, RetRec, ModemOK
  <2>5. ev.at \in {"idle", "rx", "tx", "callback", "end"} /\ ev.i \in Sockets
    BY EventAtSocket DEF IInv, EventOK, EvRec
  <2>6. events \in 0..SOCKET_COUNT
    BY SizeAssumption DEF IInv, EventOK
  <2> QED  BY <2>1, <2>2, <2>3, <2>4, <2>5, <2>6, Zenon DEF TypeOK
<1> QED  BY <1>1, AlwaysIInv, PTL

\* No call ever meets a machine in one of its transient states: socket_recv and
\* socket_send never take their DEVICE_ERROR branches, and no callback is left
\* over when the event ends.
THEOREM TransientAlwaysHidden == Spec => []TransientHidden
<1>1. IInv => TransientHidden
  BY DEF IInv, TableOK, RxRec, TxRec, RxStates, TxStates, RecordsGood, RxGood, TxGood,
         DueAhead, CallbackAhead, TransientHidden
<1> QED  BY <1>1, AlwaysIInv, PTL

\* Whatever the size of a write and of the modem's buffer, each chunk lies in the
\* caller's data and begins where the one before it ended.
THEOREM ChunksInData == Spec => []ChunkInData
<1>1. IInv => ChunkInData
  <2> SUFFICES ASSUME IInv, NEW i \in Sockets, tx[i].state = "TX_ACTIVE"
               PROVE  /\ tx[i].from = tx[i].sent /\ tx[i].req \in 1..BUFF_SIZE
                      /\ tx[i].from + tx[i].req <= tx[i].orig
    BY DEF ChunkInData
  <2>1. tx[i].req \in Nat
    BY DEF IInv, TableOK, TxRec
  <2> QED  BY <2>1, SizeAssumption DEF IInv, RecordsGood, TxGood
<1> QED  BY <1>1, AlwaysIInv, PTL

\* A read of a listening socket never ends without data, however long it polls.
THEOREM ListenersWait == Spec => []ListenerWaits
<1>1. IInv => ListenerWaits
  BY DEF IInv, RecordsGood, RxGood, ListenerWaits
<1> QED  BY <1>1, AlwaysIInv, PTL

\* With any number of sockets, a transfer that is active has an event coming: the
\* event that passes it last asks for another, and is put back when it ends.
THEOREM TransfersHaveEvent == Spec => []TransferHasEvent
<1>1. IInv => TransferHasEvent
  BY DEF IInv, ActiveServed, AskedMore, RxAhead, TxAhead, TransferHasEvent
<1> QED  BY <1>1, AlwaysIInv, PTL

\* A timer moves by more than one a poll only behind a socket whose own timer
\* stands at the slow mark.
THEOREM TimersMoveBySlow == Spec => TimerMovedBySlow
<1>1. IInv /\ [Next]_vars => [TimerMoves]_vars
  BY NextKeeps
<1>2. [TimerMoves]_vars =>
        [\A i \in Sockets : rx'[i].timer > rx[i].timer + 1 =>
           \E j \in 0..(i - 1) : rx[j].timer = SlowCap]_vars
  BY DEF TimerMoves
<1> QED  BY <1>1, <1>2, AlwaysIInv, PTL DEF Spec, TimerMovedBySlow

=============================================================================
