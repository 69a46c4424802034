------------------------ MODULE SocketServiceProofs ------------------------
(***************************************************************************)
(* Proofs that SocketEngine implements SocketService, and that the caller  *)
(* gets the bytes of its own transfer, for every number of sockets, size   *)
(* of data and time-out.                                                   *)
(*                                                                         *)
(* They are about the use that the code is right for: no socket listens,   *)
(* and a call that returned WOULD_BLOCK is retried with its arguments.     *)
(* With a listening socket the event goes on polling a record without a    *)
(* request, and the record of a call that collects another call's transfer *)
(* answers for the wrong buffer.                                           *)
(***************************************************************************)
EXTENDS SocketEngineProofs

\* A read that is under way or done has put in its buffer what it counts.
ReadExact(r) ==
    /\ ~r.disTO
    /\ r.state # "READ_START" => /\ r.count = r.got /\ r.got <= r.size
                                 /\ r.req <= r.size
    /\ r.state = "READ_ACTIVE" => r.got = 0

\* A write that is done has sent all of its data.
WriteExact(t) == t.state \in {"TX_DOCB", "TX_COMPLETE"} => t.sent = t.orig

TransfersExact == \A j \in Sockets :
    ~sock[j].disTO /\ ReadExact(rx[j]) /\ WriteExact(tx[j])

\* A socket that is closed has no transfer.
ClosedAtRest == \A j \in Sockets :
    ~IsOpen(j) => rx[j].state = "READ_START" /\ tx[j].state = "TX_IDLE"

\* A call that is about to return reads a record that is at rest.
RecvExact(a, r) ==
    /\ r.state = "READ_START" /\ r.count = r.got /\ r.count <= a.size
    /\ r.buffer = a.buffer
SendExact(a, t) == t.state = "TX_IDLE" /\ t.sent = a.size /\ t.buffer = a.buffer

AnswersExact == \A j \in Sockets :
    /\ ret[j].op = "none" => ret[j] = NoReturn
    /\ ret[j].op = "recv" => RecvExact(ret[j], rx[j])
    /\ ret[j].op = "send" => SendExact(ret[j], tx[j])

\* What the plain use adds to the inductive invariant.
PlainInv == TransfersExact /\ ClosedAtRest /\ AnswersExact

\* Its time-out needs a slow mark that lies beyond it.
ClockInv ==
    /\ ~ev.slow
    /\ \A j \in Sockets :
         /\ rx[j].state = "READ_ACTIVE" => rx[j].timer <= READ_TO /\ rx[j].polls >= rx[j].timer
         /\ rx[j].state \in {"READ_DOCB", "DATA_AVAILABLE"} /\ rx[j].got = 0
              => rx[j].polls > READ_TO

\* The modem has what was counted as sent, but for what BG96::send misreported.
Accounted(t) == t.took + t.lost = t.sent + t.twice

TookInv == \A j \in Sockets :
    tx[j].state # "TX_IDLE" \/ ret[j].op = "send" => Accounted(tx[j])

-----------------------------------------------------------------------------
(* What an attempt comes to.                                               *)

\* The request that an attempt to read leaves as it is.
SameRequest(r, q) == /\ q.size = r.size /\ q.buffer = r.buffer
                     /\ q.req = r.req /\ q.disTO = r.disTO

\* Nothing came, and the read goes on; data came; the time-out came.
WaitsOn(r, q)  == /\ q.state = r.state /\ q.count = r.count /\ q.got = r.got
                  /\ q.polls = Least(r.polls + 1, READ_TO + 1)
Takes(r, q, n) == /\ q.state = RxDone(r) /\ n > 0
                  /\ q.count = r.count + n /\ q.got = r.got + n
GivesUp(r, q)  == /\ q.state = RxDone(r) /\ Late(r)
                  /\ q.count = 0 /\ q.got = r.got
                  /\ q.polls = Least(r.polls + 1, READ_TO + 1)

\* The timer of a read that goes on.
Advances(r, q) == q.timer = 0 \/ (q.timer = r.timer + 1 /\ ~Late(r))

LEMMA RxEventCases ==
  ASSUME NEW r \in RxRec, NEW cnt \in Int, cnt >= -1,
         NEW e, e = RxEvent(r, cnt)
  PROVE  /\ SameRequest(r, e.rx)
         /\ \/ e.more = TRUE  /\ WaitsOn(r, e.rx) /\ Advances(r, e.rx)
            \/ e.more = FALSE /\ Takes(r, e.rx, cnt)
            \/ e.more = FALSE /\ GivesUp(r, e.rx)
<1> DEFINE polls == Least(r.polls + 1, READ_TO + 1)
           done  == RxDone(r)
           timer == r.timer + 1
           count == r.count + cnt
           got   == r.got + cnt
<1>1. CASE cnt = Error
  <2>1. e.rx = [r EXCEPT !.polls = polls, !.timer = 0] /\ e.more = TRUE
    BY <1>1 DEF RxEvent, Polled
  <2> HIDE DEF polls, done, timer, count, got
  <2>2. /\ e.rx.size = r.size /\ e.rx.buffer = r.buffer /\ e.rx.req = r.req
        /\ e.rx.disTO = r.disTO
    BY <2>1 DEF RxRec
  <2>3. /\ e.rx.state = r.state /\ e.rx.count = r.count /\ e.rx.got = r.got
        /\ e.rx.polls = polls /\ e.rx.timer = 0
    BY <2>1 DEF RxRec
  <2> QED  BY <2>1, <2>2, <2>3, Zenon DEF SameRequest, WaitsOn, Advances, polls
<1>2. CASE cnt # Error /\ cnt > 0
  <2>1. e.rx = [r EXCEPT !.state = done, !.count = count, !.got = got] /\ e.more = FALSE
    BY <1>2 DEF RxEvent, Received
  <2> HIDE DEF polls, done, timer, count, got
  <2>2. /\ e.rx.size = r.size /\ e.rx.buffer = r.buffer /\ e.rx.req = r.req
        /\ e.rx.disTO = r.disTO
    BY <2>1 DEF RxRec
  <2>3. e.rx.state = done /\ e.rx.count = count /\ e.rx.got = got
    BY <2>1 DEF RxRec
  <2> QED  BY <1>2, <2>1, <2>2, <2>3, Zenon DEF SameRequest, Takes, done, count, got
<1>3. CASE cnt # Error /\ ~(cnt > 0) /\ Late(r)
  <2>1. /\ e.rx = [r EXCEPT !.polls = polls, !.timer = timer, !.state = done, !.count = 0]
        /\ e.more = FALSE
    BY <1>3 DEF RxEvent, Ticked, Polled
  <2> HIDE DEF polls, done, timer, count, got
  <2>2. /\ e.rx.size = r.size /\ e.rx.buffer = r.buffer /\ e.rx.req = r.req
        /\ e.rx.disTO = r.disTO
    BY <2>1 DEF RxRec
  <2>3. e.rx.state = done /\ e.rx.count = 0 /\ e.rx.got = r.got /\ e.rx.polls = polls
    BY <2>1 DEF RxRec
  <2> QED  BY <1>3, <2>1, <2>2, <2>3, Zenon DEF SameRequest, GivesUp, done, polls
<1>4. CASE cnt # Error /\ ~(cnt > 0) /\ ~Late(r)
  <2>1. e.rx = [r EXCEPT !.polls = polls, !.timer = timer] /\ e.more = TRUE
    BY <1>4 DEF RxEvent, Ticked, Polled
  <2> HIDE DEF polls, done, timer, count, got
  <2>2. /\ e.rx.size = r.size /\ e.rx.buffer = r.buffer /\ e.rx.req = r.req
        /\ e.rx.disTO = r.disTO
    BY <2>1 DEF RxRec
  <2>3. /\ e.rx.state = r.state /\ e.rx.count = r.count /\ e.rx.got = r.got
        /\ e.rx.polls = polls /\ e.rx.timer = timer
    BY <2>1 DEF RxRec
  <2> QED  BY <1>4, <2>1, <2>2, <2>3, Zenon DEF SameRequest, WaitsOn, Advances, polls, timer
<1> QED  BY <1>1, <1>2, <1>3, <1>4

\* The write that an attempt to send leaves as it is; the count and its history.
SameWrite(t, u) == u.orig = t.orig /\ u.buffer = t.buffer
SameBooks(t, u) == /\ u.sent = t.sent /\ u.took = t.took
                   /\ u.lost = t.lost /\ u.twice = t.twice

LEMMA SameBooksAccounted ==
  ASSUME NEW t, NEW u, SameBooks(t, u)  PROVE Accounted(u) <=> Accounted(t)
  BY DEF SameBooks, Accounted

\* The chunk is not acknowledged; it is, and there is more; it was the last.
Resends(t, u)   == u.state = t.state /\ u.sent = t.sent
SendsOn(t, u)   == u.state = t.state /\ u.sent = t.sent + t.req /\ u.sent < t.orig
SendsLast(t, u) == /\ u.state \in {"TX_DOCB", "TX_COMPLETE"}
                   /\ u.sent = t.sent + t.req /\ u.sent = t.orig

LEMMA TxEventCases ==
  ASSUME NEW t \in TxRec, t.from = t.sent, t.from + t.req <= t.orig,
         NEW o, TxOutcomeOK(o), o.took + o.lost = (IF o.done THEN t.req ELSE 0) + o.twice,
         NEW e, e = TxEvent(t, o)
  PROVE  /\ SameWrite(t, e.tx) /\ (Accounted(t) => Accounted(e.tx))
         /\ \/ ~o.done /\ e.more  /\ Resends(t, e.tx)
            \/ o.done  /\ e.more  /\ SendsOn(t, e.tx)
            \/ o.done  /\ ~e.more /\ SendsLast(t, e.tx)
<1>1. /\ t.sent \in Nat /\ t.req \in Nat /\ t.from \in Nat /\ t.orig \in Nat
      /\ t.took \in Nat /\ t.lost \in Nat /\ t.twice \in Nat
      /\ o.took \in Nat /\ o.lost \in Nat /\ o.twice \in Nat
  BY DEF TxRec, TxOutcomeOK
<1> DEFINE booked == Booked(t, o)
           upto   == t.sent + t.req
           sent   == [booked EXCEPT !.sent = booked.sent + t.req]
<1>2. /\ booked \in TxRec
      /\ booked.state = t.state /\ booked.sent = t.sent /\ booked.orig = t.orig
      /\ booked.buffer = t.buffer /\ booked.callback = t.callback
      /\ booked.took = t.took + o.took /\ booked.lost = t.lost + o.lost
      /\ booked.twice = t.twice + o.twice
  BY BookedInRange
<1> HIDE DEF booked
<1>3. upto \in Nat /\ upto <= t.orig
  BY <1>1
<1>4. CASE ~o.done
  <2>1. e.tx = booked /\ e.more = TRUE
    BY <1>4 DEF TxEvent, booked
  <2>2. o.took + o.lost = o.twice
    BY <1>1, <1>4
  <2>3. Accounted(t) => Accounted(booked)
    BY <1>1, <1>2, <2>2 DEF Accounted
  <2> QED  BY <1>2, <1>4, <2>1, <2>3, Zenon DEF SameWrite, Resends
<1>5. CASE o.done
  <2>1. e = IF sent.sent < sent.orig THEN [tx |-> NextChunk(sent), more |-> TRUE]
            ELSE [tx |-> [sent EXCEPT !.state = IF t.callback THEN "TX_DOCB"
                                                              ELSE "TX_COMPLETE"],
                  more |-> FALSE]
    BY <1>5 DEF TxEvent, booked
  <2> HIDE DEF upto
  <2>2. /\ sent \in TxRec /\ sent.sent = upto /\ sent.orig = t.orig
        /\ sent.state = t.state /\ sent.buffer = t.buffer
        /\ sent.took = t.took + o.took /\ sent.lost = t.lost + o.lost
        /\ sent.twice = t.twice + o.twice
    <3>1. booked.sent + t.req = upto
      BY <1>2 DEF upto
    <3> QED  BY <1>2, <1>3, <3>1 DEF TxRec
  <2> HIDE DEF sent
  <2>3. o.took + o.lost = t.req + o.twice
    BY <1>1, <1>5
  <2>4. Accounted(t) => Accounted(sent)
    BY <1>1, <2>2, <2>3 DEF Accounted, upto
  <2>5. CASE upto < t.orig
    <3>1. e.tx = NextChunk(sent) /\ e.more = TRUE
      BY <2>1, <2>2, <2>5
    <3>2. /\ e.tx.state = sent.state /\ e.tx.orig = sent.orig
          /\ e.tx.buffer = sent.buffer /\ SameBooks(sent, e.tx)
      BY <2>2, <3>1 DEF NextChunk, TxRec, SameBooks
    <3>3. Accounted(t) => Accounted(e.tx)
      BY <2>4, <3>2, SameBooksAccounted
    <3> QED
      BY <1>5, <2>2, <2>5, <3>1, <3>2, <3>3, Zenon DEF SameWrite, SendsOn, SameBooks, upto
  <2>6. CASE ~(upto < t.orig)
    <3> DEFINE state == IF t.callback THEN "TX_DOCB" ELSE "TX_COMPLETE"
    <3>1. e.tx = [sent EXCEPT !.state = state] /\ e.more = FALSE
      BY <2>1, <2>2, <2>6
    <3>2. state \in {"TX_DOCB", "TX_COMPLETE"}
      OBVIOUS
    <3> HIDE DEF state
    <3>3. /\ e.tx.state = state /\ e.tx.orig = sent.orig
          /\ e.tx.buffer = sent.buffer /\ SameBooks(sent, e.tx)
      BY <2>2, <3>1 DEF TxRec, SameBooks
    <3>4. upto = t.orig
      BY <1>1, <1>3, <2>6
    <3>5. Accounted(t) => Accounted(e.tx)
      BY <2>4, <3>3, SameBooksAccounted
    <3> QED
      BY <1>5, <2>2, <3>1, <3>2, <3>3, <3>4, <3>5, Zenon
      DEF SameWrite, SendsLast, SameBooks, upto
  <2> QED  BY <2>5, <2>6
<1> QED  BY <1>4, <1>5

-----------------------------------------------------------------------------
(* What the steps that make an attempt leave.                              *)

\* socket_recv posts a read, or has its data at once.
LEMMA RecvStartMoves ==
  ASSUME IInv, NEW i \in Sockets, NEW b \in Buffers, NEW n \in RecvSizes,
         RecvStart(i, b, n)
  PROVE  /\ ret[i] = NoReturn /\ IsOpen(i) /\ rx[i].state = "READ_START"
         /\ ev.at = "idle" /\ UNCHANGED <<sock, tx, ev>>
         /\ rx' = [rx EXCEPT ![i] = rx'[i]]
         /\ rx'[i].size = n /\ rx'[i].buffer = b /\ rx'[i].req <= n
         /\ rx'[i].disTO = sock[i].disTO
         /\ rx'[i].count = rx'[i].got
         /\ \/ /\ ret' = ret
               /\ rx'[i].state = "READ_ACTIVE" /\ rx'[i].got = 0
               /\ rx'[i].timer <= 1 /\ rx'[i].polls = 1
            \/ /\ ret' = [ret EXCEPT ![i] = [op |-> "recv", buffer |-> b, size |-> n]]
               /\ rx'[i].state = "READ_START"
               /\ rx'[i].got > 0 /\ rx'[i].got <= n
<1>1. /\ rx \in [Sockets -> RxRec] /\ CallsOK /\ ModemOK
      /\ n \in Nat \ {0} /\ READ_TO \in Nat \ {0}
  BY SizeAssumption DEF IInv, TableOK
<1> DEFINE r == Request(i, b, n)
<1>2. /\ r \in RxRec /\ r.timer = 0 /\ r.got = 0 /\ r.count = 0 /\ r.polls = 0
      /\ r.req \in Nat /\ r.req <= n
      /\ r.size = n /\ r.buffer = b /\ r.disTO = sock[i].disTO
  BY <1>1, RequestInRange
<1>3. PICK o \in RxOutcomes(i, r.req) :
        LET e == RxEvent(r, o.cnt) IN
        IF e.more
          THEN /\ rx' = [rx EXCEPT ![i] = [e.rx EXCEPT !.state = "READ_ACTIVE"]]
               /\ ret' = ret
          ELSE /\ rx' = [rx EXCEPT ![i] = [e.rx EXCEPT !.state = "READ_START"]]
               /\ ret' = [ret EXCEPT ![i] = [op |-> "recv", buffer |-> b, size |-> n]]
  BY DEF RecvStart
<1>4. o.cnt \in Int /\ o.cnt >= -1 /\ o.cnt <= r.req
  BY <1>1, <1>2, RxOutcomesInRange
<1> HIDE DEF r
<1> DEFINE e == RxEvent(r, o.cnt)
<1>5. e.rx \in RxRec /\ e.rx.timer <= r.timer + 1
  BY <1>2, <1>4, RxEventMoves
<1>6. /\ SameRequest(r, e.rx)
      /\ \/ e.more = TRUE  /\ WaitsOn(r, e.rx)
         \/ e.more = FALSE /\ Takes(r, e.rx, o.cnt)
         \/ e.more = FALSE /\ GivesUp(r, e.rx)
  BY <1>2, <1>4, RxEventCases
<1>7. /\ e.more = TRUE =>
           /\ rx' = [rx EXCEPT ![i] = [e.rx EXCEPT !.state = "READ_ACTIVE"]]
           /\ ret' = ret
      /\ e.more = FALSE =>
           /\ rx' = [rx EXCEPT ![i] = [e.rx EXCEPT !.state = "READ_START"]]
           /\ ret' = [ret EXCEPT ![i] = [op |-> "recv", buffer |-> b, size |-> n]]
  BY <1>3
<1> HIDE DEF e
<1>8. ~Late(r)
  BY <1>1, <1>2 DEF Late
<1>9. PICK state \in {"READ_ACTIVE", "READ_START"} :
        /\ rx' = [rx EXCEPT ![i] = [e.rx EXCEPT !.state = state]]
        /\ \/ state = "READ_ACTIVE" /\ ret' = ret /\ WaitsOn(r, e.rx)
           \/ /\ state = "READ_START" /\ Takes(r, e.rx, o.cnt)
              /\ ret' = [ret EXCEPT ![i] = [op |-> "recv", buffer |-> b, size |-> n]]
  BY <1>6, <1>7, <1>8 DEF GivesUp
<1>10. rx'[i] = [e.rx EXCEPT !.state = state] /\ rx' = [rx EXCEPT ![i] = rx'[i]]
  BY <1>1, <1>9
<1>11. /\ rx'[i].state = state /\ rx'[i].size = e.rx.size /\ rx'[i].buffer = e.rx.buffer
       /\ rx'[i].req = e.rx.req /\ rx'[i].disTO = e.rx.disTO
       /\ rx'[i].count = e.rx.count /\ rx'[i].got = e.rx.got
       /\ rx'[i].polls = e.rx.polls /\ rx'[i].timer = e.rx.timer
  BY <1>5, <1>10 DEF RxRec
<1>12. /\ ret[i] = NoReturn /\ IsOpen(i) /\ rx[i].state = "READ_START"
       /\ ev.at = "idle" /\ UNCHANGED <<sock, tx, ev>>
  BY DEF RecvStart, MayCall
<1>13. /\ rx'[i].size = n /\ rx'[i].buffer = b /\ rx'[i].req <= n
       /\ rx'[i].disTO = sock[i].disTO
  BY <1>2, <1>6, <1>11 DEF SameRequest
<1>14. CASE state = "READ_ACTIVE"
  <2>1. ret' = ret /\ rx'[i].count = 0 /\ rx'[i].got = 0
    BY <1>2, <1>9, <1>11, <1>14 DEF WaitsOn
  <2>2. rx'[i].timer <= 1
    BY <1>2, <1>5, <1>11
  <2>3. rx'[i].polls = 1
    BY <1>1, <1>2, <1>9, <1>11, <1>14 DEF WaitsOn, Least
  <2> QED  BY <1>10, <1>11, <1>12, <1>13, <1>14, <2>1, <2>2, <2>3
<1>15. CASE state = "READ_START"
  <2>1. ret' = [ret EXCEPT ![i] = [op |-> "recv", buffer |-> b, size |-> n]]
    BY <1>9, <1>15
  <2>2. rx'[i].count = rx'[i].got /\ rx'[i].got > 0 /\ rx'[i].got <= n
    BY <1>1, <1>2, <1>4, <1>9, <1>11, <1>15 DEF Takes
  <2> QED  BY <1>10, <1>11, <1>12, <1>13, <1>15, <2>1, <2>2
<1> QED  BY <1>14, <1>15

\* socket_send posts a write, or sends all of it at once.
LEMMA SendStartMoves ==
  ASSUME IInv, NEW i \in Sockets, NEW b \in Buffers, NEW n \in SendSizes,
         SendStart(i, b, n)
  PROVE  /\ ret[i] = NoReturn /\ IsOpen(i) /\ tx[i].state = "TX_IDLE"
         /\ ev.at = "idle" /\ UNCHANGED <<sock, rx, ev>>
         /\ tx' = [tx EXCEPT ![i] = tx'[i]]
         /\ tx'[i].orig = n /\ tx'[i].buffer = b /\ tx'[i].sent \in Nat
         /\ \/ /\ ret' = ret
               /\ tx'[i].state = "TX_ACTIVE" /\ tx'[i].sent < n
            \/ /\ ret' = [ret EXCEPT ![i] = [op |-> "send", buffer |-> b, size |-> n]]
               /\ tx'[i].state = "TX_IDLE" /\ tx'[i].sent = n
         /\ Accounted(tx'[i])
<1>1. tx \in [Sockets -> TxRec] /\ CallsOK /\ n \in Nat \ {0}
  BY SizeAssumption DEF IInv, TableOK
<1> DEFINE t == Write(i, b, n)
<1>2. /\ t \in TxRec /\ t.from = t.sent /\ t.sent = 0 /\ t.req \in Nat
      /\ t.took = 0 /\ t.lost = 0 /\ t.twice = 0
      /\ t.req > 0 /\ t.req <= BUFF_SIZE /\ t.from + t.req <= t.orig
      /\ t.orig = n /\ t.buffer = b
  BY <1>1, WriteInRange
<1>3. PICK o \in TxOutcomes(i, t.req) :
        LET e == TxEvent(t, o) IN
        IF e.more
          THEN /\ tx' = [tx EXCEPT ![i] = [e.tx EXCEPT !.state = "TX_ACTIVE"]]
               /\ ret' = ret
          ELSE /\ tx' = [tx EXCEPT ![i] = [e.tx EXCEPT !.state = "TX_IDLE"]]
               /\ ret' = [ret EXCEPT ![i] = [op |-> "send", buffer |-> b, size |-> n]]
  BY DEF SendStart
<1>4. TxOutcomeOK(o) /\ o.took + o.lost = (IF o.done THEN t.req ELSE 0) + o.twice
  BY <1>2, TxOutcomesInRange
<1>5. Accounted(t)
  BY <1>2 DEF Accounted
<1> HIDE DEF t
<1> DEFINE e == TxEvent(t, o)
<1>6. e.tx \in TxRec
  BY <1>2, <1>4, TxEventMoves
<1>7. /\ SameWrite(t, e.tx) /\ (Accounted(t) => Accounted(e.tx))
      /\ \/ ~o.done /\ e.more  /\ Resends(t, e.tx)
         \/ o.done  /\ e.more  /\ SendsOn(t, e.tx)
         \/ o.done  /\ ~e.more /\ SendsLast(t, e.tx)
  BY <1>2, <1>4, TxEventCases
<1>8. /\ e.more  =>
           /\ tx' = [tx EXCEPT ![i] = [e.tx EXCEPT !.state = "TX_ACTIVE"]]
           /\ ret' = ret
      /\ ~e.more =>
           /\ tx' = [tx EXCEPT ![i] = [e.tx EXCEPT !.state = "TX_IDLE"]]
           /\ ret' = [ret EXCEPT ![i] = [op |-> "send", buffer |-> b, size |-> n]]
  BY <1>3
<1> HIDE DEF e
<1>9. PICK state \in {"TX_ACTIVE", "TX_IDLE"} :
        /\ tx' = [tx EXCEPT ![i] = [e.tx EXCEPT !.state = state]]
        /\ \/ state = "TX_ACTIVE" /\ ret' = ret /\ e.more
           \/ /\ state = "TX_IDLE" /\ ~e.more
              /\ ret' = [ret EXCEPT ![i] = [op |-> "send", buffer |-> b, size |-> n]]
  BY <1>7, <1>8
<1>10. tx'[i] = [e.tx EXCEPT !.state = state] /\ tx' = [tx EXCEPT ![i] = tx'[i]]
  BY <1>1, <1>9
<1>11. /\ tx'[i].state = state /\ tx'[i].orig = e.tx.orig /\ tx'[i].buffer = e.tx.buffer
       /\ tx'[i].sent = e.tx.sent /\ SameBooks(e.tx, tx'[i]) /\ e.tx.sent \in Nat
  BY <1>6, <1>10 DEF TxRec, SameBooks
<1>12. /\ ret[i] = NoReturn /\ IsOpen(i) /\ tx[i].state = "TX_IDLE"
       /\ ev.at = "idle" /\ UNCHANGED <<sock, rx, ev>>
  BY DEF SendStart, MayCall
<1>13. Accounted(tx'[i])
  BY <1>5, <1>7, <1>11, SameBooksAccounted
<1>14. /\ e.more  => tx'[i].sent < n
       /\ ~e.more => tx'[i].sent = n
  BY <1>1, <1>2, <1>7, <1>11 DEF Resends, SendsOn, SendsLast
<1>15. tx'[i].orig = n /\ tx'[i].buffer = b
  BY <1>2, <1>7, <1>11 DEF SameWrite
<1> QED  BY <1>9, <1>10, <1>11, <1>12, <1>13, <1>14, <1>15

\* The event polls a read that is active, or leaves the reads alone.
LEMMA EvRxMoves ==
  ASSUME IInv, EvRx, NEW i, i = ev.i, ~rx[i].disTO
  PROVE  /\ i \in Sockets /\ UNCHANGED <<sock, tx, ret>>
         /\ \/ rx' = rx /\ ev'.slow = ev.slow
            \/ /\ rx[i].state = "READ_ACTIVE"
               /\ rx' = [rx EXCEPT ![i] = rx'[i]]
               /\ SameRequest(rx[i], rx'[i])
               /\ \/ WaitsOn(rx[i], rx'[i])
                  \/ \E n \in 1..rx[i].req : Takes(rx[i], rx'[i], n)
                  \/ GivesUp(rx[i], rx'[i])
               /\ ev'.slow => ev.slow \/ rx[i].timer + 1 > SlowCap
               /\ ~ev'.slow => GivesUp(rx[i], rx'[i]) \/ Advances(rx[i], rx'[i])
                                 \/ \E n \in 1..rx[i].req : Takes(rx[i], rx'[i], n)
<1>1. /\ i \in Sockets /\ rx \in [Sockets -> RxRec] /\ ModemOK /\ RecordsGood
      /\ UNCHANGED <<sock, tx, ret>> /\ ev \in EvRec
  BY EventAtSocket DEF IInv, TableOK, EventOK, EvRx
<1>2. CASE rx[i].state # "READ_ACTIVE"
  <2>1. rx' = rx /\ ev' = [ev EXCEPT !.at = "tx"]
    BY <1>2 DEF EvRx
  <2>2. ev'.slow = ev.slow
    BY <1>1, <2>1 DEF EvRec
  <2> QED  BY <1>1, <2>1, <2>2
<1>3. CASE rx[i].state = "READ_ACTIVE"
  <2> DEFINE r == rx[i]
  <2>1. PICK o \in RxOutcomes(i, r.req) :
          LET e    == RxEvent(r, o.cnt)
              slow == ev.slow \/ e.rx.timer > SlowCap
          IN /\ rx' = [rx EXCEPT ![i] = Clamped(e.rx, slow)]
             /\ ev' = [ev EXCEPT !.at = "tx", !.more = EvMore(@, e.more), !.slow = slow]
    BY <1>3 DEF EvRx
  <2>2. r \in RxRec /\ r.req \in Nat /\ r.timer \in Nat
    <3>1. r \in RxRec
      BY <1>1
    <3> QED  BY <3>1 DEF RxRec
  <2>3. o.cnt \in Int /\ o.cnt >= -1 /\ o.cnt <= r.req
    BY <1>1, <2>2, RxOutcomesInRange
  <2> HIDE DEF r
  <2> DEFINE e    == RxEvent(r, o.cnt)
             slow == ev.slow \/ e.rx.timer > SlowCap
             more == EvMore(ev.more, e.more)
             c    == rx'[i]
  <2>4. e.rx \in RxRec /\ e.rx.timer <= r.timer + 1
    BY <2>2, <2>3, RxEventMoves
  <2>5. /\ SameRequest(r, e.rx)
        /\ \/ e.more = TRUE  /\ WaitsOn(r, e.rx) /\ Advances(r, e.rx)
           \/ e.more = FALSE /\ Takes(r, e.rx, o.cnt)
           \/ e.more = FALSE /\ GivesUp(r, e.rx)
    BY <2>2, <2>3, RxEventCases
  <2>6. /\ rx' = [rx EXCEPT ![i] = Clamped(e.rx, slow)]
        /\ ev' = [ev EXCEPT !.at = "tx", !.more = more, !.slow = slow]
    BY <2>1
  <2> HIDE DEF e
  <2>7. /\ slow \in BOOLEAN /\ (slow => ev.slow \/ e.rx.timer > SlowCap)
        /\ (e.rx.timer > SlowCap => slow)
    OBVIOUS
  <2>8. e.rx.timer \in Nat /\ SlowCap \in Nat
    BY <2>4, SlowCapAfterTimeout DEF RxRec
  <2> HIDE DEF slow, more
  <2>9. c = Clamped(e.rx, slow) /\ rx' = [rx EXCEPT ![i] = c]
    BY <1>1, <2>6
  <2>10. ev'.slow = slow
    BY <1>1, <2>6 DEF EvRec
  <2> HIDE DEF c
  <2>11. ~slow => e.rx.timer <= SlowCap
    BY <2>7, <2>8
  <2>12. /\ c.state = e.rx.state /\ c.req = e.rx.req /\ c.disTO = e.rx.disTO
         /\ c.got = e.rx.got /\ c.count = e.rx.count /\ c.size = e.rx.size
         /\ c.buffer = e.rx.buffer /\ c.polls = e.rx.polls /\ (~slow => c = e.rx)
    BY <2>4, <2>7, <2>9, <2>11, ClampedMoves
  <2>13. SameRequest(r, c)
    BY <2>5, <2>12 DEF SameRequest
  <2>14. Takes(r, e.rx, o.cnt) => o.cnt \in 1..r.req /\ Takes(r, c, o.cnt)
    BY <2>2, <2>3, <2>12 DEF Takes
  <2>15. /\ WaitsOn(r, e.rx) => WaitsOn(r, c)
         /\ GivesUp(r, e.rx) => GivesUp(r, c)
    BY <2>12 DEF WaitsOn, GivesUp
  <2>16. \/ WaitsOn(r, c)
         \/ \E n \in 1..r.req : Takes(r, c, n)
         \/ GivesUp(r, c)
    BY <2>5, <2>14, <2>15
  <2>17. ev'.slow => ev.slow \/ r.timer + 1 > SlowCap
    <3>1. e.rx.timer > SlowCap => r.timer + 1 > SlowCap
      BY <2>2, <2>4, <2>8
    <3> QED  BY <2>7, <2>10, <3>1
  <2>18. ~ev'.slow => GivesUp(r, c) \/ Advances(r, c) \/ \E n \in 1..r.req : Takes(r, c, n)
    BY <2>5, <2>10, <2>12, <2>14, <2>15
  <2> QED  BY <1>1, <1>3, <2>9, <2>13, <2>16, <2>17, <2>18 DEF r, c
<1> QED  BY <1>2, <1>3

\* The event sends a chunk of a write that is active, or leaves the writes alone.
LEMMA EvTxMoves ==
  ASSUME IInv, EvTx, NEW i, i = ev.i
  PROVE  /\ i \in Sockets /\ UNCHANGED <<sock, rx, ret>>
         /\ ev'.slow => ev.slow
         /\ \/ tx' = tx
            \/ /\ tx[i].state = "TX_ACTIVE"
               /\ tx' = [tx EXCEPT ![i] = tx'[i]]
               /\ tx'[i].orig = tx[i].orig /\ tx'[i].buffer = tx[i].buffer
               /\ \/ Resends(tx[i], tx'[i])
                  \/ SendsOn(tx[i], tx'[i])
                  \/ SendsLast(tx[i], tx'[i])
               /\ Accounted(tx[i]) => Accounted(tx'[i])
<1>1. /\ i \in Sockets /\ i < SOCKET_COUNT /\ tx \in [Sockets -> TxRec]
      /\ UNCHANGED <<sock, rx, ret>> /\ ev \in EvRec /\ RecordsGood
  BY EventAtSocket DEF IInv, TableOK, EventOK, EvTx
<1>2. CASE tx[i].state # "TX_ACTIVE"
  <2>1. tx' = tx /\ ev' = EvNext(ev, "rx", "callback")
    BY <1>2 DEF EvTx
  <2>2. ev'.slow = ev.slow
    BY <1>1, <2>1, EvNextMoves
  <2> QED  BY <1>1, <2>1, <2>2
<1>3. CASE tx[i].state = "TX_ACTIVE"
  <2> DEFINE t == tx[i]
  <2>1. PICK o \in TxOutcomes(i, t.req) :
          LET e == TxEvent(t, o)
          IN /\ tx' = [tx EXCEPT ![i] = e.tx]
             /\ ev' = EvNext([ev EXCEPT !.more = EvMore(@, e.more), !.slow = FALSE],
                             "rx", "callback")
    BY <1>3 DEF EvTx
  <2>2. /\ t \in TxRec /\ t.from = t.sent /\ t.req \in Nat
        /\ t.from + t.req <= t.orig /\ t.state = "TX_ACTIVE"
    <3>1. t \in TxRec /\ t.req \in Nat
      BY <1>1 DEF TxRec
    <3> QED  BY <1>1, <1>3, <3>1 DEF RecordsGood, TxGood
  <2>3. TxOutcomeOK(o) /\ o.took + o.lost = (IF o.done THEN t.req ELSE 0) + o.twice
    BY <1>1, <2>2, TxOutcomesInRange
  <2> HIDE DEF t
  <2> DEFINE e    == TxEvent(t, o)
             more == EvMore(ev.more, e.more)
             v    == [ev EXCEPT !.more = more, !.slow = FALSE]
  <2>5. /\ SameWrite(t, e.tx) /\ (Accounted(t) => Accounted(e.tx))
        /\ \/ ~o.done /\ e.more  /\ Resends(t, e.tx)
           \/ o.done  /\ e.more  /\ SendsOn(t, e.tx)
           \/ o.done  /\ ~e.more /\ SendsLast(t, e.tx)
    BY <2>2, <2>3, TxEventCases
  <2>6. tx' = [tx EXCEPT ![i] = e.tx] /\ ev' = EvNext(v, "rx", "callback")
    BY <2>1
  <2>7. more \in BOOLEAN
    BY DEF EvMore
  <2> HIDE DEF e, more
  <2>8. v \in EvRec /\ v.i = i /\ v.slow = FALSE
    <3>1. v \in EvRec
      BY <1>1, <2>7 DEF EvRec
    <3>2. v.i = i /\ v.slow = FALSE
      BY <1>1 DEF EvRec
    <3> QED  BY <3>1, <3>2
  <2> HIDE DEF v
  <2>9. ev'.slow = FALSE
    BY <1>1, <2>6, <2>8, EvNextMoves
  <2>10. tx'[i] = e.tx /\ tx' = [tx EXCEPT ![i] = tx'[i]]
    BY <1>1, <2>6
  <2>11. e.tx.orig = t.orig /\ e.tx.buffer = t.buffer
    BY <2>5 DEF SameWrite
  <2> QED  BY <1>1, <1>3, <2>5, <2>9, <2>10, <2>11 DEF t
<1> QED  BY <1>2, <1>3

\* The callbacks change no more than the states.
LEMMA EvCallbackMoves ==
  ASSUME IInv, EvCallback
  PROVE  /\ UNCHANGED <<sock, ret>> /\ ev'.slow = ev.slow
         /\ \A j \in Sockets :
              /\ SameRequest(rx[j], rx'[j])
              /\ rx'[j].count = rx[j].count /\ rx'[j].got = rx[j].got
              /\ rx'[j].timer = rx[j].timer /\ rx'[j].polls = rx[j].polls
              /\ \/ rx'[j].state = rx[j].state
                 \/ rx[j].state = "READ_DOCB" /\ rx'[j].state = "DATA_AVAILABLE"
              /\ tx'[j].orig = tx[j].orig /\ tx'[j].buffer = tx[j].buffer
              /\ tx'[j].sent = tx[j].sent /\ SameBooks(tx[j], tx'[j])
              /\ \/ tx'[j].state = tx[j].state
                 \/ tx[j].state = "TX_DOCB" /\ tx'[j].state = "TX_COMPLETE"
<1>1. /\ rx \in [Sockets -> RxRec] /\ tx \in [Sockets -> TxRec]
      /\ ev.i \in Sockets /\ ev.i < SOCKET_COUNT /\ ev \in EvRec
      /\ UNCHANGED <<sock, ret>> /\ ev' = EvNext(ev, "callback", "end")
  BY EventAtSocket DEF IInv, TableOK, EventOK, EvCallback
<1>2. ev'.slow = ev.slow
  BY <1>1, EvNextMoves
<1>3. \/ rx' = rx
      \/ /\ rx[ev.i].state = "READ_DOCB"
         /\ rx' = [rx EXCEPT ![ev.i].state = "DATA_AVAILABLE"]
  BY DEF EvCallback, RxCalledBack
<1>4. \/ tx' = tx
      \/ /\ tx[ev.i].state = "TX_DOCB"
         /\ tx' = [tx EXCEPT ![ev.i].state = "TX_COMPLETE"]
  BY DEF EvCallback, TxCalledBack
<1>5. ASSUME NEW j \in Sockets
      PROVE  /\ SameRequest(rx[j], rx'[j])
             /\ rx'[j].count = rx[j].count /\ rx'[j].got = rx[j].got
             /\ rx'[j].timer = rx[j].timer /\ rx'[j].polls = rx[j].polls
             /\ \/ rx'[j].state = rx[j].state
                \/ rx[j].state = "READ_DOCB" /\ rx'[j].state = "DATA_AVAILABLE"
  BY <1>1, <1>3 DEF RxRec, SameRequest
<1>6. ASSUME NEW j \in Sockets
      PROVE  /\ tx'[j].orig = tx[j].orig /\ tx'[j].buffer = tx[j].buffer
             /\ tx'[j].sent = tx[j].sent /\ SameBooks(tx[j], tx'[j])
             /\ \/ tx'[j].state = tx[j].state
                \/ tx[j].state = "TX_DOCB" /\ tx'[j].state = "TX_COMPLETE"
  BY <1>1, <1>4 DEF TxRec, SameBooks
<1> QED  BY <1>1, <1>2, <1>5, <1>6

\* A machine that is put to rest keeps what it holds.
LEMMA RxRestMoves ==
  ASSUME TableOK, NEW i \in Sockets,
         rx' = [rx EXCEPT ![i].state = "READ_START"]
  PROVE  \A j \in Sockets :
           /\ SameRequest(rx[j], rx'[j])
           /\ rx'[j].count = rx[j].count /\ rx'[j].got = rx[j].got
           /\ rx'[j].timer = rx[j].timer /\ rx'[j].polls = rx[j].polls
           /\ rx'[j].state = IF j = i THEN "READ_START" ELSE rx[j].state
<1>1. rx \in [Sockets -> RxRec]
  BY DEF TableOK
<1> QED  BY <1>1 DEF RxRec, SameRequest

LEMMA TxRestMoves ==
  ASSUME TableOK, NEW i \in Sockets,
         tx' = [tx EXCEPT ![i].state = "TX_IDLE"]
  PROVE  \A j \in Sockets :
           /\ tx'[j].orig = tx[j].orig /\ tx'[j].buffer = tx[j].buffer
           /\ tx'[j].sent = tx[j].sent /\ SameBooks(tx[j], tx'[j])
           /\ tx'[j].state = IF j = i THEN "TX_IDLE" ELSE tx[j].state
<1>1. tx \in [Sockets -> TxRec]
  BY DEF TableOK
<1> QED  BY <1>1 DEF TxRec, SameBooks

-----------------------------------------------------------------------------
(* The invariants of the plain use.                                        *)

LEMMA InitPlain == Init => PlainInv /\ ClockInv /\ TookInv
<1> SUFFICES ASSUME Init  PROVE PlainInv /\ ClockInv /\ TookInv
  OBVIOUS
<1> USE DEF Init, IdleRx, IdleTx, FreeSock, NoReturn, EvIdle
<1>1. PlainInv
  BY DEF PlainInv, TransfersExact, ReadExact, WriteExact, ClosedAtRest, AnswersExact
<1>2. ClockInv
  BY DEF ClockInv
<1>3. TookInv
  BY DEF TookInv, Accounted
<1> QED  BY <1>1, <1>2, <1>3

\* The calls that post no transfer, and the return of a call.
LEMMA OtherPlain ==
  ASSUME Listeners = {}, SameRetry, IInv, PlainInv, NEW i \in Sockets,
         \/ SocketOpen(i) \/ SocketClose(i) \/ SocketConnect(i) \/ SocketListen(i)
         \/ \E callback \in BOOLEAN : SocketAttach(i, callback)
         \/ \E b \in Buffers, n \in RecvSizes : RecvCollect(i, b, n)
         \/ \E b \in Buffers, n \in SendSizes : SendCollect(i, b, n)
         \/ Return(i) \/ Arrive(i) \/ Hangup(i)
  PROVE  PlainInv'
<1>1. /\ TransfersExact /\ ClosedAtRest /\ AnswersExact /\ TableOK
      /\ sock \in [Sockets -> SockRec] /\ ret \in [Sockets -> RetRec]
      /\ i \in Int /\ i # -1
  BY SizeAssumption DEF PlainInv, IInv, CallsOK, Sockets
<1>2. SocketListen(i) => FALSE
  BY DEF SocketListen
\* Only the flags that no record has a copy of are changed, or nothing.
<1>3. ASSUME UNCHANGED <<rx, tx, ret>>,
             \A j \in Sockets : sock'[j].id = sock[j].id /\ sock'[j].disTO = sock[j].disTO
      PROVE  PlainInv'
  BY <1>1, <1>3 DEF PlainInv, TransfersExact, ReadExact, WriteExact, ClosedAtRest, IsOpen,
                    AnswersExact, RecvExact, SendExact
<1>4. CASE SocketConnect(i)
  <2>1. PICK attempt \in 1..4 : sock' = [sock EXCEPT ![i].connected = @ \/ attempt < 3]
    BY <1>4 DEF SocketConnect
  <2> DEFINE connected == sock[i].connected \/ attempt < 3
  <2>2. sock' = [sock EXCEPT ![i].connected = connected]
    BY <2>1
  <2> HIDE DEF connected
  <2>3. \A j \in Sockets : sock'[j].id = sock[j].id /\ sock'[j].disTO = sock[j].disTO
    BY <1>1, <2>2 DEF SockRec
  <2> QED  BY <1>3, <1>4, <2>3 DEF SocketConnect
<1>5. ASSUME NEW callback \in BOOLEAN, SocketAttach(i, callback)
      PROVE  PlainInv'
  <2>1. \A j \in Sockets : sock'[j].id = sock[j].id /\ sock'[j].disTO = sock[j].disTO
    BY <1>1, <1>5 DEF SocketAttach, SockRec
  <2> QED  BY <1>3, <1>5, <2>1 DEF SocketAttach
<1>6. CASE Arrive(i) \/ Hangup(i)
  BY <1>3, <1>6 DEF Arrive, Hangup
<1>7. CASE Return(i)
  <2>1. ret' = [ret EXCEPT ![i] = NoReturn] /\ UNCHANGED <<sock, rx, tx>>
    BY <1>7 DEF Return
  <2>2. ret'[i] = NoReturn /\ \A j \in Sockets \ {i} : ret'[j] = ret[j]
    BY <1>1, <2>1
  <2>3. TransfersExact' /\ ClosedAtRest'
    BY <1>1, <2>1 DEF TransfersExact, ReadExact, WriteExact, ClosedAtRest, IsOpen
  <2>4. AnswersExact'
    BY <1>1, <2>1, <2>2 DEF AnswersExact, RecvExact, SendExact, NoReturn
  <2> QED  BY <2>3, <2>4 DEF PlainInv
\* A socket is put to rest, and ret is left alone.
<1>8. CASE SocketOpen(i) \/ SocketClose(i)
  <2>1. /\ rx' = [rx EXCEPT ![i].state = "READ_START"]
        /\ tx' = [tx EXCEPT ![i].state = "TX_IDLE"] /\ ret' = ret
    BY <1>8 DEF SocketOpen, SocketClose
  <2>2. \A j \in Sockets :
           /\ SameRequest(rx[j], rx'[j])
           /\ rx'[j].count = rx[j].count /\ rx'[j].got = rx[j].got
           /\ rx'[j].state = IF j = i THEN "READ_START" ELSE rx[j].state
    BY <1>1, <2>1, RxRestMoves
  <2>3. \A j \in Sockets :
           /\ tx'[j].orig = tx[j].orig /\ tx'[j].buffer = tx[j].buffer
           /\ tx'[j].sent = tx[j].sent
           /\ tx'[j].state = IF j = i THEN "TX_IDLE" ELSE tx[j].state
    BY <1>1, <2>1, TxRestMoves
  <2>4. /\ sock'[i].disTO = FALSE
        /\ \A j \in Sockets \ {i} : sock'[j] = sock[j]
    BY <1>1, <1>8 DEF SocketOpen, SocketClose, FreeSock
  <2>5. TransfersExact'
    BY <1>1, <2>2, <2>3, <2>4 DEF TransfersExact, ReadExact, WriteExact, SameRequest
  <2>6. ClosedAtRest'
    BY <1>1, <2>2, <2>3, <2>4 DEF ClosedAtRest, IsOpen
  <2>7. AnswersExact'
    BY <1>1, <2>1, <2>2, <2>3 DEF AnswersExact, RecvExact, SendExact, SameRequest
  <2> QED  BY <2>5, <2>6, <2>7 DEF PlainInv
<1>9. ASSUME NEW b \in Buffers, NEW n \in RecvSizes, RecvCollect(i, b, n)
      PROVE  PlainInv'
  <2> DEFINE a == [op |-> "recv", buffer |-> b, size |-> n]
  <2>1. /\ rx[i].state = "DATA_AVAILABLE" /\ b = rx[i].buffer /\ n = rx[i].size
        /\ rx' = [rx EXCEPT ![i].state = "READ_START"] /\ ret' = [ret EXCEPT ![i] = a]
        /\ UNCHANGED <<sock, tx>> /\ ret[i] = NoReturn
    BY <1>9 DEF RecvCollect, Repeats, MayCall
  <2>2. \A j \in Sockets :
           /\ SameRequest(rx[j], rx'[j])
           /\ rx'[j].count = rx[j].count /\ rx'[j].got = rx[j].got
           /\ rx'[j].state = IF j = i THEN "READ_START" ELSE rx[j].state
    BY <1>1, <2>1, RxRestMoves
  <2>3. TransfersExact'
    BY <1>1, <2>1, <2>2 DEF TransfersExact, ReadExact, WriteExact, SameRequest
  <2>4. ClosedAtRest'
    BY <1>1, <2>1, <2>2 DEF ClosedAtRest, IsOpen
  <2>5. RecvExact(a, rx'[i])
    <3>1. rx[i].count = rx[i].got /\ rx[i].got <= rx[i].size
      BY <1>1, <2>1 DEF TransfersExact, ReadExact
    <3> QED  BY <2>1, <2>2, <3>1 DEF RecvExact, SameRequest
  <2>6. ret'[i] = a /\ \A j \in Sockets \ {i} : ret'[j] = ret[j]
    BY <1>1, <2>1
  <2>7. AnswersExact'
    BY <1>1, <2>1, <2>2, <2>5, <2>6
       DEF AnswersExact, RecvExact, SendExact, SameRequest
  <2> QED  BY <2>3, <2>4, <2>7 DEF PlainInv
<1>10. ASSUME NEW b \in Buffers, NEW n \in SendSizes, SendCollect(i, b, n)
       PROVE  PlainInv'
  <2> DEFINE a == [op |-> "send", buffer |-> b, size |-> n]
  <2>1. /\ tx[i].state = "TX_COMPLETE" /\ b = tx[i].buffer /\ n = tx[i].orig
        /\ tx' = [tx EXCEPT ![i].state = "TX_IDLE"] /\ ret' = [ret EXCEPT ![i] = a]
        /\ UNCHANGED <<sock, rx>> /\ ret[i] = NoReturn
    BY <1>10 DEF SendCollect, Repeats, MayCall
  <2>2. \A j \in Sockets :
           /\ tx'[j].orig = tx[j].orig /\ tx'[j].buffer = tx[j].buffer
           /\ tx'[j].sent = tx[j].sent
           /\ tx'[j].state = IF j = i THEN "TX_IDLE" ELSE tx[j].state
    BY <1>1, <2>1, TxRestMoves
  <2>3. TransfersExact'
    BY <1>1, <2>1, <2>2 DEF TransfersExact, ReadExact, WriteExact
  <2>4. ClosedAtRest'
    BY <1>1, <2>1, <2>2 DEF ClosedAtRest, IsOpen
  <2>5. SendExact(a, tx'[i])
    BY <1>1, <2>1, <2>2 DEF TransfersExact, WriteExact, SendExact
  <2>6. ret'[i] = a /\ \A j \in Sockets \ {i} : ret'[j] = ret[j]
    BY <1>1, <2>1
  <2>7. AnswersExact'
    BY <1>1, <2>1, <2>2, <2>5, <2>6 DEF AnswersExact, RecvExact, SendExact
  <2> QED  BY <2>3, <2>4, <2>7 DEF PlainInv
<1> QED  BY <1>2, <1>4, <1>5, <1>6, <1>7, <1>8, <1>9, <1>10

\* The calls that post a transfer.
LEMMA RecvStartPlain ==
  ASSUME IInv, PlainInv, NEW i \in Sockets, NEW b \in Buffers, NEW n \in RecvSizes,
         RecvStart(i, b, n)
  PROVE  PlainInv'
<1>1. /\ TransfersExact /\ ClosedAtRest /\ AnswersExact /\ rx \in [Sockets -> RxRec]
      /\ ret \in [Sockets -> RetRec] /\ n \in Nat /\ n > 0
  BY SizeAssumption DEF PlainInv, IInv, CallsOK, TableOK
<1> DEFINE r == rx'[i]
           a == [op |-> "recv", buffer |-> b, size |-> n]
<1>2. /\ ret[i] = NoReturn /\ IsOpen(i) /\ UNCHANGED <<sock, tx>>
      /\ rx' = [rx EXCEPT ![i] = r]
      /\ r.size = n /\ r.buffer = b /\ r.req <= n /\ r.disTO = sock[i].disTO
      /\ r.count = r.got
      /\ \/ ret' = ret /\ r.state = "READ_ACTIVE" /\ r.got = 0
         \/ /\ ret' = [ret EXCEPT ![i] = a]
            /\ r.state = "READ_START" /\ r.got > 0 /\ r.got <= n
  BY RecvStartMoves
<1> HIDE DEF r
<1>3. \A j \in Sockets \ {i} : rx'[j] = rx[j]
  BY <1>1, <1>2
<1>4. rx'[i] = r
  BY DEF r
<1>5. ReadExact(r)
  BY <1>1, <1>2 DEF TransfersExact, ReadExact
<1>6. TransfersExact'
  BY <1>1, <1>2, <1>3, <1>4, <1>5 DEF TransfersExact, ReadExact, WriteExact
<1>7. ClosedAtRest'
  BY <1>1, <1>2, <1>3 DEF ClosedAtRest, IsOpen
<1>8. AnswersExact'
  <2>1. CASE ret' = ret
    BY <1>1, <1>2, <1>3, <2>1 DEF AnswersExact, RecvExact, SendExact, NoReturn
  <2>2. CASE /\ ret' = [ret EXCEPT ![i] = a]
             /\ r.state = "READ_START" /\ r.got > 0 /\ r.got <= n
    <3>1. RecvExact(a, r)
      BY <1>2, <2>2 DEF RecvExact
    <3>2. ret'[i] = a /\ \A j \in Sockets \ {i} : ret'[j] = ret[j]
      BY <1>1, <2>2
    <3> QED  BY <1>1, <1>2, <1>3, <1>4, <3>1, <3>2 DEF AnswersExact, RecvExact, SendExact
  <2> QED  BY <1>2, <2>1, <2>2
<1> QED  BY <1>6, <1>7, <1>8 DEF PlainInv

LEMMA SendStartPlain ==
  ASSUME IInv, PlainInv, NEW i \in Sockets, NEW b \in Buffers, NEW n \in SendSizes,
         SendStart(i, b, n)
  PROVE  PlainInv'
<1>1. /\ TransfersExact /\ ClosedAtRest /\ AnswersExact /\ tx \in [Sockets -> TxRec]
      /\ ret \in [Sockets -> RetRec]
  BY DEF PlainInv, IInv, CallsOK, TableOK
<1> DEFINE t == tx'[i]
           a == [op |-> "send", buffer |-> b, size |-> n]
<1>2. /\ ret[i] = NoReturn /\ IsOpen(i) /\ UNCHANGED <<sock, rx>>
      /\ tx' = [tx EXCEPT ![i] = t] /\ t.buffer = b
      /\ \/ ret' = ret /\ t.state = "TX_ACTIVE"
         \/ /\ ret' = [ret EXCEPT ![i] = a]
            /\ t.state = "TX_IDLE" /\ t.sent = n
  BY SendStartMoves
<1> HIDE DEF t
<1>3. \A j \in Sockets \ {i} : tx'[j] = tx[j]
  BY <1>1, <1>2
<1>4. tx'[i] = t
  BY DEF t
<1>5. WriteExact(t)
  BY <1>2 DEF WriteExact
<1>6. TransfersExact'
  BY <1>1, <1>2, <1>3, <1>4, <1>5 DEF TransfersExact, ReadExact, WriteExact
<1>7. ClosedAtRest'
  BY <1>1, <1>2, <1>3 DEF ClosedAtRest, IsOpen
<1>8. AnswersExact'
  <2>1. CASE ret' = ret
    BY <1>1, <1>2, <1>3, <2>1 DEF AnswersExact, RecvExact, SendExact, NoReturn
  <2>2. CASE ret' = [ret EXCEPT ![i] = a] /\ t.state = "TX_IDLE" /\ t.sent = n
    <3>1. SendExact(a, t)
      BY <1>2, <2>2 DEF SendExact
    <3>2. ret'[i] = a /\ \A j \in Sockets \ {i} : ret'[j] = ret[j]
      BY <1>1, <2>2
    <3> QED  BY <1>1, <1>2, <1>3, <1>4, <3>1, <3>2 DEF AnswersExact, RecvExact, SendExact
  <2> QED  BY <1>2, <2>1, <2>2
<1> QED  BY <1>6, <1>7, <1>8 DEF PlainInv

\* The event.
LEMMA EventPlain ==
  ASSUME IInv, PlainInv, EvStep
  PROVE  PlainInv'
<1> DEFINE i == ev.i
<1>1. /\ TransfersExact /\ ClosedAtRest /\ AnswersExact
      /\ rx \in [Sockets -> RxRec] /\ tx \in [Sockets -> TxRec] /\ i \in Sockets
  BY EventAtSocket DEF PlainInv, IInv, TableOK
<1>2. ASSUME UNCHANGED <<sock, rx, tx, ret>>  PROVE PlainInv'
  BY <1>1, <1>2 DEF PlainInv, TransfersExact, ReadExact, WriteExact, ClosedAtRest, IsOpen,
                    AnswersExact, RecvExact, SendExact
<1>3. CASE EvBegin \/ EvEnd
  BY <1>2, <1>3 DEF EvBegin, EvEnd
<1>4. CASE EvRx
  <2> DEFINE r == rx[i]
             c == rx'[i]
  <2>1. /\ UNCHANGED <<sock, tx, ret>> /\ ~r.disTO
        /\ \/ rx' = rx
           \/ /\ r.state = "READ_ACTIVE"
              /\ rx' = [rx EXCEPT ![i] = c]
              /\ SameRequest(r, c)
              /\ \/ WaitsOn(r, c)
                 \/ \E n \in 1..r.req : Takes(r, c, n)
                 \/ GivesUp(r, c)
    <3>1. ~r.disTO
      BY <1>1 DEF TransfersExact, ReadExact
    <3> QED  BY <1>4, <3>1, EvRxMoves
  <2>2. CASE rx' = rx
    BY <1>2, <2>1, <2>2
  <2>3. CASE /\ r.state = "READ_ACTIVE"
             /\ rx' = [rx EXCEPT ![i] = c]
             /\ SameRequest(r, c)
             /\ \/ WaitsOn(r, c)
                \/ \E n \in 1..r.req : Takes(r, c, n)
                \/ GivesUp(r, c)
    <3> HIDE DEF c
    <3>1. rx'[i] = c /\ \A j \in Sockets \ {i} : rx'[j] = rx[j]
      BY <1>1, <2>3
    <3>2. /\ r.count = 0 /\ r.got = 0 /\ r.req <= r.size /\ ~r.disTO
          /\ r.req \in Nat /\ r.size \in Nat
      BY <1>1, <2>3 DEF TransfersExact, ReadExact, RxRec
    <3>3. ReadExact(c)
      <4>1. CASE WaitsOn(r, c)
        BY <2>3, <3>2, <4>1 DEF ReadExact, SameRequest, WaitsOn
      <4>2. ASSUME NEW n \in 1..r.req, Takes(r, c, n)  PROVE ReadExact(c)
        <5>1. c.state # "READ_ACTIVE" /\ c.count = n /\ c.got = n /\ n <= r.size
          BY <3>2, <4>2 DEF Takes, RxDone
        <5> QED  BY <2>3, <3>2, <5>1 DEF ReadExact, SameRequest
      <4>3. CASE GivesUp(r, c)
        <5>1. c.state # "READ_ACTIVE" /\ c.count = 0 /\ c.got = 0
          BY <3>2, <4>3 DEF GivesUp, RxDone
        <5> QED  BY <2>3, <3>2, <5>1 DEF ReadExact, SameRequest
      <4> QED  BY <2>3, <4>1, <4>2, <4>3
    <3>4. TransfersExact'
      BY <1>1, <2>1, <3>1, <3>3 DEF TransfersExact, ReadExact, WriteExact
    <3>5. ClosedAtRest'
      BY <1>1, <2>1, <2>3, <3>1 DEF ClosedAtRest, IsOpen
    <3>6. AnswersExact'
      BY <1>1, <2>1, <2>3, <3>1 DEF AnswersExact, RecvExact, SendExact
    <3> QED  BY <3>4, <3>5, <3>6 DEF PlainInv
  <2> QED  BY <2>1, <2>2, <2>3
<1>5. CASE EvTx
  <2> DEFINE t == tx[i]
             u == tx'[i]
  <2>1. /\ UNCHANGED <<sock, rx, ret>>
        /\ \/ tx' = tx
           \/ /\ t.state = "TX_ACTIVE"
              /\ tx' = [tx EXCEPT ![i] = u]
              /\ u.orig = t.orig
              /\ Resends(t, u) \/ SendsOn(t, u) \/ SendsLast(t, u)
    BY <1>5, EvTxMoves
  <2>2. CASE tx' = tx
    BY <1>2, <2>1, <2>2
  <2>3. CASE /\ t.state = "TX_ACTIVE"
             /\ tx' = [tx EXCEPT ![i] = u]
             /\ u.orig = t.orig
             /\ Resends(t, u) \/ SendsOn(t, u) \/ SendsLast(t, u)
    <3> HIDE DEF u
    <3>1. tx'[i] = u /\ \A j \in Sockets \ {i} : tx'[j] = tx[j]
      BY <1>1, <2>3
    <3>2. WriteExact(u)
      BY <2>3 DEF WriteExact, Resends, SendsOn, SendsLast
    <3>3. TransfersExact'
      BY <1>1, <2>1, <3>1, <3>2 DEF TransfersExact, ReadExact, WriteExact
    <3>4. ClosedAtRest'
      BY <1>1, <2>1, <2>3, <3>1 DEF ClosedAtRest, IsOpen
    <3>5. AnswersExact'
      BY <1>1, <2>1, <2>3, <3>1 DEF AnswersExact, RecvExact, SendExact
    <3> QED  BY <3>3, <3>4, <3>5 DEF PlainInv
  <2> QED  BY <2>1, <2>2, <2>3
<1>6. CASE EvCallback
  <2>1. /\ UNCHANGED <<sock, ret>>
        /\ \A j \in Sockets :
             /\ SameRequest(rx[j], rx'[j])
             /\ rx'[j].count = rx[j].count /\ rx'[j].got = rx[j].got
             /\ \/ rx'[j].state = rx[j].state
                \/ rx[j].state = "READ_DOCB" /\ rx'[j].state = "DATA_AVAILABLE"
             /\ tx'[j].orig = tx[j].orig /\ tx'[j].buffer = tx[j].buffer
             /\ tx'[j].sent = tx[j].sent
             /\ \/ tx'[j].state = tx[j].state
                \/ tx[j].state = "TX_DOCB" /\ tx'[j].state = "TX_COMPLETE"
    BY <1>6, EvCallbackMoves
  <2>2. TransfersExact'
    BY <1>1, <2>1 DEF TransfersExact, ReadExact, WriteExact, SameRequest
  <2>3. ClosedAtRest'
    BY <1>1, <2>1 DEF ClosedAtRest, IsOpen
  <2>4. AnswersExact'
    BY <1>1, <2>1 DEF AnswersExact, RecvExact, SendExact, SameRequest
  <2> QED  BY <2>2, <2>3, <2>4 DEF PlainInv
<1> QED  BY <1>3, <1>4, <1>5, <1>6 DEF EvStep

LEMMA NextPlain ==
  ASSUME Listeners = {}, SameRetry, IInv, PlainInv, [Next]_vars
  PROVE  PlainInv'
<1>1. CASE UNCHANGED vars
  BY <1>1 DEF vars, PlainInv, TransfersExact, ReadExact, WriteExact, ClosedAtRest, IsOpen,
              AnswersExact, RecvExact, SendExact
<1>2. CASE EvStep
  BY <1>2, EventPlain
<1>3. ASSUME NEW i \in Sockets, AppNext(i) \/ Return(i) \/ Arrive(i) \/ Hangup(i)
      PROVE  PlainInv'
  <2>1. ASSUME NEW b \in Buffers, NEW n \in RecvSizes, RecvStart(i, b, n)
        PROVE  PlainInv'
    BY <2>1, RecvStartPlain
  <2>2. ASSUME NEW b \in Buffers, NEW n \in SendSizes, SendStart(i, b, n)
        PROVE  PlainInv'
    BY <2>2, SendStartPlain
  <2> QED  BY <1>3, <2>1, <2>2, OtherPlain DEF AppNext
<1> QED  BY <1>1, <1>2, <1>3 DEF Next

\* In this use no call meets a transfer of other arguments, and what the inductive
\* invariant says of the records is joined by what they hold of the caller's.
THEOREM AlwaysPlain ==
  ASSUME Listeners = {}, SameRetry
  PROVE  Spec => [](IInv /\ PlainInv)
<1>1. Init => PlainInv
  BY InitPlain
<1>2. IInv /\ PlainInv /\ [Next]_vars => PlainInv'
  BY NextPlain
<1> QED  BY <1>1, <1>2, AlwaysIInv, PTL DEF Spec

\* What socket_recv returns after its unlock is what its own request received,
\* with any number of sockets: no event, callback or other call touches the
\* record between the unlock and the return.
THEOREM ReadsReturnTheirData ==
  ASSUME Listeners = {}, SameRetry
  PROVE  Spec => []RecvReturnsItsData
<1>1. PlainInv => RecvReturnsItsData
  BY DEF PlainInv, AnswersExact, RecvExact, RecvReturnsItsData
<1> QED  BY <1>1, AlwaysPlain, PTL

-----------------------------------------------------------------------------
(* The bytes that the modem has.                                           *)

LEMMA NextTook ==
  ASSUME IInv, TookInv, [Next]_vars
  PROVE  TookInv'
<1>1. TableOK /\ tx \in [Sockets -> TxRec] /\ ret \in [Sockets -> RetRec]
  BY DEF IInv, TableOK, CallsOK
<1>2. ASSUME UNCHANGED <<tx, ret>>  PROVE TookInv'
  BY <1>2 DEF TookInv
<1>3. ASSUME NEW i \in Sockets, tx' = tx, ret' = [ret EXCEPT ![i] = ret'[i]],
             ret'[i].op # "send"
      PROVE  TookInv'
  BY <1>1, <1>3 DEF TookInv
\* A socket is put to rest.
<1>4. ASSUME NEW i \in Sockets, tx' = [tx EXCEPT ![i].state = "TX_IDLE"],
             \/ ret' = ret
             \/ tx[i].state # "TX_IDLE" /\ ret' = [ret EXCEPT ![i] = ret'[i]]
      PROVE  TookInv'
  <2>1. \A j \in Sockets :
           /\ Accounted(tx'[j]) <=> Accounted(tx[j])
           /\ tx'[j].state = IF j = i THEN "TX_IDLE" ELSE tx[j].state
    BY <1>1, <1>4, TxRestMoves, SameBooksAccounted
  <2>2. \A j \in Sockets \ {i} : ret'[j] = ret[j]
    BY <1>1, <1>4
  <2> QED  BY <1>4, <2>1, <2>2 DEF TookInv
<1>5. CASE EvStep
  <2>1. CASE EvBegin \/ EvEnd \/ EvRx
    BY <1>2, <2>1 DEF EvBegin, EvEnd, EvRx
  <2>2. CASE EvTx
    <3> DEFINE i == ev.i
               u == tx'[i]
    <3>1. /\ i \in Sockets /\ ret' = ret
          /\ \/ tx' = tx
             \/ /\ tx[i].state = "TX_ACTIVE"
                /\ tx' = [tx EXCEPT ![i] = u]
                /\ Accounted(tx[i]) => Accounted(u)
      BY <2>2, EvTxMoves
    <3>2. CASE tx' = tx
      BY <1>2, <3>1, <3>2
    <3>3. CASE /\ tx[i].state = "TX_ACTIVE"
               /\ tx' = [tx EXCEPT ![i] = u]
               /\ Accounted(tx[i]) => Accounted(u)
      <4> HIDE DEF u
      <4>1. tx'[i] = u /\ \A j \in Sockets \ {i} : tx'[j] = tx[j]
        BY <1>1, <3>1, <3>3
      <4> QED  BY <3>1, <3>3, <4>1 DEF TookInv
    <3> QED  BY <3>1, <3>2, <3>3
  <2>3. CASE EvCallback
    <3>1. /\ ret' = ret
          /\ \A j \in Sockets :
               /\ Accounted(tx'[j]) <=> Accounted(tx[j])
               /\ \/ tx'[j].state = tx[j].state
                  \/ tx[j].state = "TX_DOCB" /\ tx'[j].state = "TX_COMPLETE"
      BY <2>3, EvCallbackMoves, SameBooksAccounted
    <3> QED  BY <3>1 DEF TookInv
  <2> QED  BY <1>5, <2>1, <2>2, <2>3 DEF EvStep
<1>6. ASSUME NEW i \in Sockets, AppNext(i) \/ Return(i) \/ Arrive(i) \/ Hangup(i)
      PROVE  TookInv'
  <2>1. CASE SocketOpen(i) \/ SocketClose(i)
    BY <1>4, <2>1 DEF SocketOpen, SocketClose
  <2>2. CASE SocketConnect(i) \/ SocketListen(i) \/ Arrive(i) \/ Hangup(i)
    BY <1>2, <2>2 DEF SocketConnect, SocketListen, Arrive, Hangup
  <2>3. ASSUME NEW callback \in BOOLEAN, SocketAttach(i, callback)  PROVE TookInv'
    BY <1>2, <2>3 DEF SocketAttach
  <2>4. CASE Return(i)
    <3>1. tx' = tx /\ ret' = [ret EXCEPT ![i] = NoReturn]
      BY <2>4 DEF Return
    <3>2. ret' = [ret EXCEPT ![i] = ret'[i]] /\ ret'[i].op = "none"
      BY <1>1, <3>1 DEF NoReturn
    <3> QED  BY <1>3, <3>1, <3>2
  <2>5. ASSUME NEW b \in Buffers, NEW n \in RecvSizes, RecvCollect(i, b, n)
        PROVE  TookInv'
    <3> DEFINE a == [op |-> "recv", buffer |-> b, size |-> n]
    <3>1. tx' = tx /\ ret' = [ret EXCEPT ![i] = a]
      BY <2>5 DEF RecvCollect
    <3>2. ret' = [ret EXCEPT ![i] = ret'[i]] /\ ret'[i].op = "recv"
      BY <1>1, <3>1
    <3> QED  BY <1>3, <3>1, <3>2
  <2>6. ASSUME NEW b \in Buffers, NEW n \in RecvSizes, RecvStart(i, b, n)
        PROVE  TookInv'
    <3> DEFINE a == [op |-> "recv", buffer |-> b, size |-> n]
    <3>1. tx' = tx /\ (ret' = ret \/ ret' = [ret EXCEPT ![i] = a])
      BY <2>6, RecvStartMoves
    <3>2. ret' = [ret EXCEPT ![i] = a] => ret'[i] = a
      BY <1>1
    <3> QED  BY <1>2, <1>3, <3>1, <3>2
  <2>7. ASSUME NEW b \in Buffers, NEW n \in SendSizes, SendCollect(i, b, n)
        PROVE  TookInv'
    <3> DEFINE a == [op |-> "send", buffer |-> b, size |-> n]
    <3>1. /\ tx[i].state = "TX_COMPLETE" /\ tx' = [tx EXCEPT ![i].state = "TX_IDLE"]
          /\ ret' = [ret EXCEPT ![i] = a]
      BY <2>7 DEF SendCollect
    <3>2. ret'[i] = a
      BY <1>1, <3>1
    <3> QED  BY <1>4, <3>1, <3>2
  <2>8. ASSUME NEW b \in Buffers, NEW n \in SendSizes, SendStart(i, b, n)
        PROVE  TookInv'
    <3> DEFINE t == tx'[i]
               a == [op |-> "send", buffer |-> b, size |-> n]
    <3>1. /\ tx' = [tx EXCEPT ![i] = t] /\ Accounted(t)
          /\ ret' = ret \/ ret' = [ret EXCEPT ![i] = a]
      BY <2>8, SendStartMoves
    <3> HIDE DEF t
    <3>2. tx'[i] = t /\ \A j \in Sockets \ {i} : tx'[j] = tx[j] /\ ret'[j] = ret[j]
      BY <1>1, <3>1
    <3> QED  BY <3>1, <3>2 DEF TookInv
  <2> QED  BY <1>6, <2>1, <2>2, <2>3, <2>4, <2>5, <2>6, <2>7, <2>8 DEF AppNext
<1>7. CASE UNCHANGED vars
  BY <1>2, <1>7 DEF vars
<1> QED  BY <1>5, <1>6, <1>7 DEF Next

\* Whatever BG96::send comes to, however often a chunk is sent again and however
\* many events it takes: what socket_send returns is the size it was called with,
\* and the bytes of that call's buffer that the modem has are those, less the
\* chunks that could not be written and plus the ones that were not acknowledged.
THEOREM WritesReturnTheirData ==
  ASSUME Listeners = {}, SameRetry
  PROVE  Spec => []SendReturnsItsData
<1>1. Init => TookInv
  BY InitPlain
<1>2. IInv /\ TookInv /\ [Next]_vars => TookInv'
  BY NextTook
<1>3. PlainInv /\ TookInv => SendReturnsItsData
  BY DEF PlainInv, AnswersExact, SendExact, TookInv, Accounted, SendReturnsItsData
<1> QED  BY <1>1, <1>2, <1>3, AlwaysIInv, AlwaysPlain, PTL DEF Spec

-----------------------------------------------------------------------------
(* The time-out.                                                           *)

LEMMA NextClock ==
  ASSUME SLOW_FACTOR > 1, IInv, PlainInv, ClockInv, [Next]_vars
  PROVE  ClockInv'
<1>1. /\ TableOK /\ rx \in [Sockets -> RxRec] /\ TransfersExact
      /\ READ_TO \in Nat \ {0} /\ READ_TO < SlowCap
  <2>1. READ_TO \in Nat \ {0} /\ SLOW_FACTOR \in Nat /\ SLOW_FACTOR >= 2
    BY SizeAssumption
  <2>2. \A m \in Nat : m * SLOW_FACTOR \in Nat /\ m * SLOW_FACTOR >= m * 2
    BY <2>1
  <2>3. READ_TO < SlowCap
    BY <2>1, <2>2 DEF SlowCap
  <2> QED  BY <2>1, <2>3 DEF IInv, TableOK, PlainInv
<1>2. ASSUME rx' = rx, ev'.slow => ev.slow  PROVE ClockInv'
  BY <1>2 DEF ClockInv
<1>3. ASSUME NEW i \in Sockets, rx' = [rx EXCEPT ![i].state = "READ_START"], ev' = ev
      PROVE  ClockInv'
  <2>1. \A j \in Sockets :
           /\ rx'[j].got = rx[j].got
           /\ rx'[j].timer = rx[j].timer /\ rx'[j].polls = rx[j].polls
           /\ rx'[j].state = IF j = i THEN "READ_START" ELSE rx[j].state
    BY <1>1, <1>3, RxRestMoves
  <2> QED  BY <1>3, <2>1 DEF ClockInv
<1>4. CASE EvRx
  <2> DEFINE i == ev.i
             r == rx[i]
             c == rx'[i]
  <2>1. i \in Sockets /\ r \in RxRec /\ ~r.disTO
    BY <1>1, EventAtSocket DEF IInv, TransfersExact, ReadExact
  <2>2. \/ rx' = rx /\ ev'.slow = ev.slow
        \/ /\ r.state = "READ_ACTIVE" /\ rx' = [rx EXCEPT ![i] = c]
           /\ \/ WaitsOn(r, c)
              \/ \E n \in 1..r.req : Takes(r, c, n)
              \/ GivesUp(r, c)
           /\ ev'.slow => ev.slow \/ r.timer + 1 > SlowCap
           /\ ~ev'.slow => GivesUp(r, c) \/ Advances(r, c)
                             \/ \E n \in 1..r.req : Takes(r, c, n)
    BY <1>4, <2>1, EvRxMoves
  <2>3. CASE rx' = rx /\ ev'.slow = ev.slow
    BY <1>2, <2>3
  <2>4. CASE /\ r.state = "READ_ACTIVE" /\ rx' = [rx EXCEPT ![i] = c]
             /\ \/ WaitsOn(r, c)
                \/ \E n \in 1..r.req : Takes(r, c, n)
                \/ GivesUp(r, c)
             /\ ev'.slow => ev.slow \/ r.timer + 1 > SlowCap
             /\ ~ev'.slow => GivesUp(r, c) \/ Advances(r, c)
                               \/ \E n \in 1..r.req : Takes(r, c, n)
    <3>1. /\ ~ev.slow /\ r.timer <= READ_TO /\ r.polls >= r.timer
          /\ r.timer \in Nat /\ r.polls \in Nat /\ r.got \in Nat /\ r.req \in Nat
      <4>1. r.timer \in Nat /\ r.polls \in Nat /\ r.got \in Nat /\ r.req \in Nat
        BY <2>1 DEF RxRec
      <4> QED  BY <2>1, <2>4, <4>1 DEF ClockInv
    <3> HIDE DEF r, c
    <3>2. ~ev'.slow
      BY <1>1, <2>4, <3>1, SizeAssumption DEF SlowCap
    <3>3. /\ c.state = "READ_ACTIVE" => c.timer <= READ_TO /\ c.polls >= c.timer
          /\ c.state \in {"READ_DOCB", "DATA_AVAILABLE"} /\ c.got = 0 => c.polls > READ_TO
      <4>1. ASSUME NEW n \in 1..r.req, Takes(r, c, n)
            PROVE  c.state # "READ_ACTIVE" /\ c.got > 0
        BY <3>1, <4>1 DEF Takes, RxDone
      <4>2. ASSUME GivesUp(r, c)
            PROVE  c.state # "READ_ACTIVE" /\ c.polls > READ_TO
        <5>1. c.polls = Least(r.polls + 1, READ_TO + 1) /\ r.timer + 1 > READ_TO
          BY <4>2 DEF GivesUp, Late
        <5>2. c.polls > READ_TO
          BY <1>1, <3>1, <5>1 DEF Least
        <5> QED  BY <4>2, <5>2 DEF GivesUp, RxDone
      <4>3. ASSUME WaitsOn(r, c), Advances(r, c)
            PROVE  c.state = "READ_ACTIVE" /\ c.timer <= READ_TO /\ c.polls >= c.timer
        <5>1. c.state = "READ_ACTIVE" /\ c.polls = Least(r.polls + 1, READ_TO + 1)
          BY <2>4, <4>3 DEF WaitsOn
        <5>2. c.timer = 0 \/ (c.timer = r.timer + 1 /\ r.timer + 1 <= READ_TO)
          BY <1>1, <2>1, <3>1, <4>3 DEF Advances, Late, r
        <5> QED  BY <1>1, <3>1, <5>1, <5>2 DEF Least
      <4> QED  BY <2>4, <3>2, <4>1, <4>2, <4>3
    <3>4. rx'[i] = c /\ \A j \in Sockets \ {i} : rx'[j] = rx[j]
      BY <1>1, <2>1, <2>4 DEF c
    <3> QED  BY <3>2, <3>3, <3>4 DEF ClockInv
  <2> QED  BY <2>2, <2>3, <2>4
<1>5. CASE EvBegin \/ EvEnd
  BY <1>2, <1>5 DEF EvBegin, EvEnd, EvIdle
<1>6. CASE EvTx
  BY <1>2, <1>6, EvTxMoves
<1>7. CASE EvCallback
  <2>1. /\ ev'.slow = ev.slow
        /\ \A j \in Sockets :
             /\ rx'[j].got = rx[j].got
             /\ rx'[j].timer = rx[j].timer /\ rx'[j].polls = rx[j].polls
             /\ \/ rx'[j].state = rx[j].state
                \/ rx[j].state = "READ_DOCB" /\ rx'[j].state = "DATA_AVAILABLE"
    BY <1>7, EvCallbackMoves
  <2> QED  BY <2>1 DEF ClockInv
<1>8. ASSUME NEW i \in Sockets, AppNext(i) \/ Return(i) \/ Arrive(i) \/ Hangup(i)
      PROVE  ClockInv'
  <2>1. CASE SocketOpen(i) \/ SocketClose(i)
    BY <1>3, <2>1 DEF SocketOpen, SocketClose
  <2>2. CASE SocketConnect(i) \/ SocketListen(i) \/ Arrive(i) \/ Hangup(i) \/ Return(i)
    BY <1>2, <2>2 DEF SocketConnect, SocketListen, Arrive, Hangup, Return
  <2>3. ASSUME NEW callback \in BOOLEAN, SocketAttach(i, callback)  PROVE ClockInv'
    BY <1>2, <2>3 DEF SocketAttach
  <2>4. ASSUME NEW b \in Buffers, NEW n \in RecvSizes, RecvCollect(i, b, n)
        PROVE  ClockInv'
    BY <1>3, <2>4 DEF RecvCollect
  <2>5. ASSUME NEW b \in Buffers, NEW n \in SendSizes,
               SendStart(i, b, n) \/ SendCollect(i, b, n)
        PROVE  ClockInv'
    BY <1>2, <2>5 DEF SendStart, SendCollect
  <2>6. ASSUME NEW b \in Buffers, NEW n \in RecvSizes, RecvStart(i, b, n)
        PROVE  ClockInv'
    <3> DEFINE r == rx'[i]
    <3>1. /\ ev' = ev /\ rx' = [rx EXCEPT ![i] = r]
          /\ \/ r.state = "READ_ACTIVE" /\ r.timer <= 1 /\ r.polls = 1
             \/ r.state = "READ_START"
      BY <2>6, RecvStartMoves
    <3>2. r.timer \in Int
      BY <2>6, NextKeeps DEF IInv, TableOK, RxRec, Next, AppNext
    <3> HIDE DEF r
    <3>3. rx'[i] = r /\ \A j \in Sockets \ {i} : rx'[j] = rx[j]
      BY <1>1, <3>1
    <3>4. r.state = "READ_ACTIVE" => r.timer <= READ_TO /\ r.polls >= r.timer
      BY <1>1, <3>1, <3>2
    <3> QED  BY <3>1, <3>3, <3>4 DEF ClockInv
  <2> QED  BY <1>8, <2>1, <2>2, <2>3, <2>4, <2>5, <2>6 DEF AppNext
<1>9. CASE UNCHANGED vars
  BY <1>2, <1>9 DEF vars
<1> QED  BY <1>4, <1>5, <1>6, <1>7, <1>8, <1>9 DEF EvStep, Next

\* A read that ends without data was polled without success for the whole
\* time-out, with any number of sockets, as long as the slow mark lies beyond
\* the time-out: EQ_FREQ_SLOW is forty times EQ_FREQ.
THEOREM TimeoutsNotEarly ==
  ASSUME Listeners = {}, SameRetry, SLOW_FACTOR > 1
  PROVE  Spec => []NoEarlyTimeout
<1>1. Init => ClockInv
  BY InitPlain
<1>2. IInv /\ PlainInv /\ ClockInv /\ [Next]_vars => ClockInv'
  BY NextClock
<1>3. ClockInv => NoEarlyTimeout
  BY DEF ClockInv, NoEarlyTimeout
<1> QED  BY <1>1, <1>2, <1>3, AlwaysPlain, PTL DEF Spec

-----------------------------------------------------------------------------
(* The refinement: each step is a step of SocketService, or changes none   *)
(* of its variables.                                                       *)

RD(j) == Transfer(rx[j].state, rx[j].size, rx[j].count)
WR(j) == Transfer(tx[j].state, tx[j].orig, tx[j].sent)

reads   == [j \in Sockets |-> RD(j)]
writes  == [j \in Sockets |-> WR(j)]
answers == [j \in Sockets |-> Answer(j)]

IdleTransfer   == [phase |-> "idle", size |-> 0, count |-> 0]
PendingOf(n, c) == [phase |-> "pending", size |-> n, count |-> c]
DoneOf(n, c)    == [phase |-> "done", size |-> n, count |-> c]
AnswerOf(op, n, c) == [op |-> op, size |-> n, count |-> c]

\* The phases of the states.
LEMMA Phases ==
  ASSUME NEW state \in RxStates \cup TxStates, NEW n, NEW c
  PROVE  /\ state \in {"READ_START", "TX_IDLE"}   => Transfer(state, n, c) = IdleTransfer
         /\ state \in {"READ_ACTIVE", "TX_ACTIVE"} => Transfer(state, n, c) = PendingOf(n, c)
         /\ state \in {"READ_DOCB", "DATA_AVAILABLE", "TX_DOCB", "TX_COMPLETE"}
              => Transfer(state, n, c) = DoneOf(n, c)
<1>1. /\ state \in {"READ_START", "TX_IDLE"}   => Phase(state) = "idle"
      /\ state \in {"READ_ACTIVE", "TX_ACTIVE"} => Phase(state) = "pending"
      /\ state \in {"READ_DOCB", "DATA_AVAILABLE", "TX_DOCB", "TX_COMPLETE"}
           => Phase(state) = "done"
  BY DEF Phase
<1> QED  BY <1>1 DEF Transfer, IdleTransfer, PendingOf, DoneOf

\* An answer changes only with the call it is of.
LEMMA AnswerKept ==
  ASSUME NEW j, ret'[j] = ret[j],
         ret[j].op = "recv" => rx'[j].count = rx[j].count,
         ret[j].op = "send" => tx'[j].sent = tx[j].sent
  PROVE  Answer(j)' = Answer(j)
  BY DEF Answer

\* A call that has not been made has no answer.
LEMMA NoAnswerYet ==
  ASSUME NEW j, ret[j] = NoReturn
  PROVE  Answer(j) = AnswerOf("none", 0, 0)
  BY DEF Answer, NoReturn, AnswerOf

\* A step that leaves every transfer and every answer as it is.
LEMMA Stutters ==
  ASSUME \A j \in Sockets : RD(j)' = RD(j) /\ WR(j)' = WR(j) /\ Answer(j)' = Answer(j)
  PROVE  UNCHANGED Service!vars
<1>1. reads' = reads /\ writes' = writes /\ answers' = answers
  BY DEF reads, writes, answers
<1> QED  BY <1>1 DEF Service!vars, reads, writes, answers, RD, WR

\* A step at one socket.
LEMMA MovesAt ==
  ASSUME NEW i \in Sockets,
         \A j \in Sockets \ {i} :
            RD(j)' = RD(j) /\ WR(j)' = WR(j) /\ Answer(j)' = Answer(j)
  PROVE  /\ reads'   = [reads EXCEPT ![i] = RD(i)']
         /\ writes'  = [writes EXCEPT ![i] = WR(i)']
         /\ answers' = [answers EXCEPT ![i] = Answer(i)']
         /\ RD(i)' = RD(i) => reads' = reads
         /\ WR(i)' = WR(i) => writes' = writes
         /\ Answer(i)' = Answer(i) => answers' = answers
  BY DEF reads, writes, answers

LEMMA InitService == Init => Service!Init
<1> SUFFICES ASSUME Init  PROVE Service!Init
  OBVIOUS
<1>1. ASSUME NEW j \in Sockets
      PROVE  RD(j) = IdleTransfer /\ WR(j) = IdleTransfer /\ Answer(j) = AnswerOf("none", 0, 0)
  <2>1. rx[j].state = "READ_START" /\ tx[j].state = "TX_IDLE" /\ ret[j] = NoReturn
    BY DEF Init, IdleRx, IdleTx
  <2>2. RD(j) = IdleTransfer /\ WR(j) = IdleTransfer
    BY <2>1, Phases DEF RD, WR, RxStates, TxStates
  <2> QED  BY <2>1, <2>2, NoAnswerYet
<1> QED  BY <1>1 DEF Service!Init, Service!Idle, Service!NoAnswer, RD, WR, IdleTransfer, AnswerOf

\* The calls.
LEMMA CloseService ==
  ASSUME IInv, PlainInv, NEW i \in Sockets, SocketClose(i)
  PROVE  Service!Close(i)
<1>1. TableOK /\ ret[i] = NoReturn /\ ret' = ret
  BY DEF IInv, SocketClose, MayCall
<1>2. \A j \in Sockets :
         /\ SameRequest(rx[j], rx'[j]) /\ rx'[j].count = rx[j].count
         /\ rx'[j].state = IF j = i THEN "READ_START" ELSE rx[j].state
  BY <1>1, RxRestMoves DEF SocketClose
<1>3. \A j \in Sockets :
         /\ tx'[j].orig = tx[j].orig /\ tx'[j].sent = tx[j].sent
         /\ tx'[j].state = IF j = i THEN "TX_IDLE" ELSE tx[j].state
  BY <1>1, TxRestMoves DEF SocketClose
<1>4. \A j \in Sockets \ {i} : RD(j)' = RD(j) /\ WR(j)' = WR(j)
  BY <1>2, <1>3 DEF RD, WR, SameRequest
<1>5. \A j \in Sockets : Answer(j)' = Answer(j)
  BY <1>1, <1>2, <1>3, AnswerKept
<1>6. RD(i)' = IdleTransfer /\ WR(i)' = IdleTransfer
  BY <1>2, <1>3, Phases DEF RD, WR, RxStates, TxStates
<1>7. /\ reads' = [reads EXCEPT ![i] = IdleTransfer]
      /\ writes' = [writes EXCEPT ![i] = IdleTransfer] /\ answers' = answers
  BY <1>4, <1>5, <1>6, MovesAt
<1>8. answers[i] = AnswerOf("none", 0, 0)
  BY <1>1, NoAnswerYet DEF answers
<1> QED  BY <1>7, <1>8 DEF Service!Close, Service!Idle, Service!NoAnswer, reads, writes, answers,
                           RD, WR, IdleTransfer, AnswerOf

LEMMA RecvStartService ==
  ASSUME IInv, NEW i \in Sockets, NEW b \in Buffers, NEW n \in RecvSizes,
         RecvStart(i, b, n)
  PROVE  Service!RecvAtOnce(i, n) \/ Service!RecvRequest(i, n)
<1>1. /\ rx \in [Sockets -> RxRec] /\ ret \in [Sockets -> RetRec] /\ n \in Nat
  BY SizeAssumption DEF IInv, TableOK, CallsOK
<1> DEFINE r == rx'[i]
           a == [op |-> "recv", buffer |-> b, size |-> n]
<1>2. /\ ret[i] = NoReturn /\ rx[i].state = "READ_START" /\ tx' = tx
      /\ rx' = [rx EXCEPT ![i] = r] /\ r.size = n /\ r.count = r.got
      /\ \/ ret' = ret /\ r.state = "READ_ACTIVE" /\ r.got = 0
         \/ /\ ret' = [ret EXCEPT ![i] = a]
            /\ r.state = "READ_START" /\ r.got > 0 /\ r.got <= n
  BY RecvStartMoves
<1>3. r.count \in Int
  BY NextKeeps DEF IInv, TableOK, RxRec, Next, AppNext
<1> HIDE DEF r
<1>4. rx'[i] = r /\ \A j \in Sockets \ {i} : rx'[j] = rx[j] /\ ret'[j] = ret[j]
  BY <1>1, <1>2
<1>5. \A j \in Sockets \ {i} : RD(j)' = RD(j) /\ WR(j)' = WR(j) /\ Answer(j)' = Answer(j)
  BY <1>2, <1>4, AnswerKept DEF RD, WR
<1>6. /\ reads[i] = IdleTransfer /\ answers[i] = AnswerOf("none", 0, 0)
      /\ WR(i)' = WR(i)
  BY <1>2, Phases, NoAnswerYet DEF reads, answers, RD, WR, RxStates
<1>7. CASE ret' = ret /\ r.state = "READ_ACTIVE" /\ r.got = 0
  <2>1. RD(i)' = PendingOf(n, 0)
    BY <1>2, <1>4, <1>7, Phases DEF RD, RxStates
  <2>2. Answer(i)' = Answer(i)
    BY <1>2, <1>7, AnswerKept DEF NoReturn
  <2>3. /\ reads' = [reads EXCEPT ![i] = PendingOf(n, 0)]
        /\ writes' = writes /\ answers' = answers
    BY <1>5, <1>6, <2>1, <2>2, MovesAt
  <2> QED  BY <1>6, <2>3 DEF Service!RecvRequest, Service!Idle, Service!NoAnswer,
              Service!Pending, reads, writes, answers, RD, WR, IdleTransfer, PendingOf, AnswerOf
<1>8. CASE /\ ret' = [ret EXCEPT ![i] = a]
           /\ r.state = "READ_START" /\ r.got > 0 /\ r.got <= n
  <2> DEFINE c == r.count
  <2>1. c \in 1..n
    BY <1>1, <1>2, <1>3, <1>8
  <2>2. RD(i)' = IdleTransfer /\ RD(i) = IdleTransfer
    BY <1>2, <1>4, <1>8, Phases DEF RD, RxStates
  <2>3. Answer(i)' = AnswerOf("recv", n, c)
    <3>1. ret'[i] = a
      BY <1>1, <1>8
    <3> QED  BY <1>4, <3>1 DEF Answer, AnswerOf
  <2> HIDE DEF c
  <2>4. /\ answers' = [answers EXCEPT ![i] = AnswerOf("recv", n, c)]
        /\ reads' = reads /\ writes' = writes
    BY <1>5, <1>6, <2>2, <2>3, MovesAt
  <2> QED  BY <1>6, <2>1, <2>4 DEF Service!RecvAtOnce, Service!Answers, Service!Idle,
              Service!NoAnswer, reads, writes, answers, RD, WR, IdleTransfer, AnswerOf
<1> QED  BY <1>2, <1>7, <1>8

LEMMA RecvCollectService ==
  ASSUME SameRetry, IInv, NEW i \in Sockets, NEW b \in Buffers, NEW n \in RecvSizes,
         RecvCollect(i, b, n)
  PROVE  Service!RecvCollect(i)
<1>1. TableOK /\ ret \in [Sockets -> RetRec]
  BY DEF IInv, CallsOK
<1> DEFINE a == [op |-> "recv", buffer |-> b, size |-> n]
<1>2. /\ rx[i].state = "DATA_AVAILABLE" /\ n = rx[i].size /\ ret[i] = NoReturn
      /\ rx' = [rx EXCEPT ![i].state = "READ_START"] /\ ret' = [ret EXCEPT ![i] = a]
      /\ tx' = tx
  BY DEF RecvCollect, Repeats, MayCall
<1>3. \A j \in Sockets :
         /\ SameRequest(rx[j], rx'[j]) /\ rx'[j].count = rx[j].count
         /\ rx'[j].state = IF j = i THEN "READ_START" ELSE rx[j].state
  BY <1>1, <1>2, RxRestMoves
<1>4. ret'[i] = a /\ \A j \in Sockets \ {i} : ret'[j] = ret[j]
  BY <1>1, <1>2
<1>5. \A j \in Sockets \ {i} : RD(j)' = RD(j) /\ WR(j)' = WR(j) /\ Answer(j)' = Answer(j)
  BY <1>2, <1>3, <1>4, AnswerKept DEF RD, WR, SameRequest
<1>6. /\ RD(i) = DoneOf(n, rx[i].count) /\ RD(i)' = IdleTransfer /\ WR(i)' = WR(i)
  BY <1>2, <1>3, Phases DEF RD, WR, RxStates
<1>7. Answer(i)' = AnswerOf("recv", n, rx[i].count)
  BY <1>3, <1>4 DEF Answer, AnswerOf
<1>8. /\ reads[i] = DoneOf(n, rx[i].count) /\ answers[i] = AnswerOf("none", 0, 0)
  BY <1>2, <1>6, NoAnswerYet DEF reads, answers
<1>9. /\ reads' = [reads EXCEPT ![i] = IdleTransfer] /\ writes' = writes
      /\ answers' = [answers EXCEPT ![i] = AnswerOf("recv", n, rx[i].count)]
  BY <1>5, <1>6, <1>7, MovesAt
<1>10. /\ reads[i].phase = "done" /\ reads[i].size = n /\ reads[i].count = rx[i].count
  BY <1>8 DEF DoneOf
<1> QED  BY <1>8, <1>9, <1>10 DEF Service!RecvCollect, Service!Answers, Service!Idle,
            Service!NoAnswer, reads, writes, answers, RD, WR, IdleTransfer, AnswerOf

LEMMA SendStartService ==
  ASSUME IInv, NEW i \in Sockets, NEW b \in Buffers, NEW n \in SendSizes,
         SendStart(i, b, n)
  PROVE  Service!SendAtOnce(i, n) \/ Service!SendRequest(i, n)
<1>1. tx \in [Sockets -> TxRec] /\ ret \in [Sockets -> RetRec] /\ n \in Nat
  BY SizeAssumption DEF IInv, TableOK, CallsOK
<1> DEFINE t == tx'[i]
           a == [op |-> "send", buffer |-> b, size |-> n]
<1>2. /\ ret[i] = NoReturn /\ tx[i].state = "TX_IDLE" /\ rx' = rx
      /\ tx' = [tx EXCEPT ![i] = t] /\ t.orig = n /\ t.sent \in Nat
      /\ \/ ret' = ret /\ t.state = "TX_ACTIVE" /\ t.sent < n
         \/ /\ ret' = [ret EXCEPT ![i] = a]
            /\ t.state = "TX_IDLE" /\ t.sent = n
  BY SendStartMoves
<1> HIDE DEF t
<1>3. tx'[i] = t /\ \A j \in Sockets \ {i} : tx'[j] = tx[j] /\ ret'[j] = ret[j]
  BY <1>1, <1>2
<1>4. \A j \in Sockets \ {i} : RD(j)' = RD(j) /\ WR(j)' = WR(j) /\ Answer(j)' = Answer(j)
  BY <1>2, <1>3, AnswerKept DEF RD, WR
<1>5. /\ writes[i] = IdleTransfer /\ answers[i] = AnswerOf("none", 0, 0)
      /\ RD(i)' = RD(i)
  BY <1>2, Phases, NoAnswerYet DEF writes, answers, RD, WR, TxStates
<1>6. CASE ret' = ret /\ t.state = "TX_ACTIVE" /\ t.sent < n
  <2> DEFINE c == t.sent
  <2>1. c \in 0..(n - 1)
    BY <1>1, <1>2, <1>6
  <2>2. WR(i)' = PendingOf(n, c)
    BY <1>2, <1>3, <1>6, Phases DEF WR, TxStates
  <2> HIDE DEF c
  <2>3. Answer(i)' = Answer(i)
    BY <1>2, <1>6, AnswerKept DEF NoReturn
  <2>4. /\ writes' = [writes EXCEPT ![i] = PendingOf(n, c)]
        /\ reads' = reads /\ answers' = answers
    BY <1>4, <1>5, <2>2, <2>3, MovesAt
  <2> QED  BY <1>5, <2>1, <2>4 DEF Service!SendRequest, Service!Idle, Service!NoAnswer,
              Service!Pending, reads, writes, answers, RD, WR, IdleTransfer, PendingOf, AnswerOf
<1>7. CASE ret' = [ret EXCEPT ![i] = a] /\ t.state = "TX_IDLE" /\ t.sent = n
  <2>1. WR(i)' = IdleTransfer /\ WR(i) = IdleTransfer
    BY <1>2, <1>3, <1>7, Phases DEF WR, TxStates
  <2>2. Answer(i)' = AnswerOf("send", n, n)
    <3>1. ret'[i] = a
      BY <1>1, <1>7
    <3> QED  BY <1>3, <1>7, <3>1 DEF Answer, AnswerOf
  <2>3. /\ answers' = [answers EXCEPT ![i] = AnswerOf("send", n, n)]
        /\ reads' = reads /\ writes' = writes
    BY <1>4, <1>5, <2>1, <2>2, MovesAt
  <2> QED  BY <1>5, <2>3 DEF Service!SendAtOnce, Service!Answers, Service!Idle,
              Service!NoAnswer, reads, writes, answers, RD, WR, IdleTransfer, AnswerOf
<1> QED  BY <1>2, <1>6, <1>7

LEMMA SendCollectService ==
  ASSUME SameRetry, IInv, NEW i \in Sockets, NEW b \in Buffers, NEW n \in SendSizes,
         SendCollect(i, b, n)
  PROVE  Service!SendCollect(i)
<1>1. TableOK /\ ret \in [Sockets -> RetRec]
  BY DEF IInv, CallsOK
<1> DEFINE a == [op |-> "send", buffer |-> b, size |-> n]
<1>2. /\ tx[i].state = "TX_COMPLETE" /\ n = tx[i].orig /\ ret[i] = NoReturn
      /\ tx' = [tx EXCEPT ![i].state = "TX_IDLE"] /\ ret' = [ret EXCEPT ![i] = a]
      /\ rx' = rx
  BY DEF SendCollect, Repeats, MayCall
<1>3. \A j \in Sockets :
         /\ tx'[j].orig = tx[j].orig /\ tx'[j].sent = tx[j].sent
         /\ tx'[j].state = IF j = i THEN "TX_IDLE" ELSE tx[j].state
  BY <1>1, <1>2, TxRestMoves
<1>4. ret'[i] = a /\ \A j \in Sockets \ {i} : ret'[j] = ret[j]
  BY <1>1, <1>2
<1>5. \A j \in Sockets \ {i} : RD(j)' = RD(j) /\ WR(j)' = WR(j) /\ Answer(j)' = Answer(j)
  BY <1>2, <1>3, <1>4, AnswerKept DEF RD, WR
<1>6. /\ WR(i) = DoneOf(n, tx[i].sent) /\ WR(i)' = IdleTransfer /\ RD(i)' = RD(i)
  BY <1>2, <1>3, Phases DEF RD, WR, TxStates
<1>7. Answer(i)' = AnswerOf("send", n, tx[i].sent)
  BY <1>3, <1>4 DEF Answer, AnswerOf
<1>8. /\ writes[i] = DoneOf(n, tx[i].sent) /\ answers[i] = AnswerOf("none", 0, 0)
  BY <1>2, <1>6, NoAnswerYet DEF writes, answers
<1>9. /\ writes' = [writes EXCEPT ![i] = IdleTransfer] /\ reads' = reads
      /\ answers' = [answers EXCEPT ![i] = AnswerOf("send", n, tx[i].sent)]
  BY <1>5, <1>6, <1>7, MovesAt
<1>10. /\ writes[i].phase = "done" /\ writes[i].size = n /\ writes[i].count = tx[i].sent
  BY <1>8 DEF DoneOf
<1> QED  BY <1>8, <1>9, <1>10 DEF Service!SendCollect, Service!Answers, Service!Idle,
            Service!NoAnswer, reads, writes, answers, RD, WR, IdleTransfer, AnswerOf

LEMMA ReturnService ==
  ASSUME IInv, PlainInv, NEW i \in Sockets, Return(i)
  PROVE  Service!Return(i)
<1>1. /\ ret \in [Sockets -> RetRec] /\ ret[i] # NoReturn
      /\ ret' = [ret EXCEPT ![i] = NoReturn] /\ UNCHANGED <<rx, tx>>
  BY DEF IInv, CallsOK, Return
<1>2. ret'[i] = NoReturn /\ \A j \in Sockets \ {i} : ret'[j] = ret[j]
  BY <1>1
<1>3. \A j \in Sockets : RD(j)' = RD(j) /\ WR(j)' = WR(j)
  BY <1>1 DEF RD, WR
<1>4. \A j \in Sockets \ {i} : Answer(j)' = Answer(j)
  BY <1>1, <1>2, AnswerKept
<1>5. Answer(i)' = AnswerOf("none", 0, 0)
  BY <1>2 DEF Answer, NoReturn, AnswerOf
<1>6. ret[i].op # "none"
  BY <1>1 DEF PlainInv, AnswersExact
<1>7. answers[i] # AnswerOf("none", 0, 0)
  BY <1>6 DEF answers, Answer, AnswerOf
<1>8. /\ answers' = [answers EXCEPT ![i] = AnswerOf("none", 0, 0)]
      /\ reads' = reads /\ writes' = writes
  BY <1>3, <1>4, <1>5, MovesAt
<1> QED  BY <1>7, <1>8 DEF Service!Return, Service!NoAnswer, reads, writes, answers,
                           RD, WR, AnswerOf

\* The calls that change no transfer.
LEMMA OtherService ==
  ASSUME IInv, PlainInv, NEW i \in Sockets,
         \/ SocketOpen(i) \/ SocketConnect(i) \/ SocketListen(i)
         \/ \E callback \in BOOLEAN : SocketAttach(i, callback)
         \/ Arrive(i) \/ Hangup(i)
  PROVE  UNCHANGED Service!vars
<1>1. ASSUME UNCHANGED <<rx, tx, ret>>  PROVE UNCHANGED Service!vars
  BY <1>1, Stutters DEF RD, WR, Answer
<1>2. CASE SocketOpen(i)
  <2>1. /\ TableOK /\ ~IsOpen(i) /\ ClosedAtRest /\ ret' = ret
        /\ rx' = [rx EXCEPT ![i].state = "READ_START"]
        /\ tx' = [tx EXCEPT ![i].state = "TX_IDLE"]
    BY <1>2 DEF IInv, PlainInv, SocketOpen
  <2>2. rx[i].state = "READ_START" /\ tx[i].state = "TX_IDLE"
    BY <2>1 DEF ClosedAtRest
  <2>3. \A j \in Sockets :
           /\ SameRequest(rx[j], rx'[j]) /\ rx'[j].count = rx[j].count
           /\ rx'[j].state = IF j = i THEN "READ_START" ELSE rx[j].state
    BY <2>1, RxRestMoves
  <2>4. \A j \in Sockets :
           /\ tx'[j].orig = tx[j].orig /\ tx'[j].sent = tx[j].sent
           /\ tx'[j].state = tx[j].state
    BY <2>1, <2>2, TxRestMoves
  <2>5. \A j \in Sockets : RD(j)' = RD(j) /\ WR(j)' = WR(j)
    BY <2>2, <2>3, <2>4 DEF RD, WR, SameRequest
  <2>6. \A j \in Sockets : Answer(j)' = Answer(j)
    BY <2>1, <2>3, <2>4, AnswerKept
  <2> QED  BY <2>5, <2>6, Stutters
<1>3. CASE SocketConnect(i) \/ SocketListen(i) \/ Arrive(i) \/ Hangup(i)
  BY <1>1, <1>3 DEF SocketConnect, SocketListen, Arrive, Hangup
<1>4. ASSUME NEW callback \in BOOLEAN, SocketAttach(i, callback)
      PROVE  UNCHANGED Service!vars
  BY <1>1, <1>4 DEF SocketAttach
<1> QED  BY <1>2, <1>3, <1>4

\* The event: an attempt that ends a transfer, or takes a write further, is a
\* step of SocketService; every other step of the event is none.
LEMMA EvRxService ==
  ASSUME IInv, PlainInv, EvRx, NEW i, i = ev.i
  PROVE  Service!RecvEnd(i) \/ UNCHANGED Service!vars
<1> DEFINE r == rx[i]
           c == rx'[i]
<1>1. /\ i \in Sockets /\ rx \in [Sockets -> RxRec] /\ ReadExact(r)
      /\ ret[i].op = "recv" => r.state = "READ_START"
  BY EventAtSocket DEF IInv, TableOK, PlainInv, TransfersExact, AnswersExact, RecvExact
<1>2. /\ UNCHANGED <<tx, ret>>
      /\ \/ rx' = rx
         \/ /\ r.state = "READ_ACTIVE" /\ rx' = [rx EXCEPT ![i] = c]
            /\ SameRequest(r, c)
            /\ \/ WaitsOn(r, c)
               \/ \E n \in 1..r.req : Takes(r, c, n)
               \/ GivesUp(r, c)
  BY <1>1, EvRxMoves DEF ReadExact
<1>3. CASE rx' = rx
  BY <1>2, <1>3, Stutters DEF RD, WR, Answer
<1>4. CASE /\ r.state = "READ_ACTIVE" /\ rx' = [rx EXCEPT ![i] = c]
           /\ SameRequest(r, c)
           /\ \/ WaitsOn(r, c)
              \/ \E n \in 1..r.req : Takes(r, c, n)
              \/ GivesUp(r, c)
  <2>1. /\ r.count = 0 /\ r.req <= r.size /\ r.req \in Nat /\ r.size \in Nat
        /\ c.size = r.size /\ ret[i].op # "recv"
    BY <1>1, <1>4 DEF ReadExact, RxRec, SameRequest
  <2> HIDE DEF r, c
  <2>2. rx'[i] = c /\ rx[i] = r /\ \A j \in Sockets \ {i} : rx'[j] = rx[j]
    BY <1>1, <1>4 DEF r
  <2>3. \A j \in Sockets : WR(j)' = WR(j) /\ Answer(j)' = Answer(j)
    BY <1>2, <2>1, <2>2, AnswerKept DEF WR
  <2>4. \A j \in Sockets \ {i} : RD(j)' = RD(j)
    BY <2>2 DEF RD
  <2>5. RD(i) = PendingOf(r.size, 0)
    BY <1>4, <2>1, <2>2, Phases DEF RD, RxStates
  <2>6. CASE WaitsOn(r, c)
    <3>1. RD(i)' = RD(i)
      BY <2>1, <2>2, <2>6 DEF WaitsOn, RD
    <3> QED  BY <2>3, <2>4, <3>1, Stutters
  <2>7. ASSUME NEW n \in 0..r.size, c.count = n, c.state \in {"READ_DOCB", "DATA_AVAILABLE"}
        PROVE  Service!RecvEnd(i)
    <3>1. RD(i)' = DoneOf(r.size, n)
      BY <2>1, <2>2, <2>7, Phases DEF RD, RxStates
    <3>2. /\ reads' = [reads EXCEPT ![i] = DoneOf(r.size, n)]
          /\ writes' = writes /\ answers' = answers
      BY <1>1, <2>3, <2>4, <3>1, MovesAt
    <3>3. reads[i].phase = "pending" /\ reads[i].size = r.size
      BY <1>1, <2>5 DEF reads, PendingOf
    <3>4. reads' = [reads EXCEPT ![i] = DoneOf(@.size, n)]
      BY <3>2, <3>3
    <3> QED  BY <2>7, <3>2, <3>3, <3>4 DEF Service!RecvEnd, Service!Done, reads, writes,
                                           answers, RD, WR, DoneOf
  <2>8. ASSUME NEW n \in 1..r.req, Takes(r, c, n)  PROVE Service!RecvEnd(i)
    <3>1. n \in 0..r.size /\ c.count = n
      BY <2>1, <2>8 DEF Takes
    <3>2. c.state \in {"READ_DOCB", "DATA_AVAILABLE"}
      BY <2>8 DEF Takes, RxDone
    <3> QED  BY <2>7, <3>1, <3>2
  <2>9. CASE GivesUp(r, c)
    <3>1. 0 \in 0..r.size /\ c.count = 0
      BY <2>1, <2>9 DEF GivesUp
    <3>2. c.state \in {"READ_DOCB", "DATA_AVAILABLE"}
      BY <2>9 DEF GivesUp, RxDone
    <3> QED  BY <2>7, <3>1, <3>2
  <2> QED  BY <1>4, <2>6, <2>8, <2>9
<1> QED  BY <1>2, <1>3, <1>4

LEMMA EvTxService ==
  ASSUME IInv, PlainInv, EvTx, NEW i, i = ev.i
  PROVE  Service!SendMore(i) \/ Service!SendEnd(i) \/ UNCHANGED Service!vars
<1> DEFINE t == tx[i]
           u == tx'[i]
<1>1. /\ i \in Sockets /\ tx \in [Sockets -> TxRec] /\ TxGood(t)
      /\ ret[i].op = "send" => t.state = "TX_IDLE"
  BY EventAtSocket DEF IInv, TableOK, RecordsGood, PlainInv, AnswersExact, SendExact
<1>2. /\ UNCHANGED <<rx, ret>>
      /\ \/ tx' = tx
         \/ /\ t.state = "TX_ACTIVE" /\ tx' = [tx EXCEPT ![i] = u] /\ u.orig = t.orig
            /\ Resends(t, u) \/ SendsOn(t, u) \/ SendsLast(t, u)
  BY EvTxMoves
<1>3. CASE tx' = tx
  BY <1>2, <1>3, Stutters DEF RD, WR, Answer
<1>4. CASE /\ t.state = "TX_ACTIVE" /\ tx' = [tx EXCEPT ![i] = u] /\ u.orig = t.orig
           /\ Resends(t, u) \/ SendsOn(t, u) \/ SendsLast(t, u)
  <2>1. /\ t.sent \in Nat /\ t.req \in Nat /\ t.orig \in Nat /\ t.req > 0
        /\ ret[i].op # "send"
    BY <1>1, <1>4 DEF TxGood, TxRec
  <2> HIDE DEF t, u
  <2>2. tx'[i] = u /\ tx[i] = t /\ \A j \in Sockets \ {i} : tx'[j] = tx[j]
    BY <1>1, <1>4 DEF t
  <2>3. \A j \in Sockets : RD(j)' = RD(j) /\ Answer(j)' = Answer(j)
    BY <1>2, <2>1, <2>2, AnswerKept DEF RD
  <2>4. \A j \in Sockets \ {i} : WR(j)' = WR(j)
    BY <2>2 DEF WR
  <2>5. WR(i) = PendingOf(t.orig, t.sent)
    BY <1>4, <2>2, Phases DEF WR, TxStates
  <2>6. /\ writes[i].phase = "pending" /\ writes[i].size = t.orig
        /\ writes[i].count = t.sent
    BY <1>1, <2>5 DEF writes, PendingOf
  <2>7. CASE Resends(t, u)
    <3>1. WR(i)' = WR(i)
      BY <1>4, <2>2, <2>7 DEF Resends, WR
    <3> QED  BY <2>3, <2>4, <3>1, Stutters
  <2>8. CASE SendsOn(t, u)
    <3> DEFINE c == u.sent
    <3>1. c \in (t.sent + 1)..(t.orig - 1)
      BY <1>4, <2>1, <2>8 DEF SendsOn
    <3>2. WR(i)' = PendingOf(t.orig, c)
      BY <1>4, <2>2, <2>8, Phases DEF SendsOn, WR, TxStates
    <3> HIDE DEF c
    <3>3. /\ writes' = [writes EXCEPT ![i] = PendingOf(t.orig, c)]
          /\ reads' = reads /\ answers' = answers
      BY <1>1, <2>3, <2>4, <3>2, MovesAt
    <3>4. /\ writes' = [writes EXCEPT ![i] = PendingOf(@.size, c)]
          /\ c \in (writes[i].count + 1)..(writes[i].size - 1)
      BY <2>6, <3>1, <3>3
    <3> QED  BY <2>6, <3>3, <3>4 DEF Service!SendMore, Service!Pending, reads, writes,
                                     answers, RD, WR, PendingOf
  <2>9. CASE SendsLast(t, u)
    <3>1. WR(i)' = DoneOf(t.orig, t.orig)
      BY <1>4, <2>2, <2>9, Phases DEF SendsLast, WR, TxStates
    <3>2. /\ writes' = [writes EXCEPT ![i] = DoneOf(t.orig, t.orig)]
          /\ reads' = reads /\ answers' = answers
      BY <1>1, <2>3, <2>4, <3>1, MovesAt
    <3>3. writes' = [writes EXCEPT ![i] = DoneOf(@.size, @.size)]
      BY <2>6, <3>2
    <3> QED  BY <2>6, <3>2, <3>3 DEF Service!SendEnd, Service!Done, reads, writes,
                                     answers, RD, WR, DoneOf
  <2> QED  BY <1>4, <2>7, <2>8, <2>9
<1> QED  BY <1>2, <1>3, <1>4

LEMMA EvOtherService ==
  ASSUME IInv, EvBegin \/ EvCallback \/ EvEnd
  PROVE  UNCHANGED Service!vars
<1>1. CASE EvBegin \/ EvEnd
  BY <1>1, Stutters DEF EvBegin, EvEnd, RD, WR, Answer
<1>2. CASE EvCallback
  <2>1. /\ TableOK /\ ret' = ret
        /\ \A j \in Sockets :
             /\ SameRequest(rx[j], rx'[j]) /\ rx'[j].count = rx[j].count
             /\ \/ rx'[j].state = rx[j].state
                \/ rx[j].state = "READ_DOCB" /\ rx'[j].state = "DATA_AVAILABLE"
             /\ tx'[j].orig = tx[j].orig /\ tx'[j].sent = tx[j].sent
             /\ \/ tx'[j].state = tx[j].state
                \/ tx[j].state = "TX_DOCB" /\ tx'[j].state = "TX_COMPLETE"
    BY <1>2, EvCallbackMoves DEF IInv
  <2>2. \A j \in Sockets : RD(j)' = RD(j)
    BY <2>1, Phases DEF RD, SameRequest, RxStates
  <2>3. \A j \in Sockets : WR(j)' = WR(j)
    BY <2>1, Phases DEF WR, TxStates
  <2>4. \A j \in Sockets : Answer(j)' = Answer(j)
    BY <2>1, AnswerKept
  <2> QED  BY <2>2, <2>3, <2>4, Stutters
<1> QED  BY <1>1, <1>2

LEMMA StepService ==
  ASSUME SameRetry, IInv, PlainInv, [Next]_vars
  PROVE  [Service!Next]_(Service!vars)
<1>1. CASE UNCHANGED vars
  BY <1>1, Stutters DEF vars, RD, WR, Answer
<1>2. CASE EvStep
  <2>1. CASE EvRx
    BY <2>1, EvRxService, EventAtSocket DEF IInv, Service!Next
  <2>2. CASE EvTx
    BY <2>2, EvTxService, EventAtSocket DEF IInv, Service!Next
  <2> QED  BY <1>2, <2>1, <2>2, EvOtherService DEF EvStep
<1>3. ASSUME NEW i \in Sockets, AppNext(i) \/ Return(i) \/ Arrive(i) \/ Hangup(i)
      PROVE  [Service!Next]_(Service!vars)
  <2>1. ASSUME NEW b \in Buffers, NEW n \in RecvSizes, RecvStart(i, b, n)
        PROVE  Service!Next
    BY <2>1, RecvStartService DEF Service!Next
  <2>2. ASSUME NEW b \in Buffers, NEW n \in RecvSizes, RecvCollect(i, b, n)
        PROVE  Service!Next
    BY <2>2, RecvCollectService DEF Service!Next
  <2>3. ASSUME NEW b \in Buffers, NEW n \in SendSizes, SendStart(i, b, n)
        PROVE  Service!Next
    BY <2>3, SendStartService DEF Service!Next
  <2>4. ASSUME NEW b \in Buffers, NEW n \in SendSizes, SendCollect(i, b, n)
        PROVE  Service!Next
    BY <2>4, SendCollectService DEF Service!Next
  <2>5. CASE SocketClose(i)
    BY <2>5, CloseService DEF Service!Next
  <2>6. CASE Return(i)
    BY <2>6, ReturnService DEF Service!Next
  <2> QED  BY <1>3, <2>1, <2>2, <2>3, <2>4, <2>5, <2>6, OtherService DEF AppNext
<1> QED  BY <1>1, <1>2, <1>3 DEF Next

\* With any number of sockets and any sizes, the calls, the event, the callbacks
\* and the faults of the modem together are the service that the caller is
\* promised: each transfer ends once and is collected once, and nothing changes
\* what a call is about to return.
THEOREM Refinement ==
  ASSUME Listeners = {}, SameRetry
  PROVE  Spec => ServiceSpec
<1>1. Init => Service!Init
  BY InitService
<1>2. IInv /\ PlainInv /\ [Next]_vars => [Service!Next]_(Service!vars)
  BY StepService
<1> QED  BY <1>1, <1>2, AlwaysPlain, PTL DEF Spec, ServiceSpec, Service!Spec

=============================================================================
