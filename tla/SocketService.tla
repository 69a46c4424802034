---------------------------- MODULE SocketService ----------------------------
(***************************************************************************)
(* What BG96Interface promises to the caller of socket_recv and            *)
(* socket_send, with no event, no mutex, no modem and no buffer in it.     *)
(* SocketEngine implements it: see ServiceSpec there.                      *)
(*                                                                         *)
(* A socket has one reader and one writer.  A call either has its answer   *)
(* at once or leaves a transfer pending and says WOULD_BLOCK; a transfer   *)
(* ends once, and the next call collects it.  A read ends with at most     *)
(* the bytes that were asked for, and with none only after it was pending  *)
(* (the time-out); a write ends when all its bytes are sent, and never     *)
(* goes back.  An answer, once due, changes no more.  A close forgets both *)
(* transfers.                                                              *)
(***************************************************************************)
EXTENDS Integers

CONSTANTS Sockets, RecvSizes, SendSizes

VARIABLES
    reader,     \* per socket: phase, the size asked for, the bytes received
    writer,     \* per socket: phase, the size to send, the bytes sent
    answer      \* per socket: what the call that is returning says

vars == <<reader, writer, answer>>

Idle     == [phase |-> "idle", size |-> 0, count |-> 0]
NoAnswer == [op |-> "none", size |-> 0, count |-> 0]

Pending(n, c) == [phase |-> "pending", size |-> n, count |-> c]
Done(n, c)    == [phase |-> "done", size |-> n, count |-> c]

Init ==
    /\ reader = [i \in Sockets |-> Idle]
    /\ writer = [i \in Sockets |-> Idle]
    /\ answer = [i \in Sockets |-> NoAnswer]

Answers(i, op, n, c) ==
    /\ answer[i] = NoAnswer
    /\ answer' = [answer EXCEPT ![i] = [op |-> op, size |-> n, count |-> c]]

-----------------------------------------------------------------------------
(* Reading.                                                                *)

RecvAtOnce(i, n) ==
    /\ reader[i] = Idle
    /\ \E c \in 1..n : Answers(i, "recv", n, c)
    /\ UNCHANGED <<reader, writer>>

RecvRequest(i, n) ==
    /\ reader[i] = Idle /\ answer[i] = NoAnswer
    /\ reader' = [reader EXCEPT ![i] = Pending(n, 0)]
    /\ UNCHANGED <<writer, answer>>

\* By data, or by the time-out with none.
RecvEnd(i) ==
    /\ reader[i].phase = "pending"
    /\ \E c \in 0..reader[i].size : reader' = [reader EXCEPT ![i] = Done(@.size, c)]
    /\ UNCHANGED <<writer, answer>>

RecvCollect(i) ==
    /\ reader[i].phase = "done"
    /\ Answers(i, "recv", reader[i].size, reader[i].count)
    /\ reader' = [reader EXCEPT ![i] = Idle]
    /\ UNCHANGED writer

-----------------------------------------------------------------------------
(* Writing.                                                                *)

SendAtOnce(i, n) ==
    /\ writer[i] = Idle
    /\ Answers(i, "send", n, n)
    /\ UNCHANGED <<reader, writer>>

SendRequest(i, n) ==
    /\ writer[i] = Idle /\ answer[i] = NoAnswer
    /\ \E c \in 0..(n - 1) : writer' = [writer EXCEPT ![i] = Pending(n, c)]
    /\ UNCHANGED <<reader, answer>>

SendMore(i) ==
    /\ writer[i].phase = "pending"
    /\ \E c \in (writer[i].count + 1)..(writer[i].size - 1) :
         writer' = [writer EXCEPT ![i] = Pending(@.size, c)]
    /\ UNCHANGED <<reader, answer>>

SendEnd(i) ==
    /\ writer[i].phase = "pending"
    /\ writer' = [writer EXCEPT ![i] = Done(@.size, @.size)]
    /\ UNCHANGED <<reader, answer>>

SendCollect(i) ==
    /\ writer[i].phase = "done"
    /\ Answers(i, "send", writer[i].size, writer[i].count)
    /\ writer' = [writer EXCEPT ![i] = Idle]
    /\ UNCHANGED reader

-----------------------------------------------------------------------------
Return(i) ==
    /\ answer[i] # NoAnswer
    /\ answer' = [answer EXCEPT ![i] = NoAnswer]
    /\ UNCHANGED <<reader, writer>>

Close(i) ==
    /\ answer[i] = NoAnswer
    /\ reader' = [reader EXCEPT ![i] = Idle]
    /\ writer' = [writer EXCEPT ![i] = Idle]
    /\ UNCHANGED answer

Next == \E i \in Sockets :
    \/ \E n \in RecvSizes : RecvAtOnce(i, n) \/ RecvRequest(i, n)
    \/ RecvEnd(i) \/ RecvCollect(i)
    \/ \E n \in SendSizes : SendAtOnce(i, n) \/ SendRequest(i, n)
    \/ SendMore(i) \/ SendEnd(i) \/ SendCollect(i)
    \/ Return(i) \/ Close(i)

Spec == Init /\ [][Next]_vars
=============================================================================
