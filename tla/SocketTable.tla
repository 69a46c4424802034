----------------------------- MODULE SocketTable -----------------------------
(***************************************************************************)
(* The socket table g_sock of BG96Interface shared by several threads:     *)
(* socket_open, socket_attach, socket_connect and socket_close, in the     *)
(* steps another thread can come between.                                  *)
(*                                                                         *)
(* socket_open updates the table under gvupdate_mutex, socket_close under  *)
(* txrx_mutex, socket_attach and socket_connect under neither, so an open  *)
(* and a close of the same entry run side by side: socket_close gives the  *)
(* entry away (id = -1) BEFORE it resets the other fields.  A handle is    *)
(* the address of the entry, and a thread uses only the handle its own     *)
(* socket_open returned and it has not closed.                             *)
(*                                                                         *)
(* The modem is external: linked[i] says whether it has a connection       *)
(* under the id i, from a successful AT+QIOPEN to a successful AT+QICLOSE. *)
(***************************************************************************)
EXTENDS Integers

CONSTANTS
    Threads,
    NoThread,       \* the value of a free mutex and of a NULL callback
    SOCKET_COUNT,   \* BG96_SOCKET_COUNT
    MAX_FAULTS      \* bound: modem faults in a behaviour

ASSUME TableAssumption == /\ NoThread \notin Threads
                          /\ SOCKET_COUNT \in Nat \ {0}
                          /\ MAX_FAULTS \in Nat

Sockets == 0..(SOCKET_COUNT - 1)

VARIABLES
    sock,       \* g_sock: id, connected, _callback
    linked,     \* external: the ids the modem has a connection for
    gv, txrx,   \* the owners of gvupdate_mutex and txrx_mutex
    pc,         \* where each thread is
    handle,     \* the entry a thread works on, -1 when it has none
    cnt,        \* the attempts of the connect loop
    result,     \* what a thread's last socket_connect returned
    faults      \* modem faults so far

vars == <<sock, linked, gv, txrx, pc, handle, cnt, result, faults>>

Holding == {"setRest", "open", "ready", "attempt", "drain", "undo", "decide",
            "closeLock", "closeLink", "closeFree"}
Labels  == {"out", "scan", "setId", "closeRest"} \cup Holding

Init ==
    /\ sock = [i \in Sockets |-> [id |-> -1, connected |-> FALSE, callback |-> NoThread]]
    /\ linked = [i \in Sockets |-> FALSE]
    /\ gv = NoThread /\ txrx = NoThread
    /\ pc = [t \in Threads |-> "out"]
    /\ handle = [t \in Threads |-> -1]
    /\ cnt = [t \in Threads |-> 0]
    /\ result = [t \in Threads |-> "none"]
    /\ faults = 0

Goto(t, l) == pc' = [pc EXCEPT ![t] = l]

\* The fields of an entry but its id, as socket_open and socket_close set them.
Reset(e) == [id |-> e.id, connected |-> FALSE, callback |-> NoThread]

\* sock->_callback = callback, of thread t, and sock->connected = true.
Attached(e, t) == [id |-> e.id, connected |-> e.connected, callback |-> t]
Connected(e)   == [id |-> e.id, connected |-> TRUE, callback |-> e.callback]

-----------------------------------------------------------------------------
(* socket_open                                                             *)

\* Mutant: socket_open does not wait for gvupdate_mutex.
OpenUnlocked(t) ==
    /\ pc[t] = "out"
    /\ gv' = t
    /\ Goto(t, "scan")
    /\ UNCHANGED <<sock, linked, txrx, handle, cnt, result, faults>>

OpenLock(t) ==
    /\ pc[t] = "out"
    /\ gv = NoThread
    /\ gv' = t
    /\ Goto(t, "scan")
    /\ UNCHANGED <<sock, linked, txrx, handle, cnt, result, faults>>

IsFirstFree(i) == sock[i].id = -1 /\ \A j \in 0..(i - 1) : sock[j].id # -1

OpenFound(t) ==
    /\ pc[t] = "scan"
    /\ \E i \in Sockets : IsFirstFree(i) /\ handle' = [handle EXCEPT ![t] = i]
    /\ Goto(t, "setId")
    /\ UNCHANGED <<sock, linked, gv, txrx, cnt, result, faults>>

\* NSAPI_ERROR_NO_SOCKET
OpenNone(t) ==
    /\ pc[t] = "scan"
    /\ \A i \in Sockets : sock[i].id # -1
    /\ gv' = NoThread
    /\ Goto(t, "out")
    /\ UNCHANGED <<sock, linked, txrx, handle, cnt, result, faults>>

OpenSetId(t) ==
    /\ pc[t] = "setId"
    /\ sock' = [sock EXCEPT ![handle[t]].id = handle[t]]
    /\ Goto(t, "setRest")
    /\ UNCHANGED <<linked, gv, txrx, handle, cnt, result, faults>>

\* The other fields, and the unlock.
OpenSetRest(t) ==
    /\ pc[t] = "setRest"
    /\ sock' = [sock EXCEPT ![handle[t]] = Reset(@)]
    /\ gv' = NoThread
    /\ Goto(t, "open")
    /\ UNCHANGED <<linked, txrx, handle, cnt, result, faults>>

\* socket_attach: a thread registers its callback before it uses the socket.
Attach(t) ==
    /\ pc[t] = "open"
    /\ sock' = [sock EXCEPT ![handle[t]] = Attached(@, t)]
    /\ Goto(t, "ready")
    /\ UNCHANGED <<linked, gv, txrx, handle, cnt, result, faults>>

-----------------------------------------------------------------------------
(* socket_connect                                                          *)

ConnectBegin(t) ==
    /\ pc[t] = "ready"
    /\ cnt' = [cnt EXCEPT ![t] = 0]
    /\ result' = [result EXCEPT ![t] = "none"]
    /\ Goto(t, "attempt")
    /\ UNCHANGED <<sock, linked, gv, txrx, handle, faults>>

\* BG96::open: the modem makes the connection.
AttemptLinked(t) ==
    /\ pc[t] = "attempt"
    /\ ~linked[handle[t]]
    /\ linked' = [linked EXCEPT ![handle[t]] = TRUE]
    /\ Goto(t, "drain")
    /\ UNCHANGED <<sock, gv, txrx, handle, cnt, result, faults>>

\* BG96::open fails: for an id that is in use it must.
AttemptFailed(t) ==
    /\ pc[t] = "attempt"
    /\ IF linked[handle[t]] THEN faults' = faults
                            ELSE faults < MAX_FAULTS /\ faults' = faults + 1
    /\ Goto(t, "undo")
    /\ UNCHANGED <<sock, linked, gv, txrx, handle, cnt, result>>

\* Mutant: a failed third attempt is followed by a fourth.
UndoOnceMore(t) ==
    /\ pc[t] = "undo"
    /\ \/ linked' = [linked EXCEPT ![handle[t]] = FALSE] /\ faults' = faults
       \/ linked[handle[t]] /\ faults < MAX_FAULTS /\ faults' = faults + 1 /\ linked' = linked
    /\ cnt' = [cnt EXCEPT ![t] = @ + 1]
    /\ Goto(t, IF cnt[t] < 3 THEN "attempt" ELSE "decide")
    /\ UNCHANGED <<sock, gv, txrx, handle, result>>

\* The residual data is cleared, k is false, and the loop still counts.
Drain(t) ==
    /\ pc[t] = "drain"
    /\ cnt' = [cnt EXCEPT ![t] = @ + 1]
    /\ Goto(t, "decide")
    /\ UNCHANGED <<sock, linked, gv, txrx, handle, result, faults>>

\* BG96::close after a failed attempt, whose own result is not looked at.
Undo(t) ==
    /\ pc[t] = "undo"
    /\ \/ linked' = [linked EXCEPT ![handle[t]] = FALSE] /\ faults' = faults
       \/ linked[handle[t]] /\ faults < MAX_FAULTS /\ faults' = faults + 1 /\ linked' = linked
    /\ cnt' = [cnt EXCEPT ![t] = @ + 1]
    /\ Goto(t, IF cnt[t] + 1 < 3 THEN "attempt" ELSE "decide")
    /\ UNCHANGED <<sock, gv, txrx, handle, result>>

\* Mutant: three failures pass for a success.
DecideLenient(t) ==
    /\ pc[t] = "decide"
    /\ IF cnt[t] <= 3
         THEN /\ sock' = [sock EXCEPT ![handle[t]] = Connected(@)]
              /\ result' = [result EXCEPT ![t] = "ok"]
         ELSE /\ sock' = sock
              /\ result' = [result EXCEPT ![t] = "error"]
    /\ Goto(t, "ready")
    /\ UNCHANGED <<linked, gv, txrx, handle, cnt, faults>>

\* if( cnt<3 ) ... the attempt that succeeded has been counted too.
Decide(t) ==
    /\ pc[t] = "decide"
    /\ IF cnt[t] < 3
         THEN /\ sock' = [sock EXCEPT ![handle[t]] = Connected(@)]
              /\ result' = [result EXCEPT ![t] = "ok"]
         ELSE /\ sock' = sock
              /\ result' = [result EXCEPT ![t] = "error"]
    /\ Goto(t, "ready")
    /\ UNCHANGED <<linked, gv, txrx, handle, cnt, faults>>

-----------------------------------------------------------------------------
(* socket_close                                                            *)

\* i = sock->id, read before the mutex is taken; a negative one is an error.
CloseBegin(t) ==
    /\ pc[t] = "ready"
    /\ sock[handle[t]].id >= 0
    /\ Goto(t, "closeLock")
    /\ UNCHANGED <<sock, linked, gv, txrx, handle, cnt, result, faults>>

CloseLock(t) ==
    /\ pc[t] = "closeLock"
    /\ txrx = NoThread
    /\ txrx' = t
    /\ Goto(t, "closeLink")
    /\ UNCHANGED <<sock, linked, gv, handle, cnt, result, faults>>

CloseLink(t) ==
    /\ pc[t] = "closeLink"
    /\ LET i == handle[t] IN
       \/ sock[i].connected /\ linked' = [linked EXCEPT ![i] = FALSE] /\ faults' = faults
       \/ sock[i].connected /\ faults < MAX_FAULTS /\ faults' = faults + 1 /\ linked' = linked
       \/ ~sock[i].connected /\ UNCHANGED <<linked, faults>>
    /\ Goto(t, "closeFree")
    /\ UNCHANGED <<sock, gv, txrx, handle, cnt, result>>

CloseFree(t) ==
    /\ pc[t] = "closeFree"
    /\ sock' = [sock EXCEPT ![handle[t]].id = -1]
    /\ Goto(t, "closeRest")
    /\ UNCHANGED <<linked, gv, txrx, handle, cnt, result, faults>>

\* Mutant: the whole entry is reset at the end, its id once more.
CloseRestAll(t) ==
    /\ pc[t] = "closeRest"
    /\ sock' = [sock EXCEPT ![handle[t]] =
                  [id |-> -1, connected |-> FALSE, callback |-> NoThread]]
    /\ txrx' = NoThread
    /\ handle' = [handle EXCEPT ![t] = -1]
    /\ result' = [result EXCEPT ![t] = "none"]
    /\ Goto(t, "out")
    /\ UNCHANGED <<linked, gv, cnt, faults>>

\* The other fields, of an entry that may be another thread's by now.
CloseRest(t) ==
    /\ pc[t] = "closeRest"
    /\ sock' = [sock EXCEPT ![handle[t]] = Reset(@)]
    /\ txrx' = NoThread
    /\ handle' = [handle EXCEPT ![t] = -1]
    /\ result' = [result EXCEPT ![t] = "none"]
    /\ Goto(t, "out")
    /\ UNCHANGED <<linked, gv, cnt, faults>>

-----------------------------------------------------------------------------
Step(t) ==
    \/ OpenLock(t) \/ OpenFound(t) \/ OpenNone(t) \/ OpenSetId(t) \/ OpenSetRest(t)
    \/ Attach(t)
    \/ ConnectBegin(t) \/ AttemptLinked(t) \/ AttemptFailed(t) \/ Drain(t) \/ Undo(t)
    \/ Decide(t)
    \/ CloseBegin(t) \/ CloseLock(t) \/ CloseLink(t) \/ CloseFree(t) \/ CloseRest(t)

Next == \E t \in Threads : Step(t)

Spec == Init /\ [][Next]_vars

-----------------------------------------------------------------------------
(* Properties.                                                             *)

\* The types; the connect loop makes at most three attempts.
TypeOK ==
    /\ sock \in [Sockets -> [id : Sockets \cup {-1}, connected : BOOLEAN,
                             callback : Threads \cup {NoThread}]]
    /\ linked \in [Sockets -> BOOLEAN]
    /\ {gv, txrx} \subseteq Threads \cup {NoThread}
    /\ pc \in [Threads -> Labels]
    /\ handle \in [Threads -> Sockets \cup {-1}]
    /\ cnt \in [Threads -> 0..3]
    /\ result \in [Threads -> {"none", "ok", "error"}]
    /\ faults \in 0..MAX_FAULTS

Owns(t, i) == pc[t] \in Holding /\ handle[t] = i

\* Each entry in use has exactly one owner: socket_open gives no entry to two
\* threads though it and socket_close use different mutexes, the id of an open
\* socket stays valid (it indexes g_socRx and g_socTx), and no entry is lost.
EntryHasOneOwner ==
    \A i \in Sockets :
        /\ sock[i].id = (IF \E t \in Threads : Owns(t, i) THEN i ELSE -1)
        /\ \A t, u \in Threads : Owns(t, i) /\ Owns(u, i) => t = u

\* A socket_connect that returned NSAPI_ERROR_OK left a link under the id of the
\* socket, whatever calls of other threads, on this entry's last owner too,
\* overlap with it.
OkHasLink ==
    \A t \in Threads : pc[t] = "ready" /\ result[t] = "ok" => linked[handle[t]]

\* "protect global variable updates": a socket whose connect succeeded stays
\* connected, and its callback registered, until its owner closes it.
UpdatesKept ==
    \A t \in Threads :
        pc[t] = "ready" /\ result[t] = "ok" =>
            sock[handle[t]].connected /\ sock[handle[t]].callback = t
=============================================================================
