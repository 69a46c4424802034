----------------------------- MODULE EqSchedule -----------------------------
(***************************************************************************)
(* The event scheduling of BG96Interface: the counter scheduled_events,    *)
(* the EventQueue _bg96_queue it is meant to bound, the mutex txrx_mutex   *)
(* and the two kinds of threads that meet there.                           *)
(*                                                                         *)
(*   - Application threads call socket_recv, socket_send and socket_close  *)
(*     (under txrx_mutex) and socket_listen (under no mutex); a transfer   *)
(*     that does not complete in the call is left active and the thread    *)
(*     calls _eq_schedule.                                                 *)
(*   - The thread _bg96_monitor dispatches the queue: g_eq_event tries     *)
(*     txrx_mutex, decrements scheduled_events WHETHER OR NOT it got the   *)
(*     mutex, polls the active transfers if it did, and calls              *)
(*     _eq_schedule again when there is work left.  It also polls, in any  *)
(*     state, the records of reads that were posted without a time-out     *)
(*     (m_rx_disTO), which a listening socket has.                         *)
(*                                                                         *)
(* scheduled_events is a plain uint32_t: "if (s < N) s++" and              *)
(* "if (s > 0) s--" are a load, a test and a store, and none of the loads  *)
(* and stores is ordered with those of the other thread.  The model has    *)
(* one step for each.  reload says which code the build produced: FALSE    *)
(* when the value tested is the value incremented (one load, optimised     *)
(* builds), TRUE when ++ and -- load the counter again (-O0 builds).       *)
(*                                                                         *)
(* What a transfer is (its socket, direction, buffer) is left to the       *)
(* module SocketEngine; here it is an element of Transfers.                *)
(***************************************************************************)
EXTENDS Integers, FiniteSets

CONSTANTS
    Threads,        \* the application threads
    EventThread,    \* _bg96_monitor
    NoOwner,        \* the value of txrx_mutex when it is free
    Transfers,      \* what may be active: a read or a write of a socket
    Reads,          \* those that are reads
    SOCKET_COUNT,   \* BG96_SOCKET_COUNT, the cap on scheduled_events
    QUEUE_SIZE,     \* events the EventQueue has memory for (external)
    Builds,         \* the values of reload to look at
    MAX_CALLS       \* bound: calls the application makes in a behaviour

ASSUME ThreadsAssumption == /\ EventThread \notin Threads
                            /\ NoOwner \notin Threads \cup {EventThread}
ASSUME CountAssumption   == /\ SOCKET_COUNT \in Nat \ {0}
                            /\ QUEUE_SIZE \in Nat \ {0}
                            /\ MAX_CALLS \in Nat
ASSUME ReadsAssumption   == Reads \subseteq Transfers
ASSUME BuildsAssumption  == Builds \subseteq BOOLEAN

Procs == Threads \cup {EventThread}

VARIABLES
    scheduled,      \* scheduled_events
    queued,         \* events waiting in _bg96_queue
    txrx,           \* the owner of txrx_mutex
    active,         \* transfers in READ_ACTIVE or TX_ACTIVE
    listening,      \* the reads whose socket has disTO set
    disTO,          \* the reads whose record has m_rx_disTO set
    pc,             \* where each thread is
    reg,            \* the value of scheduled_events a thread loaded
    calls,          \* calls made so far
    reload          \* do ++ and -- load the counter again after the test?

transfers == <<active, listening, disTO>>
vars == <<scheduled, queued, txrx, transfers, pc, reg, calls, reload>>

SchedLabels == {"sched", "schedReload", "schedStore", "callIn"}
DecLabels   == {"trylock", "dec", "decReload", "decStore"}
AppLabels   == {"idle", "locked", "ret"} \cup SchedLabels
EvLabels    == {"idle", "branch", "poll", "ret"} \cup DecLabels \cup SchedLabels

Init ==
    /\ scheduled = 0
    /\ queued = 0
    /\ txrx = NoOwner
    /\ active = {} /\ listening = {} /\ disTO = {}
    /\ pc = [p \in Procs |-> "idle"]
    /\ reg = [p \in Procs |-> 0]
    /\ calls = 0
    /\ reload \in Builds

Goto(p, l) == pc' = [pc EXCEPT ![p] = l]

-----------------------------------------------------------------------------
(* _eq_schedule, run by any thread.                                        *)

\* Mutant: the cap test admits one event more than BG96_SOCKET_COUNT.
SchedTestOffByOne(p) ==
    /\ pc[p] = "sched"
    /\ IF scheduled <= SOCKET_COUNT
         THEN /\ reg' = [reg EXCEPT ![p] = scheduled]
              /\ Goto(p, IF reload THEN "schedReload" ELSE "schedStore")
         ELSE /\ Goto(p, "ret")
              /\ UNCHANGED reg
    /\ UNCHANGED <<scheduled, queued, txrx, transfers, calls, reload>>

\* if( scheduled_events < BG96_SOCKET_COUNT )
SchedTest(p) ==
    /\ pc[p] = "sched"
    /\ IF scheduled < SOCKET_COUNT
         THEN /\ reg' = [reg EXCEPT ![p] = scheduled]
              /\ Goto(p, IF reload THEN "schedReload" ELSE "schedStore")
         ELSE /\ Goto(p, "ret")
              /\ UNCHANGED reg
    /\ UNCHANGED <<scheduled, queued, txrx, transfers, calls, reload>>

\* The load of scheduled_events++ where the build does not reuse the test's.
SchedReload(p) ==
    /\ pc[p] = "schedReload"
    /\ reg' = [reg EXCEPT ![p] = scheduled]
    /\ Goto(p, "schedStore")
    /\ UNCHANGED <<scheduled, queued, txrx, transfers, calls, reload>>

\* The store of scheduled_events++.
SchedStore(p) ==
    /\ pc[p] = "schedStore"
    /\ scheduled' = reg[p] + 1
    /\ Goto(p, "callIn")
    /\ UNCHANGED <<queued, txrx, transfers, reg, calls, reload>>

\* _bg96_queue.call_in: a full queue refuses the event, and nobody looks.
CallIn(p) ==
    /\ pc[p] = "callIn"
    /\ queued' = IF queued < QUEUE_SIZE THEN queued + 1 ELSE queued
    /\ Goto(p, "ret")
    /\ UNCHANGED <<scheduled, txrx, transfers, reg, calls, reload>>

\* The end of a call or of the event: txrx_mutex is unlocked if it is held.
Return(p) ==
    /\ pc[p] = "ret"
    /\ txrx' = IF txrx = p THEN NoOwner ELSE txrx
    /\ Goto(p, "idle")
    /\ UNCHANGED <<scheduled, queued, transfers, reg, calls, reload>>

-----------------------------------------------------------------------------
(* The application's calls.                                                *)

\* socket_recv, socket_send and socket_close: txrx_mutex.lock().
AppLock(p) ==
    /\ pc[p] = "idle"
    /\ calls < MAX_CALLS
    /\ txrx = NoOwner
    /\ calls' = calls + 1
    /\ txrx' = p
    /\ Goto(p, "locked")
    /\ UNCHANGED <<scheduled, queued, transfers, reg, reload>>

\* A read takes its m_rx_disTO from its socket when it is posted.
Posted(t) == disTO' = IF t \in listening THEN disTO \cup {t} ELSE disTO \ {t}

\* A read or a write that the first attempt does not complete.
AppStart(p) ==
    /\ pc[p] = "locked"
    /\ \E t \in Transfers \ active : active' = active \cup {t} /\ Posted(t)
    /\ Goto(p, "sched")
    /\ UNCHANGED <<scheduled, queued, txrx, listening, reg, calls, reload>>

\* A call that completes in place, or posts nothing: it collects a transfer, or
\* finds it still active.
AppFinish(p) ==
    /\ pc[p] = "locked"
    /\ UNCHANGED disTO \/ \E t \in Transfers \ active : Posted(t)
    /\ Goto(p, "ret")
    /\ UNCHANGED <<scheduled, queued, txrx, active, listening, reg, calls, reload>>

\* socket_close takes the socket's transfers back to idle and has it no longer
\* listen; m_rx_disTO of its record stays as it is.
AppClose(p) ==
    /\ pc[p] = "locked"
    /\ \E t \in Transfers : active' = active \ {t} /\ listening' = listening \ {t}
    /\ Goto(p, "ret")
    /\ UNCHANGED <<scheduled, queued, txrx, disTO, reg, calls, reload>>

\* socket_bind and socket_listen schedule an event and take no mutex.
AppListen(p) ==
    /\ pc[p] = "idle"
    /\ calls < MAX_CALLS
    /\ calls' = calls + 1
    /\ \E t \in Reads : listening' = listening \cup {t}
    /\ Goto(p, "sched")
    /\ UNCHANGED <<scheduled, queued, txrx, active, disTO, reg, reload>>

-----------------------------------------------------------------------------
(* g_eq_event, run by the event thread.                                    *)

\* The delay of an event is over and the dispatcher takes it.
EvFire ==
    /\ pc[EventThread] = "idle"
    /\ queued > 0
    /\ queued' = queued - 1
    /\ Goto(EventThread, "trylock")
    /\ UNCHANGED <<scheduled, txrx, transfers, reg, calls, reload>>

\* int done = txrx_mutex.trylock();
EvTryLock ==
    /\ pc[EventThread] = "trylock"
    /\ txrx' = IF txrx = NoOwner THEN EventThread ELSE txrx
    /\ Goto(EventThread, "dec")
    /\ UNCHANGED <<scheduled, queued, transfers, reg, calls, reload>>

\* Mutant: the counter is decremented without the test for zero.
EvDecTestUnguarded ==
    /\ pc[EventThread] = "dec"
    /\ reg' = [reg EXCEPT ![EventThread] = scheduled]
    /\ Goto(EventThread, IF reload THEN "decReload" ELSE "decStore")
    /\ UNCHANGED <<scheduled, queued, txrx, transfers, calls, reload>>

\* if( scheduled_events > 0 )
EvDecTest ==
    /\ pc[EventThread] = "dec"
    /\ IF scheduled > 0
         THEN /\ reg' = [reg EXCEPT ![EventThread] = scheduled]
              /\ Goto(EventThread, IF reload THEN "decReload" ELSE "decStore")
         ELSE /\ Goto(EventThread, "branch")
              /\ UNCHANGED reg
    /\ UNCHANGED <<scheduled, queued, txrx, transfers, calls, reload>>

\* The load of scheduled_events-- where the build does not reuse the test's.
EvDecReload ==
    /\ pc[EventThread] = "decReload"
    /\ reg' = [reg EXCEPT ![EventThread] = scheduled]
    /\ Goto(EventThread, "decStore")
    /\ UNCHANGED <<scheduled, queued, txrx, transfers, calls, reload>>

\* Mutant: the decrement is forgotten.
EvDecStoreMissing ==
    /\ pc[EventThread] = "decStore"
    /\ Goto(EventThread, "branch")
    /\ UNCHANGED <<scheduled, queued, txrx, transfers, reg, calls, reload>>

\* The store of scheduled_events--.
EvDecStore ==
    /\ pc[EventThread] = "decStore"
    /\ scheduled' = reg[EventThread] - 1
    /\ Goto(EventThread, "branch")
    /\ UNCHANGED <<queued, txrx, transfers, reg, calls, reload>>

\* Mutant: an event that finds the mutex taken is not scheduled again.
EvBranchDropped ==
    /\ pc[EventThread] = "branch"
    /\ Goto(EventThread, IF txrx = EventThread THEN "poll" ELSE "ret")
    /\ UNCHANGED <<scheduled, queued, txrx, transfers, reg, calls, reload>>

\* Without the mutex the event is put back in the queue and nothing is polled.
EvBranch ==
    /\ pc[EventThread] = "branch"
    /\ Goto(EventThread, IF txrx = EventThread THEN "poll" ELSE "sched")
    /\ UNCHANGED <<scheduled, queued, txrx, transfers, reg, calls, reload>>

\* What the event polls: m_rx_state == READ_ACTIVE || m_rx_disTO, and TX_ACTIVE.
Polled == active \cup disTO

\* Mutant: the event is scheduled again though every transfer completed.
EvPollAlways ==
    /\ pc[EventThread] = "poll"
    /\ \E completed \in SUBSET Polled : active' = active \ completed
    /\ Goto(EventThread, "sched")
    /\ UNCHANGED <<scheduled, queued, txrx, listening, disTO, reg, calls, reload>>

\* Every record that is polled is tried; those that complete stop being active,
\* and the event is scheduled again if one did not.
EvPoll ==
    /\ pc[EventThread] = "poll"
    /\ \E completed \in SUBSET Polled :
         /\ active' = active \ completed
         /\ Goto(EventThread, IF completed = Polled THEN "ret" ELSE "sched")
    /\ UNCHANGED <<scheduled, queued, txrx, listening, disTO, reg, calls, reload>>

-----------------------------------------------------------------------------
Schedule(p) == SchedTest(p) \/ SchedReload(p) \/ SchedStore(p) \/ CallIn(p)

AppStep(p) == \/ AppLock(p) \/ AppStart(p) \/ AppFinish(p) \/ AppClose(p)
              \/ AppListen(p) \/ Schedule(p) \/ Return(p)

Event == \/ EvFire \/ EvTryLock \/ EvDecTest \/ EvDecReload \/ EvDecStore
         \/ EvBranch \/ EvPoll \/ Schedule(EventThread) \/ Return(EventThread)

\* The system may come to rest: nothing is queued and no call is left.
Next == Event \/ \E p \in Threads : AppStep(p)

Spec == Init /\ [][Next]_vars

\* A thread that is inside a call, and the dispatcher, are run by the RTOS;
\* nothing obliges the application to make a call.
FairSpec == /\ Spec
            /\ WF_vars(Event)
            /\ \A p \in Threads : WF_vars(AppStep(p) /\ pc[p] # "idle")

-----------------------------------------------------------------------------
(* Properties.                                                             *)

\* The types, and the range of the counter where ++ increments the value it
\* tested: scheduled_events stays within BG96_SOCKET_COUNT although updates of
\* the two threads get lost.
TypeOK ==
    /\ scheduled \in Nat
    /\ ~reload => scheduled <= SOCKET_COUNT
    /\ queued \in 0..QUEUE_SIZE
    /\ txrx \in Procs \cup {NoOwner}
    /\ active \subseteq Transfers /\ listening \subseteq Reads /\ disTO \subseteq Reads
    /\ pc \in [Procs -> AppLabels \cup EvLabels]
    /\ \A p \in Threads : pc[p] \in AppLabels
    /\ reg \in [Procs -> Nat]
    /\ calls \in 0..MAX_CALLS
    /\ reload \in Builds

\* The uint32_t scheduled_events never wraps below zero: the value the event
\* thread decrements is positive, even where it is not the value it tested and
\* an application thread has written the counter in between.
NoWrap == pc[EventThread] = "decStore" => reg[EventThread] > 0

\* A thread that is on its way to call_in, or still to test whether it may.
Scheduling == \E p \in Procs : pc[p] \in SchedLabels

\* The event thread is in the part of g_eq_event that will poll or reschedule.
Handling == pc[EventThread] \in DecLabels \cup {"branch", "poll"}

\* While a read or a write is active (socket_recv and socket_send told the
\* caller WOULD_BLOCK), an event is queued, being handled or being scheduled:
\* "periodic event to check for RX and TX data".
PendingHasEvent ==
    active # {} => queued > 0 \/ Handling \/ Scheduling

\* No lost wakeup in a build with one load: lost updates of scheduled_events
\* never leave an active transfer that no event will ever poll.
OneLoadPending == ~reload => PendingHasEvent

\* The periodic event is alive in a build with one load: again and again the
\* event thread reaches the poll of the active transfers, or there is none.
PolledForever == []<>(active = {} \/ pc[EventThread] = "poll" \/ reload)

\* The events die out, but for listeners: once no transfer is active any more and
\* no record has m_rx_disTO set, the queue drains and the event thread comes to
\* rest.  A record whose last read was posted by a listening socket is polled and
\* rescheduled for ever, also after that read was collected or the socket closed.
QueueDrains ==
    <>[](active = {} /\ disTO = {}) => <>[](queued = 0 /\ pc[EventThread] = "idle")
=============================================================================
