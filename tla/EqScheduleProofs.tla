-------------------------- MODULE EqScheduleProofs --------------------------
(***************************************************************************)
(* Proofs about EqSchedule for every number of threads, transfers and      *)
(* calls, every cap and every queue size.                                  *)
(*                                                                         *)
(* No proof rests on txrx_mutex: the counter is updated without it.  What  *)
(* saves the wakeup, in a build whose ++ increments the value it tested,   *)
(* is that a store of the cap is always followed by a call_in of the same  *)
(* thread, and that an event that is taken is followed by a store below    *)
(* the cap (CapHasEvent).                                                  *)
(***************************************************************************)
EXTENDS EqSchedule, TLAPS

\* The event thread only stores the predecessor of a positive value: between
\* its test and its load the other threads only store successors.
DecPositive ==
    /\ pc[EventThread] = "decReload" => scheduled > 0
    /\ NoWrap

\* A build with one load has no step that loads again, and a thread only
\* stores a value it tested to be below the cap, or one less than it loaded.
OneLoad ==
    /\ \A p \in Procs : /\ pc[p] \notin {"schedReload", "decReload"}
                        /\ pc[p] = "schedStore" => reg[p] < SOCKET_COUNT
    /\ pc[EventThread] = "decStore" => reg[EventThread] <= SOCKET_COUNT

\* When the counter is at the cap, so that _eq_schedule adds nothing, there is
\* an event: queued, taken but not yet subtracted, or about to be queued.
CapHasEvent ==
    scheduled = SOCKET_COUNT => \/ queued > 0
                                \/ pc[EventThread] \in DecLabels
                                \/ \E p \in Procs : pc[p] = "callIn"

\* The inductive invariant.
IInv == /\ TypeOK
        /\ DecPositive
        /\ ~reload => OneLoad /\ CapHasEvent /\ PendingHasEvent

USE ThreadsAssumption, CountAssumption, ReadsAssumption

-----------------------------------------------------------------------------
\* The inductive invariant holds at the start.
LEMMA InitIInv == Init => IInv
  BY DEF Init, IInv, TypeOK, DecPositive, NoWrap, OneLoad, CapHasEvent,
         PendingHasEvent, Procs, AppLabels, EvLabels, SchedLabels, DecLabels

\* A step of _eq_schedule, by any thread.
LEMMA ScheduleIInv ==
  ASSUME IInv, NEW p \in Procs, Schedule(p)
  PROVE  IInv'
<1> USE DEF IInv, TypeOK, DecPositive, NoWrap, OneLoad, CapHasEvent,
            PendingHasEvent, Procs, AppLabels, EvLabels, SchedLabels, DecLabels,
            Scheduling, Handling, Goto, transfers, Posted
<1>1. CASE SchedTest(p)  BY <1>1 DEF SchedTest
<1>2. CASE SchedReload(p)  BY <1>2 DEF SchedReload
<1>3. CASE SchedStore(p)  BY <1>3 DEF SchedStore
<1>4. CASE CallIn(p)  BY <1>4 DEF CallIn
<1> QED  BY <1>1, <1>2, <1>3, <1>4 DEF Schedule

\* The end of a call or of the event.
LEMMA ReturnIInv ==
  ASSUME IInv, NEW p \in Procs, Return(p)
  PROVE  IInv'
  BY DEF Return, IInv, TypeOK, DecPositive, NoWrap, OneLoad, CapHasEvent,
         PendingHasEvent, Procs, AppLabels, EvLabels, SchedLabels, DecLabels,
         Scheduling, Handling, Goto, transfers, Posted

\* A step of a call of the application.
LEMMA AppIInv ==
  ASSUME IInv, NEW p \in Threads, AppStep(p)
  PROVE  IInv'
<1> USE DEF IInv, TypeOK, DecPositive, NoWrap, OneLoad, CapHasEvent,
            PendingHasEvent, Procs, AppLabels, EvLabels, SchedLabels, DecLabels,
            Scheduling, Handling, Goto, transfers, Posted
<1>1. CASE AppLock(p)  BY <1>1 DEF AppLock
<1>2. CASE AppStart(p)  BY <1>2 DEF AppStart
<1>3. CASE AppFinish(p)  BY <1>3 DEF AppFinish
<1>4. CASE AppClose(p)  BY <1>4 DEF AppClose
<1>5. CASE AppListen(p)  BY <1>5 DEF AppListen
<1>6. CASE Schedule(p)  BY <1>6, ScheduleIInv
<1>7. CASE Return(p)  BY <1>7, ReturnIInv
<1> QED  BY <1>1, <1>2, <1>3, <1>4, <1>5, <1>6, <1>7 DEF AppStep

\* A step of the event thread.
LEMMA EventIInv ==
  ASSUME IInv, Event
  PROVE  IInv'
<1> USE DEF IInv, TypeOK, DecPositive, NoWrap, OneLoad, CapHasEvent,
            PendingHasEvent, Procs, AppLabels, EvLabels, SchedLabels, DecLabels,
            Scheduling, Handling, Goto, transfers, Posted
<1>1. CASE EvFire  BY <1>1 DEF EvFire
<1>2. CASE EvTryLock  BY <1>2 DEF EvTryLock
<1>3. CASE EvDecTest  BY <1>3 DEF EvDecTest
<1>4. CASE EvDecReload  BY <1>4 DEF EvDecReload
<1>5. CASE EvDecStore  BY <1>5 DEF EvDecStore
<1>6. CASE EvBranch  BY <1>6 DEF EvBranch
<1>7. CASE EvPoll
  <2>1. PICK completed \in SUBSET Polled :
          /\ active' = active \ completed
          /\ Goto(EventThread, IF completed = Polled THEN "ret" ELSE "sched")
    BY <1>7 DEF EvPoll
  <2>2. CASE completed = Polled  BY <1>7, <2>1, <2>2 DEF EvPoll, Polled
  <2>3. CASE completed # Polled  BY <1>7, <2>1, <2>3 DEF EvPoll
  <2> QED  BY <2>2, <2>3
<1>8. CASE Schedule(EventThread)  BY <1>8, ScheduleIInv
<1>9. CASE Return(EventThread)  BY <1>9, ReturnIInv
<1> QED  BY <1>1, <1>2, <1>3, <1>4, <1>5, <1>6, <1>7, <1>8, <1>9 DEF Event

\* The invariant is inductive, hence it always holds.
THEOREM AlwaysIInv == Spec => []IInv
<1>1. Init => IInv  BY InitIInv
<1>2. IInv /\ [Next]_vars => IInv'
  <2> SUFFICES ASSUME IInv, [Next]_vars  PROVE IInv'
    OBVIOUS
  <2>1. CASE Event  BY <2>1, EventIInv
  <2>2. ASSUME NEW p \in Threads, AppStep(p)  PROVE IInv'
    BY <2>2, AppIInv
  <2>3. CASE UNCHANGED vars
    BY <2>3 DEF vars, transfers, IInv, TypeOK, DecPositive, NoWrap, OneLoad, CapHasEvent,
                PendingHasEvent, Scheduling, Handling
  <2> QED  BY <2>1, <2>2, <2>3 DEF Next
<1> QED  BY <1>1, <1>2, PTL DEF Spec

\* Every variable stays in its type and, in a build with one load, the counter
\* within BG96_SOCKET_COUNT, whatever updates of it the threads lose.
THEOREM TypeCorrect == Spec => []TypeOK
<1>1. IInv => TypeOK  BY DEF IInv
<1> QED  BY <1>1, AlwaysIInv, PTL

\* In every build, the event thread never decrements a counter that is zero.
THEOREM CounterDoesNotWrap == Spec => []NoWrap
<1>1. IInv => NoWrap  BY DEF IInv, DecPositive
<1> QED  BY <1>1, AlwaysIInv, PTL

\* No lost wakeup in a build with one load: a transfer that is active always
\* has an event to poll it.
THEOREM NoLostWakeup == Spec => []OneLoadPending
<1>1. IInv => OneLoadPending  BY DEF IInv, OneLoadPending
<1> QED  BY <1>1, AlwaysIInv, PTL
=============================================================================
