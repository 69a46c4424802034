------------------------- MODULE SocketTableProofs -------------------------
(***************************************************************************)
(* Proofs about SocketTable for every set of threads and every number of   *)
(* entries and faults.                                                     *)
(*                                                                         *)
(* EntryHasOneOwner rests on gvupdate_mutex: the entry that socket_open    *)
(* has chosen stays free until it writes the id, since only another        *)
(* socket_open could take it.  socket_close, which does not hold that      *)
(* mutex, only ever frees an entry its own thread owns.  OkHasLink then    *)
(* follows because only the owner of an entry makes the modem open or      *)
(* close the link of its id.                                               *)
(***************************************************************************)
EXTENDS SocketTable, TLAPS

\* A thread with an entry at hand has a handle that points into the table.
HandleValid == \A t \in Threads : pc[t] \notin {"out", "scan"} => handle[t] \in Sockets

\* gvupdate_mutex is held from the lock to the unlock of socket_open, and the
\* entry that is chosen is free.
OpenHoldsGv ==
    \A t \in Threads :
        /\ pc[t] \in {"scan", "setId", "setRest"} => gv = t
        /\ pc[t] = "setId" => sock[handle[t]].id = -1

\* What the result of the connect loop says about the link.
LinkKnown ==
    \A t \in Threads :
        /\ pc[t] = "drain" => linked[handle[t]]
        /\ pc[t] = "decide" /\ cnt[t] < 3 => linked[handle[t]]
        /\ pc[t] = "ready" /\ result[t] = "ok" => linked[handle[t]]
        /\ pc[t] \in {"out", "scan", "setId", "setRest", "open"} => result[t] = "none"

\* The attempts that were made while the loop runs.
CountKnown == \A t \in Threads : pc[t] \in {"attempt", "drain", "undo"} => cnt[t] < 3

\* The inductive invariant.
IInv == /\ TypeOK /\ HandleValid /\ OpenHoldsGv /\ EntryHasOneOwner
        /\ CountKnown /\ LinkKnown

USE TableAssumption

-----------------------------------------------------------------------------
\* An entry index is a natural number, never the -1 of a free entry.
LEMMA SocketsNat == Sockets \subseteq Nat /\ -1 \notin Sockets
  BY DEF Sockets

\* The inductive invariant holds at the start.
LEMMA InitIInv == Init => IInv
  BY SocketsNat DEF Init, IInv, TypeOK, HandleValid, OpenHoldsGv, EntryHasOneOwner,
     CountKnown, LinkKnown, Owns, Holding, Labels

\* A step of an owner that stays the owner, and writes no id, keeps the handles,
\* the mutex and the owners as they are.
LEMMA OwnerStep ==
  ASSUME IInv, NEW t \in Threads, NEW l \in Holding \ {"setRest"},
         pc[t] \in Holding, pc' = [pc EXCEPT ![t] = l],
         handle' = handle, gv' = gv \/ pc[t] = "setRest",
         \A i \in Sockets : sock'[i].id = sock[i].id
  PROVE  HandleValid' /\ OpenHoldsGv' /\ EntryHasOneOwner'
<1> USE DEF IInv, TypeOK
<1>1. \A u \in Threads : pc'[u] \in Holding <=> pc[u] \in Holding
  OBVIOUS
<1>2. \A u \in Threads : pc'[u] \in {"out", "scan", "setId", "setRest"} =>
                           u # t /\ pc'[u] = pc[u]
  BY DEF Holding
<1>3. HandleValid'
  BY <1>2 DEF HandleValid, Holding
<1>4. \A u \in Threads : pc'[u] \in {"scan", "setId", "setRest"} => gv' = gv
  BY <1>2, TableAssumption DEF OpenHoldsGv
<1>5. OpenHoldsGv'
  BY <1>2, <1>4 DEF OpenHoldsGv, HandleValid
<1>6. \A u \in Threads, i \in Sockets : Owns(u, i)' <=> Owns(u, i)
  BY <1>1 DEF Owns
<1>7. EntryHasOneOwner'
  BY <1>6 DEF EntryHasOneOwner
<1> QED  BY <1>3, <1>5, <1>7

\* What is written to the fields of an entry but its id.
LEMMA RestTyped ==
  ASSUME TypeOK, NEW k \in Sockets, NEW t \in Threads,
         NEW e \in {Reset(sock[k]), Attached(sock[k], t), Connected(sock[k])},
         sock' = [sock EXCEPT ![k] = e]
  PROVE  /\ sock' \in [Sockets -> [id : Sockets \cup {-1}, connected : BOOLEAN,
                                   callback : Threads \cup {NoThread}]]
         /\ \A i \in Sockets : sock'[i].id = sock[i].id
<1>1. /\ e \in [id : Sockets \cup {-1}, connected : BOOLEAN,
                callback : Threads \cup {NoThread}]
      /\ e.id = sock[k].id
  <2>1. sock[k] \in [id : Sockets \cup {-1}, connected : BOOLEAN,
                     callback : Threads \cup {NoThread}]
    BY DEF TypeOK
  <2>2. CASE e = Reset(sock[k])  BY <2>1, <2>2 DEF Reset
  <2>3. CASE e = Attached(sock[k], t)  BY <2>1, <2>3 DEF Attached
  <2>4. CASE e = Connected(sock[k])  BY <2>1, <2>4 DEF Connected
  <2> QED  BY <2>2, <2>3, <2>4
<1> QED  BY <1>1 DEF TypeOK

\* What an owner writes to its entry are not ids.
LEMMA OwnerActions ==
  ASSUME IInv, NEW t \in Threads,
         \/ OpenSetRest(t) \/ Attach(t) \/ ConnectBegin(t) \/ AttemptLinked(t)
         \/ AttemptFailed(t) \/ Drain(t) \/ Undo(t) \/ Decide(t) \/ CloseBegin(t)
         \/ CloseLock(t) \/ CloseLink(t)
  PROVE  TypeOK' /\ HandleValid' /\ OpenHoldsGv' /\ EntryHasOneOwner'
<1> USE DEF IInv
<1>1. pc[t] \in Holding /\ handle[t] \in Sockets
  BY DEF HandleValid, Holding, OpenSetRest, Attach, ConnectBegin, AttemptLinked,
         AttemptFailed, Drain, Undo, Decide, CloseBegin, CloseLock, CloseLink
<1>2. /\ sock' \in [Sockets -> [id : Sockets \cup {-1}, connected : BOOLEAN,
                                callback : Threads \cup {NoThread}]]
      /\ \A i \in Sockets : sock'[i].id = sock[i].id
  <2>1. CASE sock' = sock  BY <2>1 DEF TypeOK
  <2>2. CASE sock' = [sock EXCEPT ![handle[t]] = Reset(sock[handle[t]])]
    BY <1>1, <2>2, RestTyped
  <2>3. CASE sock' = [sock EXCEPT ![handle[t]] = Attached(sock[handle[t]], t)]
    BY <1>1, <2>3, RestTyped
  <2>4. CASE sock' = [sock EXCEPT ![handle[t]] = Connected(sock[handle[t]])]
    BY <1>1, <2>4, RestTyped
  <2> QED
    BY <1>1, <2>1, <2>2, <2>3, <2>4
    DEF TypeOK, OpenSetRest, Attach, ConnectBegin, AttemptLinked, AttemptFailed, Drain,
        Undo, Decide, CloseBegin, CloseLock, CloseLink
<1>3. TypeOK'
  <2> USE <1>1 DEF TypeOK, Goto, Labels, Holding
  <2>1. CASE OpenSetRest(t)  BY <2>1, <1>2 DEF OpenSetRest
  <2>2. CASE Attach(t)  BY <2>2, <1>2 DEF Attach
  <2>3. CASE ConnectBegin(t)  BY <2>3 DEF ConnectBegin
  <2>4. CASE AttemptLinked(t)  BY <2>4 DEF AttemptLinked
  <2>5. CASE AttemptFailed(t)  BY <2>5 DEF AttemptFailed
  <2>6. CASE Drain(t)  BY <2>6 DEF Drain, CountKnown
  <2>7. CASE Undo(t)
    <3>1. cnt[t] < 3 /\ cnt[t] + 1 \in 0..3  BY <2>7 DEF Undo, CountKnown
    <3>2. cnt' \in [Threads -> 0..3]  BY <2>7, <3>1 DEF Undo
    <3>3. linked' \in [Sockets -> BOOLEAN]  BY <2>7 DEF Undo
    <3>4. faults' \in 0..MAX_FAULTS  BY <2>7, TableAssumption DEF Undo
    <3>5. pc' \in [Threads -> Labels]  BY <2>7 DEF Undo
    <3>6. UNCHANGED <<sock, gv, txrx, handle, result>>  BY <2>7 DEF Undo
    <3> QED  BY <3>2, <3>3, <3>4, <3>5, <3>6
  <2>8. CASE Decide(t)
    <3>2. sock' \in [Sockets -> [id : Sockets \cup {-1}, connected : BOOLEAN,
                                callback : Threads \cup {NoThread}]]
      BY <1>2
    <3>3. result' \in [Threads -> {"none", "ok", "error"}]  BY <2>8 DEF Decide
    <3>4. pc' \in [Threads -> Labels]  BY <2>8 DEF Decide
    <3>5. UNCHANGED <<linked, gv, txrx, handle, cnt, faults>>  BY <2>8 DEF Decide
    <3> QED  BY <3>2, <3>3, <3>4, <3>5
  <2>9. CASE CloseBegin(t)  BY <2>9 DEF CloseBegin
  <2>10. CASE CloseLock(t)  BY <2>10 DEF CloseLock
  <2>11. CASE CloseLink(t)
    <3>1. linked' \in [Sockets -> BOOLEAN]  BY <2>11 DEF CloseLink
    <3>2. faults' \in 0..MAX_FAULTS  BY <2>11, TableAssumption DEF CloseLink
    <3>3. pc' \in [Threads -> Labels]  BY <2>11 DEF CloseLink
    <3>4. UNCHANGED <<sock, gv, txrx, handle, cnt, result>>  BY <2>11 DEF CloseLink
    <3> QED  BY <3>1, <3>2, <3>3, <3>4
  <2> QED  BY <2>1, <2>2, <2>3, <2>4, <2>5, <2>6, <2>7, <2>8, <2>9, <2>10, <2>11
<1>4. \E l \in Holding \ {"setRest"} : pc' = [pc EXCEPT ![t] = l]
  BY DEF Goto, Holding, OpenSetRest, Attach, ConnectBegin, AttemptLinked,
         AttemptFailed, Drain, Undo, Decide, CloseBegin, CloseLock, CloseLink
<1>5. handle' = handle /\ (gv' = gv \/ pc[t] = "setRest")
  BY DEF OpenSetRest, Attach, ConnectBegin, AttemptLinked,
         AttemptFailed, Drain, Undo, Decide, CloseBegin, CloseLock, CloseLink
<1> QED  BY <1>1, <1>2, <1>3, <1>4, <1>5, OwnerStep

\* socket_open up to the choice of an entry.
LEMMA OpenActions ==
  ASSUME IInv, NEW t \in Threads, OpenLock(t) \/ OpenFound(t) \/ OpenNone(t)
  PROVE  TypeOK' /\ HandleValid' /\ OpenHoldsGv' /\ EntryHasOneOwner'
<1> USE DEF IInv, TypeOK, Goto, Labels, Holding
<1>1. \A u \in Threads, i \in Sockets : Owns(u, i)' <=> Owns(u, i)
  BY DEF Owns, OpenLock, OpenFound, OpenNone
<1>2. sock' = sock
  BY DEF OpenLock, OpenFound, OpenNone
<1>3. EntryHasOneOwner'
  BY <1>1, <1>2 DEF EntryHasOneOwner
<1>4. CASE OpenLock(t)
  BY <1>3, <1>4, TableAssumption DEF OpenLock, HandleValid, OpenHoldsGv
<1>5. CASE OpenFound(t)
  BY <1>3, <1>5 DEF OpenFound, HandleValid, OpenHoldsGv, IsFirstFree
<1>6. CASE OpenNone(t)
  BY <1>3, <1>6, TableAssumption DEF OpenNone, HandleValid, OpenHoldsGv
<1> QED  BY <1>4, <1>5, <1>6

\* socket_open takes the entry it has chosen: no other thread owns it, as it is
\* free, and no other socket_open has chosen it, as that would hold the mutex.
LEMMA TakeAction ==
  ASSUME IInv, NEW t \in Threads, OpenSetId(t)
  PROVE  TypeOK' /\ HandleValid' /\ OpenHoldsGv' /\ EntryHasOneOwner'
<1> USE DEF IInv, OpenSetId
<1> DEFINE k == handle[t]
<1>1. k \in Sockets /\ pc[t] = "setId" /\ handle' = handle /\ gv' = gv
  BY DEF HandleValid
<1>2. sock[k].id = -1 /\ \A u \in Threads : ~Owns(u, k)
  BY <1>1, SocketsNat DEF OpenHoldsGv, EntryHasOneOwner
<1>3. /\ sock'[k].id = k
      /\ \A i \in Sockets \ {k} : sock'[i] = sock[i]
  BY <1>1 DEF TypeOK
<1>4. pc' = [pc EXCEPT ![t] = "setRest"]
  BY DEF Goto
<1>5. TypeOK'
  BY <1>1 DEF TypeOK, Goto, Labels, Holding
<1>6. HandleValid'
  BY <1>1, <1>4 DEF HandleValid, TypeOK
<1>7. OpenHoldsGv'
  BY <1>1, <1>3, <1>4 DEF OpenHoldsGv, HandleValid, TypeOK
<1>8. \A u \in Threads, i \in Sockets : Owns(u, i)' <=> Owns(u, i) \/ (u = t /\ i = k)
  BY <1>1, <1>4 DEF Owns, TypeOK, Holding
<1>9. EntryHasOneOwner'
  BY <1>2, <1>3, <1>8 DEF EntryHasOneOwner
<1> QED  BY <1>5, <1>6, <1>7, <1>9

\* socket_close gives up an entry of its own thread.
LEMMA GiveAction ==
  ASSUME IInv, NEW t \in Threads, CloseFree(t)
  PROVE  TypeOK' /\ HandleValid' /\ OpenHoldsGv' /\ EntryHasOneOwner'
<1> USE DEF IInv, CloseFree
<1> DEFINE k == handle[t]
<1>1. k \in Sockets /\ Owns(t, k) /\ handle' = handle /\ gv' = gv
  BY DEF HandleValid, Owns, Holding
<1>2. \A u \in Threads : Owns(u, k) => u = t
  BY <1>1 DEF EntryHasOneOwner
<1>3. /\ sock'[k].id = -1
      /\ \A i \in Sockets \ {k} : sock'[i] = sock[i]
  BY <1>1 DEF TypeOK
<1>4. pc' = [pc EXCEPT ![t] = "closeRest"]
  BY DEF Goto
<1>5. TypeOK'
  BY <1>1 DEF TypeOK, Goto, Labels, Holding
<1>6. HandleValid'
  BY <1>1, <1>4 DEF HandleValid, TypeOK
<1>7. OpenHoldsGv'
  BY <1>1, <1>3, <1>4 DEF OpenHoldsGv, HandleValid, TypeOK
<1>8. \A u \in Threads, i \in Sockets : Owns(u, i)' <=> Owns(u, i) /\ u # t
  BY <1>1, <1>4 DEF Owns, TypeOK, Holding
<1>9. ASSUME NEW i \in Sockets
      PROVE  /\ sock'[i].id = (IF \E u \in Threads : Owns(u, i)' THEN i ELSE -1)
             /\ \A u, v \in Threads : Owns(u, i)' /\ Owns(v, i)' => u = v
  <2>1. CASE i = k  BY <1>2, <1>3, <1>8, <2>1
  <2>2. CASE i # k
    <3>1. ~Owns(t, i)  BY <2>2 DEF Owns
    <3>2. \A u \in Threads : Owns(u, i)' <=> Owns(u, i)  BY <1>8, <3>1
    <3> QED  BY <1>3, <2>2, <3>2 DEF EntryHasOneOwner
  <2> QED  BY <2>1, <2>2
<1>10. EntryHasOneOwner'
  BY <1>9 DEF EntryHasOneOwner
<1> QED  BY <1>5, <1>6, <1>7, <1>10

\* What socket_close writes to an entry it has given up is not its id.
LEMMA RestAction ==
  ASSUME IInv, NEW t \in Threads, CloseRest(t)
  PROVE  TypeOK' /\ HandleValid' /\ OpenHoldsGv' /\ EntryHasOneOwner'
<1> USE DEF IInv, CloseRest
<1>1. handle[t] \in Sockets /\ gv' = gv /\ pc' = [pc EXCEPT ![t] = "out"]
  BY DEF HandleValid, Goto
<1>10. sock' = [sock EXCEPT ![handle[t]] = Reset(sock[handle[t]])]
  BY <1>1 DEF TypeOK
<1>2. \A i \in Sockets : sock'[i].id = sock[i].id
  BY <1>1, <1>10, RestTyped
<1>11. sock' \in [Sockets -> [id : Sockets \cup {-1}, connected : BOOLEAN,
                             callback : Threads \cup {NoThread}]]
  BY <1>1, <1>10, RestTyped
<1>3. TypeOK'
  BY <1>1, <1>11 DEF TypeOK, Labels, Holding
<1>4. \A u \in Threads : u # t => pc'[u] = pc[u] /\ handle'[u] = handle[u]
  BY <1>1 DEF TypeOK
<1>5. pc'[t] = "out"
  BY <1>1 DEF TypeOK
<1>6. HandleValid'
  BY <1>4, <1>5 DEF HandleValid
<1>7. OpenHoldsGv'
  BY <1>1, <1>2, <1>4, <1>5 DEF OpenHoldsGv, HandleValid
<1>8. \A u \in Threads, i \in Sockets : Owns(u, i)' <=> Owns(u, i)
  BY <1>4, <1>5 DEF Owns, Holding
<1>9. EntryHasOneOwner'
  BY <1>2, <1>8 DEF EntryHasOneOwner
<1> QED  BY <1>3, <1>6, <1>7, <1>9

-----------------------------------------------------------------------------
\* What one thread does to its own place, handle, count and result leaves those
\* of the others alone, and it changes only the link of an entry it owns.
LEMMA Locality ==
  ASSUME IInv, NEW t \in Threads, Step(t)
  PROVE  /\ \A u \in Threads \ {t} : /\ pc'[u] = pc[u] /\ handle'[u] = handle[u]
                                      /\ cnt'[u] = cnt[u] /\ result'[u] = result[u]
         /\ \A i \in Sockets : linked'[i] = linked[i] \/ Owns(t, i)
<1> USE DEF IInv, TypeOK, Goto
<1>1. CASE AttemptLinked(t) \/ Undo(t) \/ CloseLink(t)
  <2>1. Owns(t, handle[t])
    BY <1>1 DEF AttemptLinked, Undo, CloseLink, Owns, Holding
  <2> QED  BY <1>1, <2>1 DEF AttemptLinked, Undo, CloseLink
<1>2. CASE OpenLock(t) \/ OpenFound(t) \/ OpenNone(t) \/ OpenSetId(t) \/ OpenSetRest(t)
           \/ Attach(t)
  BY <1>2 DEF OpenLock, OpenFound, OpenNone, OpenSetId, OpenSetRest, Attach
<1>3. CASE ConnectBegin(t) \/ AttemptFailed(t) \/ Drain(t)
  BY <1>3 DEF ConnectBegin, AttemptFailed, Drain
<1>4. CASE Decide(t)
  BY <1>4 DEF Decide
<1>5. CASE CloseBegin(t) \/ CloseLock(t) \/ CloseFree(t) \/ CloseRest(t)
  BY <1>5 DEF CloseBegin, CloseLock, CloseFree, CloseRest
<1> QED  BY <1>1, <1>2, <1>3, <1>4, <1>5 DEF Step

\* The loop makes a fourth attempt in no case.
LEMMA CountAction ==
  ASSUME IInv, NEW t \in Threads, Step(t)
  PROVE  CountKnown'
<1> USE DEF IInv, TypeOK, Goto
<1>1. pc'[t] \in {"attempt", "drain", "undo"} => cnt'[t] < 3
  <2>1. CASE OpenLock(t) \/ OpenFound(t) \/ OpenNone(t) \/ OpenSetId(t) \/ OpenSetRest(t)
             \/ Attach(t)
    BY <2>1 DEF OpenLock, OpenFound, OpenNone, OpenSetId, OpenSetRest, Attach
  <2>2. CASE ConnectBegin(t) \/ Undo(t)
    BY <2>2 DEF ConnectBegin, Undo
  <2>3. CASE AttemptLinked(t) \/ AttemptFailed(t) \/ Drain(t)
    BY <2>3 DEF AttemptLinked, AttemptFailed, Drain, CountKnown
  <2>4. CASE Decide(t) \/ CloseBegin(t) \/ CloseLock(t) \/ CloseLink(t) \/ CloseFree(t)
             \/ CloseRest(t)
    BY <2>4 DEF Decide, CloseBegin, CloseLock, CloseLink, CloseFree, CloseRest
  <2> QED  BY <2>1, <2>2, <2>3, <2>4 DEF Step
<1> QED  BY <1>1, Locality DEF CountKnown

\* What LinkKnown says of one thread.
LinkOf(t) == /\ pc[t] = "drain" => linked[handle[t]]
             /\ pc[t] = "decide" /\ cnt[t] < 3 => linked[handle[t]]
             /\ pc[t] = "ready" /\ result[t] = "ok" => linked[handle[t]]
             /\ pc[t] \in {"out", "scan", "setId", "setRest", "open"} => result[t] = "none"

\* The link a thread knows of is that of an entry it owns, so no other thread
\* has taken it down.
LEMMA LinkAction ==
  ASSUME IInv, NEW t \in Threads, Step(t)
  PROVE  LinkKnown'
<1> USE DEF IInv
<1>1. ASSUME NEW u \in Threads \ {t}
      PROVE  LinkOf(u)'
  <2>1. LinkOf(u)  BY DEF LinkKnown, LinkOf
  <2>2. pc[u] \in {"drain", "decide", "ready"} => handle[u] \in Sockets /\ Owns(u, handle[u])
    BY DEF HandleValid, Owns, Holding
  <2>3. pc[u] \in {"drain", "decide", "ready"} => ~Owns(t, handle[u])
    BY <2>2 DEF EntryHasOneOwner
  <2>4. pc[u] \in {"drain", "decide", "ready"} => linked'[handle[u]] = linked[handle[u]]
    BY <2>2, <2>3, Locality
  <2> QED  BY <2>1, <2>4, Locality DEF LinkOf
<1>2. LinkOf(t)'
  <2> USE DEF TypeOK, Goto, LinkOf
  <2>1. LinkOf(t)  BY DEF LinkKnown
  <2>2. CASE OpenLock(t) \/ OpenFound(t) \/ OpenNone(t) \/ OpenSetId(t) \/ OpenSetRest(t)
             \/ Attach(t)
    BY <2>1, <2>2 DEF OpenLock, OpenFound, OpenNone, OpenSetId, OpenSetRest, Attach
  <2>3. CASE ConnectBegin(t)  BY <2>3 DEF ConnectBegin
  <2>4. CASE AttemptLinked(t)
    <3>1. handle[t] \in Sockets  BY <2>4 DEF AttemptLinked, HandleValid
    <3> QED  BY <2>4, <3>1 DEF AttemptLinked
  <2>5. CASE AttemptFailed(t)  BY <2>5 DEF AttemptFailed
  <2>6. CASE Drain(t)  BY <2>1, <2>6 DEF Drain
  <2>7. CASE Undo(t)  BY <2>7 DEF Undo, CountKnown
  <2>8. CASE Decide(t)  BY <2>1, <2>8 DEF Decide
  <2>9. CASE CloseBegin(t) \/ CloseLock(t) \/ CloseLink(t) \/ CloseFree(t) \/ CloseRest(t)
    BY <2>9 DEF CloseBegin, CloseLock, CloseLink, CloseFree, CloseRest
  <2> QED  BY <2>2, <2>3, <2>4, <2>5, <2>6, <2>7, <2>8, <2>9 DEF Step
<1>3. \A u \in Threads : LinkOf(u)'
  BY <1>1, <1>2
<1> QED  BY <1>3 DEF LinkKnown, LinkOf

-----------------------------------------------------------------------------
\* IInv holds in every reachable state.
THEOREM AlwaysIInv == Spec => []IInv
<1>1. IInv /\ [Next]_vars => IInv'
  <2> SUFFICES ASSUME IInv, [Next]_vars PROVE IInv'
    OBVIOUS
  <2>1. CASE Next
    <3>1. PICK t \in Threads : Step(t)
      BY <2>1 DEF Next
    <3>2. CountKnown' /\ LinkKnown'
      BY <3>1, CountAction, LinkAction
    <3>3. TypeOK' /\ HandleValid' /\ OpenHoldsGv' /\ EntryHasOneOwner'
      BY <3>1, OpenActions, TakeAction, GiveAction, RestAction, OwnerActions DEF Step
    <3> QED  BY <3>2, <3>3 DEF IInv
  <2>2. CASE UNCHANGED vars
    BY <2>2 DEF vars, IInv, TypeOK, HandleValid, OpenHoldsGv, EntryHasOneOwner, Owns,
                CountKnown, LinkKnown
  <2> QED  BY <2>1, <2>2
<1> QED  BY InitIInv, <1>1, PTL DEF Spec

\* The types of the table, and at most three attempts per socket_connect.
THEOREM TypeCorrect == Spec => []TypeOK
<1>1. IInv => TypeOK
  BY DEF IInv
<1> QED  BY AlwaysIInv, <1>1, PTL

\* socket_open and socket_close, under different mutexes, never give an entry of
\* g_sock to two threads, nor lose one.
THEOREM EntryOwnership == Spec => []EntryHasOneOwner
<1>1. IInv => EntryHasOneOwner
  BY DEF IInv
<1> QED  BY AlwaysIInv, <1>1, PTL

\* An NSAPI_ERROR_OK of socket_connect means that the modem has the link.
THEOREM ConnectReturn == Spec => []OkHasLink
<1>1. IInv => OkHasLink
  BY DEF IInv, LinkKnown, OkHasLink
<1> QED  BY AlwaysIInv, <1>1, PTL
=============================================================================
