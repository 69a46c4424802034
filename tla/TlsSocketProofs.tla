-------------------------- MODULE TlsSocketProofs --------------------------
(***************************************************************************)
(* Proofs about TlsSocket for every number of certificates and faults.     *)
(*                                                                         *)
(* A call works on its files one by one, and never on one it has stored:   *)
(* what is stored when a file is done is still so when the call returns.   *)
(* The timer thread runs, or may begin, only while recv does: recv starts  *)
(* it and does not return before it is terminated.                         *)
(***************************************************************************)
EXTENDS TlsSocket, SequenceTheorems, TLAPS

Certs   == -CERTS..CERTS
Storing == {"exists", "delete", "upload", "configure"}
Receiving == {"loop", "read", "stop"}
Places  == Storing \cup Receiving \cup {"rest"}

\* The lists of files that the calls start with.
Lists == {<<"cacert">>, <<"clientcert">>, <<"privkey">>, <<"clientcert", "privkey">>}

AppOK == app \in [at : Places, todo : Seq(Kinds), cert : 0..CERTS, stored : Seq(Kinds),
                  cnt : {-1, 0, 1}, ret : {TIMEOUT, -1, 0, 1}, timed : BOOLEAN]

FilesOK == /\ file \in [Kinds -> Certs]
           /\ path \in [Contexts -> [Settings -> Kinds \cup {NoFile}]]
           /\ sslctx_id \in Contexts

RestOK == /\ timeout_ovf \in BOOLEAN
          /\ timer \in {"new", "ready", "waiting", "ended"}
          /\ link \in BOOLEAN /\ inbox \in BOOLEAN
          /\ faults \in Nat /\ faults <= MAX_FAULTS

\* What is stored and what is left to do are one of the lists, cut in two.
PlanOK ==
    /\ app.at \in Storing => \/ app.stored = <<>> /\ app.todo \in Lists
                             \/ app.stored = <<"clientcert">> /\ app.todo = <<"privkey">>
    /\ app.at \notin Storing => app.todo = <<>> /\ app.stored \in Lists \cup {<<>>}

\* The timer thread is alive only while recv runs.
TimerOK == timer \in {"ready", "waiting"} => app.at \in Receiving

\* What the call has stored is in its file, whole or not, and without a fault named.
StoredOK ==
    /\ app.at = "configure" => /\ file[Kind] \in {app.cert, -app.cert}
                               /\ faults = 0 => file[Kind] = app.cert
    /\ \A i \in DOMAIN app.stored :
         LET kind == app.stored[i] IN
         /\ file[kind] \in {app.cert, -app.cert}
         /\ faults = 0 => file[kind] = app.cert
         /\ faults = 0 /\ kind # "privkey" /\ i = Len(app.stored)
                => path[sslctx_id][kind] = kind

\* The inductive invariant.
IInv == AppOK /\ FilesOK /\ RestOK /\ PlanOK /\ TimerOK /\ StoredOK

-----------------------------------------------------------------------------
\* The lists are sequences of kinds.
LEMMA ListsAreSeq == Lists \cup {<<>>} \subseteq Seq(Kinds)
  BY DEF Lists, Kinds

\* The types of the specification.
LEMMA IInvTypeOK == IInv => TypeOK
<1> SUFFICES ASSUME IInv  PROVE TypeOK
  OBVIOUS
<1>1. app.cnt \in -1..1 /\ faults \in 0..MAX_FAULTS
  BY BoundAssumption DEF IInv, AppOK, RestOK
<1>2. /\ app.at \in Places /\ app.todo \in Seq(Kinds) /\ app.stored \in Seq(Kinds)
      /\ app.cert \in 0..CERTS /\ app.ret \in {TIMEOUT, -1, 0, 1} /\ app.timed \in BOOLEAN
  BY DEF IInv, AppOK
<1> QED
  BY <1>1, <1>2, Zenon DEF IInv, FilesOK, RestOK, TypeOK, Places, Storing, Receiving, Certs

\* The inductive invariant holds at the start.
LEMMA InitIInv == Init => IInv
<1> SUFFICES ASSUME Init  PROVE IInv
  OBVIOUS
<1> USE BoundAssumption DEF Init, Rests, NoCert
<1>1. <<>> \in Seq(Kinds) /\ 0 \in 0..CERTS /\ 0 \in Certs
  BY DEF Certs
<1>2. AppOK  BY <1>1 DEF AppOK, Places, TIMEOUT
<1>3. FilesOK  BY <1>1 DEF FilesOK, Contexts
<1>4. RestOK
  <2>1. faults \in Nat /\ faults <= MAX_FAULTS  OBVIOUS
  <2> QED  BY <2>1 DEF RestOK
<1>5. PlanOK  BY DEF PlanOK, Storing
<1>6. TimerOK  BY DEF TimerOK, Storing
<1>7. StoredOK  BY DEF StoredOK
<1> QED  BY <1>2, <1>3, <1>4, <1>5, <1>6, <1>7 DEF IInv

\* What the steps of a call leave of the application.
LEMMA AppMoves ==
  ASSUME AppOK
  PROVE  /\ \A at \in Places :
              Goes(at) => /\ AppOK' /\ app'.at = at
                          /\ app'.todo = app.todo /\ app'.stored = app.stored
                          /\ app'.cert = app.cert /\ app'.cnt = app.cnt
                          /\ app'.ret = app.ret
         /\ Fails => /\ AppOK' /\ app'.at = "rest"
                     /\ app'.todo = <<>> /\ app'.stored = <<>> /\ app'.cnt = app.cnt
                     /\ app'.ret = app.ret
<1>1. ASSUME NEW at \in Places, Goes(at)
      PROVE  /\ AppOK' /\ app'.at = at
             /\ app'.todo = app.todo /\ app'.stored = app.stored
             /\ app'.cert = app.cert /\ app'.cnt = app.cnt /\ app'.ret = app.ret
  BY <1>1 DEF AppOK, Goes
<1>2. ASSUME Fails
      PROVE  /\ AppOK' /\ app'.at = "rest"
             /\ app'.todo = <<>> /\ app'.stored = <<>> /\ app'.cnt = app.cnt
             /\ app'.ret = app.ret
  <2>1. <<>> \in Seq(Kinds)  OBVIOUS
  <2> QED  BY <1>2, <2>1 DEF AppOK, Fails, Places
<1> QED  BY <1>1, <1>2

\* The file a call works on is not one that it has stored, and when it is stored
\* the rest of the list is left.
LEMMA PlanMoves ==
  ASSUME PlanOK, app.at \in Storing
  PROVE  /\ Kind \in Kinds
         /\ \A i \in DOMAIN app.stored : app.stored[i] # Kind
         /\ Append(app.stored, Kind) \in Lists
         /\ \/ Len(app.todo) = 1 /\ Tail(app.todo) = <<>>
            \/ /\ Len(app.todo) = 2 /\ Tail(app.todo) = <<"privkey">>
               /\ Append(app.stored, Kind) = <<"clientcert">>
<1> USE DEF Kind, Kinds, Lists
<1>1. CASE app.stored = <<>> /\ app.todo = <<"cacert">>  BY <1>1
<1>2. CASE app.stored = <<>> /\ app.todo = <<"clientcert">>  BY <1>2
<1>3. CASE app.stored = <<>> /\ app.todo = <<"privkey">>  BY <1>3
<1>4. CASE app.stored = <<>> /\ app.todo = <<"clientcert", "privkey">>  BY <1>4
<1>5. CASE app.stored = <<"clientcert">> /\ app.todo = <<"privkey">>
  <2>1. Kind = "privkey" /\ Len(app.todo) = 1 /\ Tail(app.todo) = <<>>  BY <1>5
  <2>2. Append(<<"clientcert">>, "privkey") = <<"clientcert", "privkey">>
    <3> DEFINE s == Append(<<"clientcert">>, "privkey")
               t == <<"clientcert", "privkey">>
    <3>1. s \in Seq(Kinds) /\ t \in Seq(Kinds) /\ Len(s) = Len(t)  BY DEF Kinds
    <3>2. \A i \in 1..Len(s) : s[i] = t[i]  OBVIOUS
    <3> HIDE DEF s, t
    <3>3. s = t  BY <3>1, <3>2, SeqEqual
    <3> QED  BY <3>3 DEF s, t
  <2>3. \A i \in DOMAIN app.stored : app.stored[i] = "clientcert"  BY <1>5
  <2> QED  BY <1>5, <2>1, <2>2, <2>3
<1> QED  BY <1>1, <1>2, <1>3, <1>4, <1>5 DEF PlanOK

\* What a call that has stored a file leaves of the application.
LEMMA StoredMove ==
  ASSUME AppOK, PlanOK, app.at \in Storing, Stored
  PROVE  /\ AppOK' /\ PlanOK'
         /\ app'.at \in {"rest", "exists"} /\ app'.stored = Append(app.stored, Kind)
         /\ app'.cert = app.cert /\ app'.cnt = app.cnt /\ app'.ret = app.ret
<1>1. /\ app' = [app EXCEPT !.at = app'.at, !.todo = Tail(app.todo),
                            !.stored = Append(app.stored, Kind)]
      /\ app'.at = IF Len(app.todo) = 1 THEN "rest" ELSE "exists"
  BY DEF Stored, AppOK
<1>2. /\ app'.todo = Tail(app.todo) /\ app'.stored = Append(app.stored, Kind)
      /\ app'.cert = app.cert /\ app'.cnt = app.cnt /\ app'.ret = app.ret
  BY <1>1 DEF AppOK
<1>3. PlanOK'
  BY <1>1, <1>2, PlanMoves DEF PlanOK, Storing, Lists
<1>4. Tail(app.todo) \in Seq(Kinds) /\ Append(app.stored, Kind) \in Seq(Kinds)
  BY <1>2, <1>3, ListsAreSeq, PlanMoves DEF Lists
<1>5. AppOK'
  BY <1>1, <1>4 DEF AppOK, Places, Storing, Receiving
<1> QED  BY <1>1, <1>2, <1>3, <1>5

\* Each call that begins.
LEMMA CallApp ==
  ASSUME AppOK, PlanOK, AppCall
  PROVE  AppOK' /\ PlanOK'
<1> USE DEF PlanOK, Storing, Receiving
<1>1. <<>> \in Seq(Kinds) /\ 0 \in 0..CERTS /\ 1..CERTS \subseteq 0..CERTS
  BY BoundAssumption
<1>2. CASE app' = Rests
  BY <1>1, <1>2 DEF Rests, NoCert, AppOK, Places
<1>3. ASSUME NEW kinds \in Lists, NEW cert \in 1..CERTS, SetCerts(kinds, cert)
      PROVE  AppOK' /\ PlanOK'
  <2>1. app' = [at |-> "exists", todo |-> kinds, cert |-> cert, stored |-> <<>>,
                cnt |-> -1, ret |-> -1, timed |-> FALSE]
    BY <1>3 DEF SetCerts, Rests
  <2>2. AppOK'  BY <1>1, <2>1, ListsAreSeq DEF AppOK, Places, Receiving
  <2> QED  BY <2>1, <2>2
<1>4. CASE Recv
  <2>1. app' = [at |-> "loop", todo |-> <<>>, cert |-> 0, stored |-> <<>>,
                cnt |-> -1, ret |-> -1, timed |-> (timer = "new")]
    BY <1>4 DEF Recv, Rests, NoCert
  <2>2. AppOK'  BY <1>1, <2>1 DEF AppOK, Places, Receiving
  <2> QED  BY <2>1, <2>2
<1> QED
  BY <1>2, <1>3, <1>4 DEF AppCall, UseForMqtt, Connect, Close, Lists

\* Each step of a call.
LEMMA StepApp ==
  ASSUME AppOK, PlanOK, AppStep
  PROVE  AppOK' /\ PlanOK'
<1> USE DEF PlanOK, Storing, Receiving
<1>1. ASSUME NEW at \in Storing, Goes(at), app.at \in Storing
      PROVE  AppOK' /\ PlanOK'
  BY <1>1, AppMoves DEF Places
<1>2. ASSUME Fails, app.at \in Storing
      PROVE  AppOK' /\ PlanOK'
  BY <1>2, AppMoves
<1>3. ASSUME Stored, app.at \in Storing
      PROVE  AppOK' /\ PlanOK'
  BY <1>3, StoredMove
<1>4. CASE FileExists
  BY <1>1, <1>4 DEF FileExists, WhenThere
<1>5. CASE DeleteFile
  BY <1>1, <1>2, <1>5 DEF DeleteFile
<1>6. CASE Upload
  BY <1>1, <1>2, <1>6 DEF Upload
<1>7. CASE Configure
  BY <1>2, <1>3, <1>7 DEF Configure
<1>8. CASE RecvLoop
  <2>1. PICK at \in {"read", "stop"} : Goes(at)
    BY <1>8 DEF RecvLoop
  <2> QED  BY <1>8, <2>1, AppMoves DEF RecvLoop, Places
<1>9. CASE RecvRead
  <2>1. PICK cnt \in {-1, 0, 1} : app' = [app EXCEPT !.at = "loop", !.cnt = cnt]
    BY <1>9, Zenon DEF RecvRead, CutRead
  <2>2. AppOK'  BY <2>1 DEF AppOK, Places
  <2>3. app'.at = "loop" /\ app'.todo = app.todo /\ app'.stored = app.stored
    BY <2>1 DEF AppOK
  <2> QED  BY <1>9, <2>2, <2>3 DEF RecvRead
<1>10. CASE RecvStop
  <2>1. app' = [app EXCEPT !.at = "rest", !.ret = Result]
    BY <1>10 DEF RecvStop
  <2>2. Result \in {TIMEOUT, -1, 0, 1}
    BY DEF Result, AppOK
  <2>3. AppOK'  BY <2>1, <2>2 DEF AppOK, Places
  <2>4. app'.at = "rest" /\ app'.todo = app.todo /\ app'.stored = app.stored
    BY <2>1 DEF AppOK
  <2> QED  BY <1>10, <2>3, <2>4 DEF RecvStop
<1> QED
  BY <1>4, <1>5, <1>6, <1>7, <1>8, <1>9, <1>10 DEF AppStep

\* Each step keeps the timer thread to recv.
LEMMA NextTimer ==
  ASSUME AppOK, TimerOK, Next
  PROVE  TimerOK'
<1> USE DEF TimerOK
<1>1. ASSUME UNCHANGED timer, app.at \notin Receiving  PROVE TimerOK'
  BY <1>1
<1>2. CASE AppCall
  <2>1. app.at = "rest"
    BY <1>2 DEF AppCall, SetCerts, UseForMqtt, Connect, Close, Recv
  <2>2. CASE Recv
    BY <2>2 DEF Recv, Rests, Receiving
  <2>3. CASE ~Recv
    BY <1>1, <1>2, <2>1, <2>3 DEF AppCall, SetCerts, UseForMqtt, Connect, Close, Receiving
  <2> QED  BY <2>2, <2>3
<1>3. CASE FileExists \/ DeleteFile \/ Upload \/ Configure
  BY <1>1, <1>3 DEF FileExists, DeleteFile, Upload, Configure, Receiving
<1>4. CASE RecvLoop
  BY <1>4 DEF RecvLoop, Goes, AppOK, Receiving
<1>5. CASE RecvRead
  <2>1. PICK cnt \in {0, 1, CutRead} : app' = [app EXCEPT !.at = "loop", !.cnt = cnt]
    BY <1>5, Zenon DEF RecvRead
  <2> QED  BY <2>1 DEF AppOK, Receiving
<1>6. CASE RecvStop
  BY <1>6 DEF RecvStop, TimerTerminated
<1>7. CASE Timer \/ Arrive
  BY <1>7 DEF Timer, TimerBegins, TimerFires, Arrive
<1> QED
  BY <1>2, <1>3, <1>4, <1>5, <1>6, <1>7 DEF Next, AppStep

\* Only the timer thread touches the flag.
LEMMA OnlyTimerFlags ==
  ASSUME TimerOK, [Next]_vars, timeout_ovf' # timeout_ovf
  PROVE  app.at \in Receiving
<1>1. CASE TimerBegins \/ TimerFires
  BY <1>1 DEF TimerBegins, TimerFires, TimerOK
<1>2. CASE ~(TimerBegins \/ TimerFires)
  BY <1>2 DEF vars, Next, AppCall, SetCerts, UseForMqtt, Connect, Close, Recv, AppStep,
     FileExists, DeleteFile, Upload, Configure, RecvLoop, RecvRead, RecvStop, Timer, Arrive
<1> QED  BY <1>1, <1>2

\* Each step keeps the types of the timer, of the link and of the faults.
LEMMA NextRest ==
  ASSUME RestOK, Next
  PROVE  RestOK' /\ faults' >= faults
<1>1. UNCHANGED faults \/ Fault
  BY DEF Next, AppCall, SetCerts, UseForMqtt, Connect, Close, Recv, AppStep, FileExists,
     DeleteFile, Upload, Configure, RecvLoop, RecvRead, RecvStop, Timer, TimerBegins,
     TimerFires, Arrive, modemVars
<1>2. faults' \in Nat /\ faults' <= MAX_FAULTS /\ faults' >= faults
  BY <1>1, BoundAssumption DEF Fault, RestOK
<1>3. /\ timeout_ovf' \in BOOLEAN
      /\ timer' \in {"new", "ready", "waiting", "ended"}
  BY DEF RestOK, Next, AppCall, SetCerts, UseForMqtt, Connect, Close, Recv, AppStep,
     FileExists, DeleteFile, Upload, Configure, RecvLoop, RecvRead, RecvStop, TimerTerminated,
     Timer, TimerBegins, TimerFires, FlagWhenLate, Arrive, modemVars
<1>4. link' \in BOOLEAN /\ inbox' \in BOOLEAN
  BY DEF RestOK, Next, AppCall, SetCerts, UseForMqtt, Connect, Close, Recv, AppStep,
     FileExists, DeleteFile, Upload, Configure, RecvLoop, RecvRead, RecvStop, Timer,
     TimerBegins, TimerFires, Arrive, modemVars
<1> QED  BY <1>2, <1>3, <1>4 DEF RestOK

\* Each step keeps the types of the files and of the contexts.
LEMMA NextFiles ==
  ASSUME AppOK, PlanOK, FilesOK, Next
  PROVE  FilesOK'
<1>0. UNCHANGED <<file, path, sslctx_id>> => FilesOK'
  BY DEF FilesOK
<1>1. ASSUME NEW cert \in Certs, app.at \in Storing
      PROVE  [file EXCEPT ![Kind] = cert] \in [Kinds -> Certs]
  BY <1>1, PlanMoves DEF FilesOK
<1>2. app.cert \in Certs /\ -app.cert \in Certs /\ NoCert \in Certs
  BY BoundAssumption DEF AppOK, NoCert, Certs
<1>3. CASE UseForMqtt
  BY <1>3 DEF UseForMqtt, modemVars, FilesOK, Contexts
<1>4. CASE DeleteFile
  <2>1. file' \in {file, [file EXCEPT ![Kind] = NoCert]} /\ UNCHANGED <<path, sslctx_id>>
    BY <1>4 DEF DeleteFile
  <2> QED  BY <1>1, <1>2, <1>4, <2>1 DEF DeleteFile, FilesOK, Storing
<1>5. CASE Upload
  <2>1. /\ file' \in {file, [file EXCEPT ![Kind] = app.cert],
                      [file EXCEPT ![Kind] = -app.cert]}
        /\ UNCHANGED <<path, sslctx_id>>
    BY <1>5 DEF Upload
  <2> QED  BY <1>1, <1>2, <1>5, <2>1 DEF Upload, FilesOK, Storing
<1>6. CASE Configure
  <2>1. /\ path' \in {path, [path EXCEPT ![sslctx_id][SettingOf(Kind)] = Kind]}
        /\ UNCHANGED <<file, sslctx_id>>
    BY <1>6 DEF Configure
  <2>2. Kind \in Kinds /\ SettingOf(Kind) \in Settings
    BY <1>6, PlanMoves DEF Configure, SettingOf, Settings, Storing
  <2> QED  BY <2>1, <2>2 DEF FilesOK
<1>7. CASE ~(UseForMqtt \/ DeleteFile \/ Upload \/ Configure)
  BY <1>0, <1>7 DEF Next, AppCall, SetCerts, Connect, Close, Recv, AppStep, FileExists,
     RecvLoop, RecvRead, RecvStop, Timer, TimerBegins, TimerFires, Arrive,
     modemVars
<1> QED  BY <1>3, <1>4, <1>5, <1>6, <1>7

\* What is stored stays so in a step that leaves the application, or the files and
\* what was stored, as they are.
LEMMA StoredUntouched ==
  ASSUME AppOK, RestOK, StoredOK, faults' \in Nat, faults' >= faults,
         UNCHANGED <<file, path, sslctx_id>>,
         app'.stored \in {app.stored, <<>>},
         app'.stored = app.stored => app'.cert = app.cert \/ app.stored = <<>>,
         app'.at = "configure" => UNCHANGED app
  PROVE  StoredOK'
<1>1. faults' = 0 => faults = 0
  BY DEF RestOK
<1>2. CASE app'.stored = <<>>
  BY <1>1, <1>2 DEF StoredOK, Kind
<1>3. CASE app'.stored = app.stored /\ app.stored # <<>>
  BY <1>1, <1>3 DEF StoredOK, Kind
<1> QED  BY <1>2, <1>3

\* Each step of a call that works on files keeps what is stored.
LEMMA FileStepStored ==
  ASSUME AppOK, FilesOK, RestOK, PlanOK, StoredOK, AppOK', RestOK', faults' >= faults,
         FileExists \/ DeleteFile \/ Upload \/ Configure
  PROVE  StoredOK'
<1>0. app.at \in Storing
  BY DEF FileExists, DeleteFile, Upload, Configure, Storing
<1>1. faults' = 0 => faults = 0
  BY DEF RestOK
<1>2. ASSUME Fails  PROVE StoredOK'
  BY <1>2, AppMoves DEF StoredOK
<1>3. CASE FileExists
  <2>1. PICK at \in {"delete", "upload"} : Goes(at)
    BY <1>3 DEF FileExists, WhenThere
  <2>2. /\ app'.at = at /\ app'.stored = app.stored /\ app'.cert = app.cert
    BY <2>1, AppMoves DEF Places, Storing, Receiving
  <2>3. UNCHANGED <<file, path, sslctx_id>>
    BY <1>3 DEF FileExists, modemVars
  <2> QED  BY <2>1, <2>2, <2>3, StoredUntouched DEF RestOK
<1>4. CASE DeleteFile /\ ~Fails
  <2>1. Goes("upload") /\ file' = [file EXCEPT ![Kind] = NoCert]
        /\ UNCHANGED <<path, sslctx_id>>
    BY <1>4 DEF DeleteFile
  <2>2. /\ app'.at = "upload" /\ app'.stored = app.stored /\ app'.cert = app.cert
    BY <2>1, AppMoves DEF Places, Storing, Receiving
  <2>3. \A i \in DOMAIN app.stored : file'[app.stored[i]] = file[app.stored[i]]
    BY <1>0, <2>1, PlanMoves DEF FilesOK
  <2> QED  BY <1>1, <2>1, <2>2, <2>3 DEF StoredOK
<1>5. CASE Upload /\ ~Fails
  <2>1. /\ Goes("configure") /\ UNCHANGED <<path, sslctx_id>>
        /\ \/ file' = [file EXCEPT ![Kind] = app.cert]
           \/ file' = [file EXCEPT ![Kind] = -app.cert] /\ Fault
    BY <1>5 DEF Upload
  <2>2. /\ app'.at = "configure" /\ app'.stored = app.stored /\ app'.cert = app.cert
        /\ app'.todo = app.todo
    BY <2>1, AppMoves DEF Places, Storing
  <2>3. \A i \in DOMAIN app.stored : file'[app.stored[i]] = file[app.stored[i]]
    <3>1. PICK cert \in {app.cert, -app.cert} : file' = [file EXCEPT ![Kind] = cert]
      BY <2>1
    <3> QED  BY <1>0, <3>1, PlanMoves DEF FilesOK
  <2>4. /\ file'[Kind] \in {app.cert, -app.cert} /\ Kind' = Kind
        /\ file'[Kind] = app.cert \/ Fault
    BY <1>0, <2>1, <2>2, PlanMoves DEF FilesOK, Kind
  <2>5. faults' = 0 => ~Fault  BY DEF Fault, RestOK
  <2> QED  BY <1>1, <2>1, <2>2, <2>3, <2>4, <2>5 DEF StoredOK
<1>6. CASE Configure /\ ~Fails
  <2> DEFINE named == [path EXCEPT ![sslctx_id][SettingOf(Kind)] = Kind]
  <2>1. /\ Stored /\ UNCHANGED <<file, sslctx_id>> /\ app.at = "configure"
        /\ path' = named \/ Fault
    BY <1>6 DEF Configure
  <2>2. /\ app'.at \in {"rest", "exists"} /\ app'.stored = Append(app.stored, Kind)
        /\ app'.cert = app.cert
    BY <1>0, <2>1, StoredMove
  <2>3. file[Kind] \in {app.cert, -app.cert} /\ (faults = 0 => file[Kind] = app.cert)
    BY <2>1 DEF StoredOK
  <2>4. Kind # "privkey" /\ faults' = 0 => path'[sslctx_id][Kind] = Kind
    <3>1. Kind \in Kinds  BY <1>0, PlanMoves
    <3>2. faults' = 0 => ~Fault  BY DEF Fault, RestOK
    <3>3. Kind # "privkey" => SettingOf(Kind) = Kind /\ Kind \in Settings
      BY <3>1 DEF Kinds, SettingOf, Settings
    <3>4. Kind # "privkey" /\ path' = named => path'[sslctx_id][Kind] = Kind
      BY <3>3 DEF FilesOK
    <3> QED  BY <2>1, <3>2, <3>4
  <2>5. CASE app.stored = <<>>
    <3>1. DOMAIN app'.stored = {1} /\ app'.stored[1] = Kind  BY <2>2, <2>5
    <3> QED  BY <1>1, <2>1, <2>2, <2>3, <2>4, <3>1 DEF StoredOK
  <2>6. CASE app.stored = <<"clientcert">> /\ app.todo = <<"privkey">>
    <3>1. /\ DOMAIN app'.stored = {1, 2} /\ Len(app'.stored) = 2
          /\ app'.stored[1] = "clientcert" /\ app'.stored[2] = "privkey"
          /\ Kind = "privkey"
      BY <2>2, <2>6 DEF Kind
    <3>2. /\ file["clientcert"] \in {app.cert, -app.cert}
          /\ faults = 0 => file["clientcert"] = app.cert
      BY <2>6 DEF StoredOK
    <3> QED  BY <1>1, <2>1, <2>2, <2>3, <3>1, <3>2 DEF StoredOK
  <2> QED  BY <1>0, <2>5, <2>6 DEF PlanOK
<1> QED  BY <1>2, <1>3, <1>4, <1>5, <1>6

\* Each step keeps what is stored.
LEMMA NextStored ==
  ASSUME AppOK, FilesOK, RestOK, PlanOK, StoredOK, AppOK', RestOK', faults' >= faults,
         Next
  PROVE  StoredOK'
<1>1. CASE FileExists \/ DeleteFile \/ Upload \/ Configure
  BY <1>1, FileStepStored
<1>2. CASE AppCall
  <2>1. app'.stored = <<>> /\ app'.at # "configure"
    <3>1. ASSUME NEW kinds, NEW cert, SetCerts(kinds, cert)
          PROVE  app'.stored = <<>> /\ app'.at = "exists"
      BY <3>1 DEF SetCerts, Rests
    <3>2. CASE Recv
      BY <3>2 DEF Recv, Rests
    <3>3. CASE UseForMqtt \/ Connect \/ Close
      <4>1. app' = Rests  BY <3>3, Zenon DEF UseForMqtt, Connect, Close
      <4> QED  BY <4>1 DEF Rests
    <3> QED  BY <1>2, <3>1, <3>2, <3>3, Zenon DEF AppCall
  <2> QED  BY <2>1 DEF StoredOK
<1>3. CASE RecvLoop \/ RecvRead \/ RecvStop
  <2>1. UNCHANGED <<file, path, sslctx_id>>
    BY <1>3 DEF RecvLoop, RecvRead, RecvStop, modemVars
  <2>2. app'.at # "configure" /\ app'.stored = app.stored /\ app'.cert = app.cert
    BY <1>3 DEF RecvLoop, RecvRead, RecvStop, Goes, AppOK
  <2> QED  BY <2>1, <2>2, StoredUntouched DEF RestOK
<1>4. CASE Timer \/ Arrive
  <2>1. UNCHANGED <<app, file, path, sslctx_id>>
    BY <1>4 DEF Timer, TimerBegins, TimerFires, Arrive, modemVars
  <2> QED  BY <2>1, StoredUntouched DEF RestOK
<1> QED  BY <1>1, <1>2, <1>3, <1>4 DEF Next, AppStep

\* The invariant is inductive, hence it always holds.
THEOREM AlwaysIInv == Spec => []IInv
<1>1. Init => IInv  BY InitIInv
<1>2. IInv /\ [Next]_vars => IInv'
  <2> SUFFICES ASSUME IInv, [Next]_vars  PROVE IInv'
    OBVIOUS
  <2>1. CASE Next
    <3>1. AppOK' /\ PlanOK'
      <4>1. UNCHANGED app => AppOK' /\ PlanOK'
        BY DEF IInv, AppOK, PlanOK
      <4>2. CASE Timer \/ Arrive
        BY <4>1, <4>2 DEF Timer, TimerBegins, TimerFires, Arrive
      <4> QED  BY <2>1, <4>2, CallApp, StepApp DEF IInv, Next
    <3>2. FilesOK'  BY <2>1, NextFiles DEF IInv
    <3>3. RestOK' /\ faults' >= faults  BY <2>1, NextRest DEF IInv
    <3>4. TimerOK'  BY <2>1, NextTimer DEF IInv
    <3> QED  BY <2>1, <3>1, <3>2, <3>3, <3>4, NextStored DEF IInv
  <2>2. CASE UNCHANGED vars
    BY <2>2 DEF vars, modemVars, IInv, AppOK, FilesOK, RestOK, PlanOK, TimerOK,
       StoredOK, Kind
  <2> QED  BY <2>1, <2>2
<1> QED  BY <1>1, <1>2, PTL DEF Spec

\* Every variable stays in its type.
THEOREM TypeCorrect == Spec => []TypeOK
<1> QED  BY IInvTypeOK, AlwaysIInv, PTL

\* After an OK no file of the call is the old one or missing, whatever was there
\* before and whichever answers got lost; without a fault each is whole.
THEOREM OkAlwaysReplaces == Spec => []OkReplacesFile
<1>1. IInv => OkReplacesFile  BY DEF IInv, StoredOK, OkReplacesFile
<1> QED  BY <1>1, AlwaysIInv, PTL

\* The timer thread sets and clears the flag only while recv runs.
THEOREM TimerAlwaysKeepsToRecv == Spec => TimerKeepsToRecv
<1>1. IInv /\ [Next]_vars => [timeout_ovf' # timeout_ovf => app.at \in {"loop", "read", "stop"}]_vars
  BY OnlyTimerFlags DEF IInv, Receiving
<1> QED  BY <1>1, AlwaysIInv, PTL DEF Spec, TimerKeepsToRecv
=============================================================================
