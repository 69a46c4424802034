-------------------------- MODULE MqttClientProofs --------------------------
(***************************************************************************)
(* Proofs about MqttClient for every set of topics, and any number of      *)
(* nodes, tasks, messages and failed commands.                             *)
(*                                                                         *)
(* A message is a number in the order of arrival, so the stream holds      *)
(* consecutive numbers, and what the tasks and the static buffers hold     *)
(* lies before them: no command that drops the stream touches a message    *)
(* that has been received.                                                 *)
(***************************************************************************)
EXTENDS MqttClient, TLAPS

TaskRec == [at : TaskStates, subp : Nodes \cup {NULL}, msg : Messages \cup {NULL}]
MsgRec  == [path : Paths \cup {{}}, fate : Fates]
Calls   == {"unsubscribe", "recv", "dowork"}

TypesOK ==
    /\ node \in [Nodes -> Topics \cup {NoTopic}]
    /\ task \in [Tasks -> TaskRec] /\ thread \in Tasks \cup {NULL}
    /\ running \in BOOLEAN /\ kept \in BOOLEAN
    /\ buffer \in Messages \cup {NULL}
    /\ message \in [Messages -> MsgRec] /\ stream \in Seq(Messages)
    /\ session \in {"closed", "open", "connected"} /\ accepted \subseteq Topics
    /\ rash \subseteq Calls
    /\ faults \in Nat /\ faults <= MAX_FAULTS

\* The list is empty, or has one node and that is live.
ListOK == list = <<>> \/ \E n \in Nodes : list = <<n>> /\ node[n] # NoTopic

\* What the application is in the middle of.
Asking  == app.todo = <<"ask">> /\ app.sub \in Nodes /\ list = <<app.sub>>
Leaving == /\ app.todo \in {<<"withdraw", "free">>, <<"free">>}
           /\ app.sub \in Nodes /\ list = <<>> /\ node[app.sub] # NoTopic
Stopping == /\ app.todo \in {<<"kill">>, <<"kill", "disconnect">>,
                             <<"kill", "disconnect", "power">>,
                             <<"disconnect">>, <<"disconnect", "power">>, <<"power">>}
            /\ app.sub = NULL

AppOK == /\ app = [todo |-> app.todo, sub |-> app.sub]
         /\ app = Resting \/ Asking \/ Leaving \/ Stopping

\* The stream holds the messages that follow base; the tasks and the buffers have
\* earlier ones, and the later ones have not been sent.
Streams(base) ==
    /\ \A i \in 1..Len(stream) : stream[i] = base + i
    /\ \A m \in Messages : message[m].fate = "unsent" <=> m > base + Len(stream)
    /\ buffer <= base /\ \A k \in Tasks : task[k].msg <= base

StreamOK == \E base \in Nat : Streams(base)

\* Without a second dowork no task is alive but the one the client knows of.
OneTask == "dowork" \notin rash => \A k \in Alive : k = thread

\* Without an unsubscribe under it, a task calls the handler of a node that is in
\* the list, and a node that leaves the list leaves no task behind.
CallsListed == "unsubscribe" \notin rash =>
    /\ \A k \in Tasks : task[k].at = "call" => list = <<task[k].subp>>
    /\ Leaving => Alive = {}

BufferSet == \A k \in Tasks : task[k].at \in {"find", "call"} => buffer # NULL

\* The application has the topic, or is about to withdraw it.
Holds(t) == \/ \E n \in Nodes : list = <<n>> /\ node[n] = t
            \/ app.todo = <<"withdraw", "free">> /\ node[app.sub] = t

\* What the broker sends, and what the tasks have received, is of such a topic.
TopicsHeld == faults = 0 /\ rash = {} =>
    /\ \A t \in accepted : Holds(t)
    /\ \A i \in 1..Len(stream) : \E t \in message[stream[i]].path : Holds(t)
    /\ \A k \in Tasks : task[k].at = "find" => \E t \in message[buffer].path : Holds(t)

SessionOK == session # "connected" => accepted = {}

\* The inductive invariant.
IInv == /\ TypesOK /\ ListOK /\ AppOK /\ StreamOK
        /\ OneTask /\ CallsListed /\ BufferSet /\ BufferKept
        /\ SessionOK /\ TopicsHeld /\ RightHandler

-----------------------------------------------------------------------------
(* The operators of the model.                                             *)

\* The search of a list of one node returns that node, whatever the topic.
LEMMA FindListed ==
  ASSUME NEW p
  PROVE  /\ list = <<>> => Find(p) = NULL
         /\ \A n \in Nodes : list = <<n>> => Find(p) = n /\ n # NULL
<1>1. list = <<>> => Find(p) = NULL
  BY DEF Find
<1>2. ASSUME NEW n \in Nodes, list = <<n>>
      PROVE  Find(p) = n /\ n # NULL
  <2>1. DOMAIN list = {1} /\ list[1] = n /\ Len(list) = 1 /\ list # <<>>
    BY <1>2
  <2>2. n # NULL
    BY BoundAssumption DEF Nodes, NULL
  <2>3. CASE Matches(p) = {}
    BY <2>1, <2>2, <2>3 DEF Find, Last
  <2>4. CASE Matches(p) # {}
    <3>1. Matches(p) = {1}
      BY <2>1, <2>4 DEF Matches
    <3>2. Min(Matches(p)) = 1
      BY <3>1 DEF Min
    <3> QED  BY <2>1, <2>2, <2>4, <3>2 DEF Find
  <2> QED  BY <2>3, <2>4
<1> QED  BY <1>1, <1>2

\* Taking the only node out of the list leaves none.
LEMMA WithoutAlone ==
  ASSUME NEW n \in Nodes, list = <<n>>
  PROVE  Without(n) = <<>>
<1>1. RemoveFirst(<<n>>, n) = <<>>
  BY DEF RemoveFirst, RemoveAt, SelectInSeq, Min
<1> QED  BY <1>1 DEF Without

\* What settles is what it is told, and the rest stays as it is.
LEMMA Settles ==
  ASSUME message \in [Messages -> MsgRec], NEW S
  PROVE  /\ Settle(S) \in [Messages -> MsgRec]
         /\ \A m \in Messages : /\ m \notin S => Settle(S)[m] = message[m]
                                /\ m \in S => Settle(S)[m].fate = "settled"
  BY DEF Settle, MsgRec, Fates

\* A topic belongs to its path, which is one of the paths.
LEMMA PathOfTopic ==
  ASSUME NEW t \in Topics
  PROVE  Path(t) \in Paths /\ t \in Path(t)
  BY DEF Path, Topics

\* The calls in the order of their steps.
LEMMA StepsInOrder ==
  ASSUME AppOK
  PROVE  /\ At("ask") => Asking /\ (Done => app' = Resting)
         /\ At("withdraw") =>
              /\ Leaving /\ app.todo = <<"withdraw", "free">>
              /\ Done => app' = [todo |-> <<"free">>, sub |-> app.sub]
         /\ At("free") => Leaving /\ app.todo = <<"free">> /\ (Done => app' = Resting)
         /\ At("kill") \/ At("disconnect") \/ At("power") =>
              /\ Stopping
              /\ Done => \/ app' = Resting
                         \/ /\ app'.todo \in {<<"disconnect">>, <<"disconnect", "power">>,
                                              <<"power">>}
                            /\ app' = [todo |-> app'.todo, sub |-> NULL]
<1>1. app = [todo |-> app.todo, sub |-> app.sub]
  BY DEF AppOK
<1>2. CASE app = Resting
  BY <1>2 DEF At, Resting
<1>3. CASE Asking
  <2>1. app.todo = <<"ask">>
    BY <1>3 DEF Asking
  <2> QED  BY <1>3, <2>1 DEF At, Done
<1>4. CASE Leaving
  <2>1. CASE app.todo = <<"withdraw", "free">>
    <3>1. Done => app' = [todo |-> <<"free">>, sub |-> app.sub]
      BY <1>1, <2>1 DEF Done
    <3> QED  BY <1>4, <2>1, <3>1 DEF At
  <2>2. CASE app.todo = <<"free">>
    BY <1>4, <2>2 DEF At, Done
  <2> QED  BY <1>4, <2>1, <2>2 DEF Leaving
<1>5. CASE Stopping
  <2>1. At("ask") \/ At("withdraw") \/ At("free") => FALSE
    BY <1>5 DEF Stopping, At
  <2>2. Done => \/ app' = Resting
                \/ /\ app'.todo \in {<<"disconnect">>, <<"disconnect", "power">>, <<"power">>}
                   /\ app' = [todo |-> app'.todo, sub |-> NULL]
    <3>1. CASE Len(app.todo) = 1
      BY <3>1 DEF Done
    <3>2. CASE app.todo \in {<<"kill", "disconnect">>, <<"kill", "disconnect", "power">>,
                             <<"disconnect", "power">>}
      <4> DEFINE rest == Tail(app.todo)
      <4>1. rest \in {<<"disconnect">>, <<"disconnect", "power">>, <<"power">>}
        <5>1. app.todo = <<"kill", "disconnect">> => rest = <<"disconnect">>
          OBVIOUS
        <5>2. app.todo = <<"kill", "disconnect", "power">> => rest = <<"disconnect", "power">>
          OBVIOUS
        <5>3. app.todo = <<"disconnect", "power">> => rest = <<"power">>
          OBVIOUS
        <5> QED  BY <3>2, <5>1, <5>2, <5>3, Zenon
      <4>2. Done => app' = [app EXCEPT !.todo = rest]
        BY <3>2 DEF Done
      <4> HIDE DEF rest
      <4>3. Done => app' = [todo |-> rest, sub |-> NULL]
        BY <1>1, <1>5, <4>2 DEF Stopping
      <4>4. Done => app'.todo = rest
        BY <4>3
      <4> QED  BY <4>1, <4>3, <4>4, Zenon
    <3> QED  BY <1>5, <3>1, <3>2 DEF Stopping
  <2> QED  BY <1>5, <2>1, <2>2
<1> QED  BY <1>2, <1>3, <1>4, <1>5 DEF AppOK

\* A command drops the stream; without a failure it comes to what it is for.
LEMMA CommandMoves ==
  ASSUME TypesOK, NEW ok \in BOOLEAN, NEW sessions, Command(ok, sessions)
  PROVE  /\ Dropped
         /\ faults' \in Nat /\ faults' <= MAX_FAULTS
         /\ faults' = 0 => faults = 0 /\ (ok \/ session \notin sessions)
         /\ ok => session \in sessions
<1>1. faults \in Nat /\ MAX_FAULTS \in Nat
  BY BoundAssumption DEF TypesOK
<1>2. /\ faults' = IF ~ok /\ session \in sessions THEN faults + 1 ELSE faults
      /\ faults' <= MAX_FAULTS /\ Dropped /\ (ok => session \in sessions)
  BY DEF Command
<1> QED  BY <1>1, <1>2

LEMMA DroppedMoves ==
  ASSUME TypesOK, Dropped
  PROVE  /\ stream' = <<>> /\ stream' \in Seq(Messages)
         /\ message' \in [Messages -> MsgRec]
         /\ \A m \in Messages :
              \/ m \notin Range(stream) /\ message'[m] = message[m]
              \/ m \in Range(stream) /\ message'[m].fate = "settled"
<1>1. message \in [Messages -> MsgRec] /\ message' = Settle(Range(stream)) /\ stream' = <<>>
  BY DEF TypesOK, Dropped
<1> QED  BY <1>1, Settles

\* What the stream comes to.
LEMMA StreamEnds ==
  ASSUME stream \in Seq(Messages), stream # <<>>
  PROVE  /\ Head(stream) \in Messages /\ Head(stream) = stream[1]
         /\ Tail(stream) \in Seq(Messages) /\ Len(stream) \in Nat /\ Len(stream) > 0
         /\ Len(Tail(stream)) = Len(stream) - 1
         /\ \A i \in 1..Len(Tail(stream)) : Tail(stream)[i] = stream[i + 1]
  OBVIOUS

-----------------------------------------------------------------------------
(* The inductive invariant.                                                *)

Shape == TypesOK /\ ListOK /\ AppOK /\ SessionOK

LEMMA InitIInv == Init => IInv
<1> SUFFICES ASSUME Init  PROVE IInv
  OBVIOUS
<1> USE DEF Init
<1>0. \A k \in Tasks : task[k] = [at |-> "none", subp |-> NULL, msg |-> NULL]
  OBVIOUS
<1>1. TypesOK
  <2>1. [at |-> "none", subp |-> NULL, msg |-> NULL] \in TaskRec
    BY DEF TaskRec, TaskStates
  <2>2. [path |-> {}, fate |-> "unsent"] \in MsgRec
    BY DEF MsgRec, Fates
  <2>3. stream \in Seq(Messages) /\ faults \in Nat /\ faults <= MAX_FAULTS
    BY BoundAssumption
  <2>4. task \in [Tasks -> TaskRec] /\ message \in [Messages -> MsgRec]
    BY <2>1, <2>2
  <2> QED  BY <2>3, <2>4 DEF TypesOK
<1>2. ListOK /\ SessionOK
  BY DEF ListOK, SessionOK
<1>3. AppOK
  BY DEF AppOK, Resting
<1>4. StreamOK
  <2>1. \A m \in Messages : message[m].fate = "unsent" /\ m > 0
    BY BoundAssumption DEF Messages
  <2>2. Streams(0)
    BY <1>0, <2>1 DEF Streams, NULL
  <2> QED  BY <2>2 DEF StreamOK
<1>5. Alive = {}
  BY <1>0 DEF Alive
<1>6. OneTask /\ CallsListed /\ BufferSet /\ BufferKept /\ RightHandler
  BY <1>0, <1>5 DEF OneTask, CallsListed, BufferSet, BufferKept, RightHandler
<1>7. TopicsHeld
  BY <1>0 DEF TopicsHeld
<1> QED  BY <1>1, <1>2, <1>3, <1>4, <1>6, <1>7 DEF IInv

-----------------------------------------------------------------------------
(* The commands: they drop the stream and leave the list, the tasks and    *)
(* the static buffers alone.                                               *)

Commands ==
    \/ \E ok \in BOOLEAN : Open(ok) \/ Close(ok) \/ Publish(ok)
    \/ Connect \/ OtherCommand \/ Ask \/ Withdraw \/ Disconnect \/ PowerDown

LEMMA CommandsDrop ==
  ASSUME TypesOK, Commands
  PROVE  /\ Dropped /\ faults' \in Nat /\ faults' <= MAX_FAULTS
         /\ faults' = 0 => faults = 0
         /\ UNCHANGED <<list, node, thread, task, buffer, rash>>
<1>1. ASSUME NEW ok \in BOOLEAN, NEW sessions, Command(ok, sessions)
      PROVE  /\ Dropped /\ faults' \in Nat /\ faults' <= MAX_FAULTS
             /\ faults' = 0 => faults = 0
  BY <1>1, CommandMoves
<1>2. CASE Connect
  <2>1. PICK o \in ConnectOutcomes : Command(o.ok, {"open"})
    BY <1>2 DEF Connect
  <2>2. o.ok \in BOOLEAN
    <3>1. \/ o = [ok |-> TRUE,  runs |-> TRUE,  on |-> TRUE]
          \/ o = [ok |-> FALSE, runs |-> FALSE, on |-> FALSE]
          \/ o \in [ok : {FALSE}, runs : BOOLEAN, on : BOOLEAN]
      BY Zenon DEF ConnectOutcomes
    <3>2. o = [ok |-> TRUE, runs |-> TRUE, on |-> TRUE] => o.ok = TRUE
      OBVIOUS
    <3>3. o = [ok |-> FALSE, runs |-> FALSE, on |-> FALSE] => o.ok = FALSE
      OBVIOUS
    <3>4. o \in [ok : {FALSE}, runs : BOOLEAN, on : BOOLEAN] => o.ok \in {FALSE}
      BY Zenon
    <3> QED  BY <3>1, <3>2, <3>3, <3>4, Zenon
  <2> QED  BY <1>1, <1>2, <2>1, <2>2 DEF Connect, listVars
<1>3. ASSUME NEW ok \in BOOLEAN, Open(ok) \/ Close(ok) \/ Publish(ok)
      PROVE  /\ Dropped /\ faults' \in Nat /\ faults' <= MAX_FAULTS
             /\ faults' = 0 => faults = 0
             /\ UNCHANGED <<list, node, thread, task, buffer, rash>>
  BY <1>1, <1>3 DEF Open, Close, Publish, listVars, taskVars
<1>4. CASE OtherCommand \/ PowerDown
  BY <1>4 DEF OtherCommand, PowerDown, listVars, taskVars, bookVars, TypesOK
<1>5. CASE Ask
  BY <1>1, <1>5 DEF Ask, listVars, taskVars
<1>6. CASE Withdraw
  BY <1>1, <1>6 DEF Withdraw, listVars, taskVars
<1>7. CASE Disconnect
  BY <1>1, <1>7 DEF Disconnect, listVars, taskVars
<1> QED  BY <1>2, <1>3, <1>4, <1>5, <1>6, <1>7 DEF Commands

\* What the application is in the middle of goes on, or ends.
LEMMA CommandsApp ==
  ASSUME AppOK, Commands, UNCHANGED <<list, node>>
  PROVE  AppOK' /\ (Leaving' => Leaving)
<1>1. CASE app' = app
  BY <1>1 DEF AppOK, Resting, Asking, Leaving, Stopping
<1>2. CASE app' = Resting
  BY <1>2 DEF AppOK, Resting, Leaving
<1>3. CASE Withdraw
  <2>1. /\ Leaving /\ app' = [todo |-> <<"free">>, sub |-> app.sub]
    BY <1>3, StepsInOrder DEF Withdraw
  <2>2. app'.todo = <<"free">> /\ app'.sub = app.sub
    BY <2>1
  <2> QED  BY <2>1, <2>2 DEF AppOK, Leaving
<1>4. CASE Disconnect \/ PowerDown
  <2>1. \/ app' = Resting
        \/ /\ app'.todo \in {<<"disconnect">>, <<"disconnect", "power">>, <<"power">>}
           /\ app' = [todo |-> app'.todo, sub |-> NULL]
    BY <1>4, StepsInOrder DEF Disconnect, PowerDown
  <2>2. CASE /\ app'.todo \in {<<"disconnect">>, <<"disconnect", "power">>, <<"power">>}
             /\ app' = [todo |-> app'.todo, sub |-> NULL]
    <3>1. app'.sub = NULL
      BY <2>2
    <3>2. Stopping' /\ app' = [todo |-> app'.todo, sub |-> app'.sub]
      BY <2>2, <3>1 DEF Stopping
    <3>3. ~Leaving'
      BY <2>2 DEF Leaving
    <3> QED  BY <3>2, <3>3 DEF AppOK
  <2> QED  BY <1>2, <2>1, <2>2
<1>5. CASE Ask
  BY <1>2, <1>5, StepsInOrder DEF Ask
<1> QED  BY <1>1, <1>3, <1>4, <1>5 DEF Commands, Open, Close, Publish, Connect, OtherCommand

\* The session, and what the modem has accepted in it.
LEMMA CommandsSession ==
  ASSUME TypesOK, ListOK, AppOK, SessionOK, Commands
  PROVE  /\ session' \in {"closed", "open", "connected"} /\ accepted' \subseteq Topics
         /\ running' \in BOOLEAN /\ kept' \in BOOLEAN /\ SessionOK'
<1>1. /\ session \in {"closed", "open", "connected"} /\ accepted \subseteq Topics
      /\ running \in BOOLEAN /\ kept \in BOOLEAN
  BY DEF TypesOK
<1>2. CASE Connect
  <2>1. PICK o \in ConnectOutcomes :
          /\ o.on => session = "open"
          /\ session' = IF o.on THEN "connected" ELSE session
          /\ running' = (running \/ o.runs)
    BY <1>2 DEF Connect
  <2>2. UNCHANGED <<kept, accepted>>
    BY <1>2 DEF Connect
  <2>3. (running \/ o.runs) \in BOOLEAN
    OBVIOUS
  <2> QED  BY <1>1, <2>1, <2>2, <2>3 DEF SessionOK
<1>3. ASSUME UNCHANGED <<running, session>>, kept' \in BOOLEAN,
             accepted' \subseteq Topics, session # "connected" => accepted' = accepted
      PROVE  /\ session' \in {"closed", "open", "connected"} /\ accepted' \subseteq Topics
             /\ running' \in BOOLEAN /\ kept' \in BOOLEAN /\ SessionOK'
  BY <1>1, <1>3 DEF SessionOK
<1>4. ASSUME NEW ok \in BOOLEAN, Open(ok) \/ Close(ok) \/ Publish(ok)
      PROVE  /\ session' \in {"closed", "open", "connected"} /\ accepted' \subseteq Topics
             /\ running' \in BOOLEAN /\ kept' \in BOOLEAN /\ SessionOK'
  BY <1>1, <1>4 DEF Open, Close, Publish, Command, taskVars, SessionOK
<1>5. CASE Ask
  <2>1. PICK ok \in BOOLEAN, taken \in BOOLEAN :
          /\ taken => session = "connected"
          /\ accepted' = IF taken THEN accepted \cup {node[app.sub]} ELSE accepted
    BY <1>5 DEF Ask
  <2>2. node[app.sub] \in Topics
    <3>1. app.sub \in Nodes /\ list = <<app.sub>>
      BY <1>5, StepsInOrder DEF Ask, Asking
    <3>2. PICK n \in Nodes : list = <<n>> /\ node[n] # NoTopic
      BY <3>1 DEF ListOK
    <3>3. n = app.sub
      BY <3>1, <3>2
    <3> QED  BY <3>2, <3>3 DEF TypesOK
  <2> QED  BY <1>1, <1>3, <1>5, <2>1, <2>2 DEF Ask, taskVars
<1>6. CASE Withdraw
  <2>1. PICK ok \in BOOLEAN, taken \in BOOLEAN :
          accepted' = IF taken THEN accepted \ {node[app.sub]} ELSE accepted
    BY <1>6 DEF Withdraw
  <2>2. session # "connected" => accepted' = accepted
    BY <2>1 DEF SessionOK
  <2> QED  BY <1>1, <1>3, <1>6, <2>1, <2>2 DEF Withdraw, taskVars
<1>7. CASE OtherCommand
  BY <1>1, <1>3, <1>7 DEF OtherCommand, taskVars
<1>8. CASE Disconnect
  BY <1>1, <1>8 DEF Disconnect, taskVars, SessionOK
<1>9. CASE PowerDown
  BY <1>1, <1>9 DEF PowerDown, taskVars, SessionOK
<1> QED  BY <1>2, <1>4, <1>5, <1>6, <1>7, <1>8, <1>9 DEF Commands

LEMMA CommandsShape ==
  ASSUME Shape, Commands
  PROVE  Shape'
<1>1. /\ Dropped /\ faults' \in Nat /\ faults' <= MAX_FAULTS
      /\ UNCHANGED <<list, node, thread, task, buffer, rash>>
  BY CommandsDrop DEF Shape
<1>2. AppOK'
  BY <1>1, CommandsApp DEF Shape
<1>3. /\ session' \in {"closed", "open", "connected"} /\ accepted' \subseteq Topics
      /\ running' \in BOOLEAN /\ kept' \in BOOLEAN /\ SessionOK'
  BY CommandsSession DEF Shape
<1>4. stream' \in Seq(Messages) /\ message' \in [Messages -> MsgRec]
  BY <1>1, DroppedMoves DEF Shape
<1>5. TypesOK'
  BY <1>1, <1>3, <1>4 DEF Shape, TypesOK
<1>6. ListOK'
  BY <1>1 DEF Shape, ListOK
<1> QED  BY <1>2, <1>3, <1>5, <1>6 DEF Shape

-----------------------------------------------------------------------------
(* The other steps: the types, the list, the steps of the application.     *)

LEMMA ListStepsShape ==
  ASSUME Shape, NEW topic \in Topics,
         Subscribe(topic) \/ Unsubscribe(topic) \/ Free
  PROVE  Shape'
<1>1. TypesOK /\ ListOK /\ AppOK /\ SessionOK
  BY DEF Shape
<1>2. topic \in Topics \cup {NoTopic} /\ topic # NoTopic /\ NoTopic \notin Topics
  BY PathAssumption DEF Topics
\* Only the list, the heap and the application move, and rash.
<1>3. ASSUME UNCHANGED <<taskVars, kept, modemVars, faults>>,
             node' \in [Nodes -> Topics \cup {NoTopic}], ListOK', AppOK', rash' \subseteq Calls
      PROVE  Shape'
  <2>1. TypesOK'
    BY <1>1, <1>3 DEF TypesOK, taskVars, modemVars
  <2>2. SessionOK'
    BY <1>1, <1>3 DEF SessionOK, modemVars
  <2> QED  BY <1>3, <2>1, <2>2 DEF Shape
<1>4. CASE Subscribe(topic)
  <2>1. CASE Known(topic)
    <3>1. UNCHANGED <<list, node, app, rash>>
      BY <1>4, <2>1 DEF Subscribe
    <3>2. ListOK' /\ AppOK'
      BY <1>1, <3>1 DEF ListOK, AppOK, Resting, Asking, Leaving, Stopping
    <3> QED  BY <1>1, <1>3, <1>4, <3>1, <3>2 DEF Subscribe, TypesOK
  <2>2. CASE ~Known(topic)
    <3>1. PICK n \in Nodes : /\ node[n] = NoTopic
                             /\ node' = [node EXCEPT ![n] = topic]
                             /\ list' = Append(list, n)
                             /\ app' = [todo |-> <<"ask">>, sub |-> n]
      BY <1>4, <2>2 DEF Subscribe, Enter
    <3>2. list = <<>>
      BY <1>1, <2>2, FindListed DEF Known, ListOK
    <3>3. list' = <<n>> /\ node'[n] = topic /\ node' \in [Nodes -> Topics \cup {NoTopic}]
      BY <1>1, <1>2, <3>1, <3>2 DEF TypesOK
    <3>4. ListOK'
      BY <1>2, <3>3 DEF ListOK
    <3>5. app'.todo = <<"ask">> /\ app'.sub = n
      BY <3>1
    <3>6. AppOK'
      BY <3>1, <3>3, <3>5 DEF AppOK, Asking
    <3> QED  BY <1>1, <1>3, <1>4, <3>3, <3>4, <3>6 DEF Subscribe, TypesOK
  <2> QED  BY <2>1, <2>2
<1>5. CASE Unsubscribe(topic)
  <2> DEFINE n == Find(Path(topic))
  <2>1. /\ n # NULL /\ list' = Without(n)
        /\ app' = [todo |-> <<"withdraw", "free">>, sub |-> n] /\ node' = node
    BY <1>5 DEF Unsubscribe, Enter, UnsubscribeSteps
  <2>2. n \in Nodes /\ list = <<n>> /\ node[n] # NoTopic
    BY <1>1, <2>1, FindListed DEF ListOK
  <2> HIDE DEF n
  <2>3. list' = <<>>
    BY <2>1, <2>2, WithoutAlone
  <2>4. app'.todo = <<"withdraw", "free">> /\ app'.sub = n
    BY <2>1
  <2>5. ListOK' /\ AppOK'
    BY <2>1, <2>2, <2>3, <2>4 DEF ListOK, AppOK, Leaving
  <2>6. rash' \subseteq Calls
    BY <1>1, <1>5 DEF Unsubscribe, Rashly, Calls, TypesOK
  <2> QED  BY <1>1, <1>3, <1>5, <2>1, <2>5, <2>6 DEF Unsubscribe, TypesOK
<1>6. CASE Free
  <2>1. /\ Leaving /\ app' = Resting /\ node' = [node EXCEPT ![app.sub] = NoTopic]
        /\ list' = list
    BY <1>1, <1>6, StepsInOrder DEF Free
  <2>2. ListOK' /\ AppOK' /\ node' \in [Nodes -> Topics \cup {NoTopic}]
    BY <1>1, <2>1 DEF ListOK, AppOK, Resting, Leaving, TypesOK
  <2> QED  BY <1>1, <1>3, <1>6, <2>2 DEF Free, TypesOK
<1> QED  BY <1>4, <1>5, <1>6

\* The steps that leave the list and the heap alone, and drop nothing.
LEMMA TaskStepsShape ==
  ASSUME Shape, StreamOK,
         \/ Recv \/ DoWork \/ StopRunning \/ Kill \/ Arrive
         \/ \E k \in Tasks : TaskStep(k)
  PROVE  Shape'
<1>1. /\ TypesOK /\ ListOK /\ AppOK /\ SessionOK
      /\ task \in [Tasks -> TaskRec] /\ message \in [Messages -> MsgRec]
      /\ stream \in Seq(Messages)
  BY DEF Shape, TypesOK
<1>2. ASSUME UNCHANGED <<list, node, session, accepted, faults, kept>>,
             running' \in BOOLEAN, thread' \in Tasks \cup {NULL},
             task' \in [Tasks -> TaskRec], buffer' \in Messages \cup {NULL},
             message' \in [Messages -> MsgRec], stream' \in Seq(Messages),
             rash' \subseteq Calls, AppOK'
      PROVE  Shape'
  <2>1. TypesOK'
    BY <1>1, <1>2 DEF TypesOK
  <2>2. ListOK' /\ SessionOK'
    BY <1>1, <1>2 DEF ListOK, SessionOK
  <2> QED  BY <1>2, <2>1, <2>2 DEF Shape
<1>3. app' = app /\ list' = list /\ node' = node => AppOK'
  BY <1>1 DEF AppOK, Resting, Asking, Leaving, Stopping
<1>4. CASE Recv
  <2>1. /\ stream # <<>> /\ buffer' = Head(stream) /\ stream' = Tail(stream)
        /\ message' = Settle({Head(stream)})
    BY <1>4 DEF Recv
  <2>2. message' \in [Messages -> MsgRec]
    BY <1>1, <2>1, Settles
  <2>3. buffer' \in Messages /\ stream' \in Seq(Messages)
    BY <1>1, <2>1, StreamEnds
  <2>4. rash' \subseteq Calls
    BY <1>1, <1>4 DEF Recv, Rashly, Calls, TypesOK
  <2> QED  BY <1>1, <1>2, <1>3, <1>4, <2>2, <2>3, <2>4 DEF Recv, TypesOK, listVars
<1>5. CASE DoWork
  <2>1. PICK k \in Tasks : task' = [task EXCEPT ![k].at = "check"] /\ thread' = k
    BY <1>5 DEF DoWork
  <2>2. task' \in [Tasks -> TaskRec]
    BY <1>1, <2>1 DEF TaskRec, TaskStates
  <2>3. rash' \subseteq Calls
    BY <1>1, <1>5 DEF DoWork, Rashly, Calls, TypesOK
  <2> QED  BY <1>1, <1>2, <1>3, <1>5, <2>1, <2>2, <2>3
           DEF DoWork, TypesOK, listVars, modemVars
<1>6. CASE StopRunning
  <2>1. PICK steps \in {<<"kill">>, <<"kill", "disconnect">>, <<"kill", "disconnect", "power">>} :
          app' = [todo |-> steps, sub |-> NULL]
    BY <1>6 DEF StopRunning, Enter
  <2>2. app'.todo = steps /\ app'.sub = NULL
    BY <2>1
  <2>3. AppOK'
    BY <2>1, <2>2 DEF AppOK, Stopping
  <2> QED  BY <1>1, <1>2, <1>6, <2>3 DEF StopRunning, TypesOK, listVars, modemVars
<1>7. CASE Kill
  <2>1. EndTask /\ UNCHANGED <<list, node, running, buffer, kept, session, accepted,
                               stream, rash, faults>>
    BY <1>7 DEF Kill, listVars
  <2>2. AppOK'
    <3>1. \/ app' = Resting
          \/ /\ app'.todo \in {<<"disconnect">>, <<"disconnect", "power">>, <<"power">>}
             /\ app' = [todo |-> app'.todo, sub |-> NULL]
      BY <1>1, <1>7, StepsInOrder DEF Kill
    <3>2. CASE /\ app'.todo \in {<<"disconnect">>, <<"disconnect", "power">>, <<"power">>}
               /\ app' = [todo |-> app'.todo, sub |-> NULL]
      <4>1. app'.sub = NULL
        BY <3>2
      <4> QED  BY <3>2, <4>1 DEF AppOK, Stopping
    <3> QED  BY <3>1, <3>2 DEF AppOK, Resting
  <2>3. /\ thread' \in Tasks \cup {NULL} /\ task' \in [Tasks -> TaskRec]
        /\ message' \in [Messages -> MsgRec]
    <3>1. CASE thread = NULL
      BY <1>1, <2>1, <3>1 DEF EndTask, TypesOK
    <3>2. CASE thread # NULL
      <4>1. Ended \in TaskRec
        BY DEF Ended, TaskRec, TaskStates
      <4>2. /\ thread' = NULL /\ task' = [task EXCEPT ![thread] = Ended]
            /\ message' = Settle({task[thread].msg})
        BY <2>1, <3>2 DEF EndTask
      <4>3. message' \in [Messages -> MsgRec]
        BY <1>1, <4>2, Settles
      <4> QED  BY <1>1, <4>1, <4>2, <4>3
    <3> QED  BY <3>1, <3>2
  <2> QED  BY <1>1, <1>2, <2>1, <2>2, <2>3 DEF TypesOK
<1>8. CASE Arrive
  <2>1. PICK m \in Messages, t \in accepted :
          /\ message' = [message EXCEPT ![m] = [path |-> Path(t), fate |-> "stream"]]
          /\ stream' = Append(stream, m)
    BY <1>8 DEF Arrive
  <2>2. [path |-> Path(t), fate |-> "stream"] \in MsgRec
    <3>1. Path(t) \in Paths
      BY <1>1, PathOfTopic DEF TypesOK
    <3> QED  BY <3>1 DEF MsgRec, Fates
  <2>3. message' \in [Messages -> MsgRec] /\ stream' \in Seq(Messages)
    BY <1>1, <2>1, <2>2
  <2> QED  BY <1>1, <1>2, <1>3, <1>8, <2>3 DEF Arrive, TypesOK, listVars, taskVars, bookVars
<1>9. ASSUME NEW k \in Tasks, TaskStep(k)
      PROVE  Shape'
  <2>1. /\ UNCHANGED <<list, node, running, thread, app, kept, session, accepted, rash, faults>>
    BY <1>9 DEF TaskStep, TaskCheck, TaskRecv, TaskFind, TaskCall, listVars, modemVars, bookVars
  <2>2. task[k] \in TaskRec
    BY <1>1
  <2>3. Round \in TaskRec
    BY DEF Round, TaskRec, TaskStates
  <2>4. CASE TaskCheck(k)
    <3>1. PICK to \in {"recv", "ended"} : task' = [task EXCEPT ![k].at = to]
      BY <2>4 DEF TaskCheck, Step
    <3>2. task' \in [Tasks -> TaskRec]
      BY <1>1, <3>1 DEF TaskRec, TaskStates
    <3> QED  BY <1>1, <1>2, <1>3, <2>1, <2>4, <3>2 DEF TaskCheck, TypesOK, modemVars
  <2>5. CASE TaskRecv(k)
    <3>1. CASE stream = <<>>
      <4>1. task' = [task EXCEPT ![k].at = "check"] /\ UNCHANGED <<buffer, stream, message>>
        BY <2>5, <3>1 DEF TaskRecv, Step
      <4>2. task' \in [Tasks -> TaskRec]
        BY <1>1, <4>1 DEF TaskRec, TaskStates
      <4> QED  BY <1>1, <1>2, <1>3, <2>1, <4>1, <4>2 DEF TypesOK
    <3>2. CASE stream # <<>>
      <4> DEFINE m == Head(stream)
                 c == [task[k] EXCEPT !.at = "find", !.msg = m]
      <4>1. /\ task' = [task EXCEPT ![k] = c] /\ buffer' = m /\ stream' = Tail(stream)
            /\ message' = [message EXCEPT ![m].fate = "taken"]
        BY <2>5, <3>2 DEF TaskRecv, ReadStream
      <4>2. m \in Messages /\ stream' \in Seq(Messages)
        BY <1>1, <3>2, <4>1, StreamEnds
      <4> HIDE DEF m
      <4>3. c \in TaskRec
        BY <2>2, <4>2 DEF TaskRec, TaskStates
      <4> HIDE DEF c
      <4>4. task' \in [Tasks -> TaskRec]
        BY <1>1, <4>1, <4>3
      <4>5. message' \in [Messages -> MsgRec]
        BY <1>1, <4>1, <4>2 DEF MsgRec, Fates
      <4> QED  BY <1>1, <1>2, <1>3, <2>1, <4>1, <4>2, <4>4, <4>5 DEF TypesOK
    <3> QED  BY <3>1, <3>2
  <2>6. CASE TaskFind(k)
    <3> DEFINE n == Find(message[buffer].path)
    <3>1. n \in Nodes \cup {NULL}
      BY <1>1, FindListed DEF ListOK
    <3>2. CASE n = NULL
      <4>1. task' = [task EXCEPT ![k] = Round] /\ message' = Settle({task[k].msg})
        BY <2>6, <3>2 DEF TaskFind
      <4>2. task' \in [Tasks -> TaskRec] /\ message' \in [Messages -> MsgRec]
        BY <1>1, <2>3, <4>1, Settles
      <4> QED  BY <1>1, <1>2, <1>3, <2>1, <2>6, <4>2 DEF TaskFind, TypesOK
    <3>3. CASE n # NULL
      <4> HIDE DEF n
      <4> DEFINE c == [task[k] EXCEPT !.at = "call", !.subp = n]
      <4>1. task' = [task EXCEPT ![k] = c] /\ message' = message
        BY <2>6, <3>3 DEF TaskFind, n
      <4>2. c \in TaskRec
        BY <2>2, <3>1 DEF TaskRec, TaskStates
      <4> HIDE DEF c
      <4>3. task' \in [Tasks -> TaskRec]
        BY <1>1, <4>1, <4>2
      <4> QED  BY <1>1, <1>2, <1>3, <2>1, <2>6, <4>1, <4>3 DEF TaskFind, TypesOK
    <3> QED  BY <3>2, <3>3
  <2>7. CASE TaskCall(k)
    <3>1. task' = [task EXCEPT ![k] = Round] /\ message' = Settle({buffer})
      BY <2>7 DEF TaskCall
    <3>2. task' \in [Tasks -> TaskRec] /\ message' \in [Messages -> MsgRec]
      BY <1>1, <2>3, <3>1, Settles
    <3> QED  BY <1>1, <1>2, <1>3, <2>1, <2>7, <3>2 DEF TaskCall, TypesOK
  <2> QED  BY <1>9, <2>4, <2>5, <2>6, <2>7 DEF TaskStep
<1> QED  BY <1>4, <1>5, <1>6, <1>7, <1>8, <1>9

-----------------------------------------------------------------------------
(* The order of the messages.                                              *)

LEMMA StreamInOrder ==
  ASSUME TypesOK, NEW base \in Nat, Streams(base)
  PROVE  /\ Len(stream) \in Nat
         /\ \A m \in Messages : m \in Int /\ m > 0
         /\ \A m \in Range(stream) : m > base /\ m <= base + Len(stream)
         /\ \A m \in Messages : m > base /\ m <= base + Len(stream) => m \in Range(stream)
<1>1. stream \in Seq(Messages) /\ Len(stream) \in Nat /\ DOMAIN stream = 1..Len(stream)
  BY DEF TypesOK
<1>2. \A m \in Messages : m \in Int /\ m > 0
  BY BoundAssumption DEF Messages
<1>3. ASSUME NEW m \in Range(stream)  PROVE m > base /\ m <= base + Len(stream)
  <2>1. PICK i \in 1..Len(stream) : m = stream[i]
    BY <1>1, <1>3 DEF Range
  <2> QED  BY <1>1, <2>1 DEF Streams
<1>4. ASSUME NEW m \in Messages, m > base, m <= base + Len(stream)
      PROVE  m \in Range(stream)
  <2>1. m - base \in 1..Len(stream) /\ stream[m - base] = m
    BY <1>1, <1>2, <1>4 DEF Streams
  <2> QED  BY <1>1, <2>1 DEF Range
<1> QED  BY <1>1, <1>2, <1>3, <1>4

LEMMA CommandsStream ==
  ASSUME TypesOK, StreamOK, Commands
  PROVE  StreamOK'
<1>1. PICK base \in Nat : Streams(base)
  BY DEF StreamOK
<1>2. /\ Dropped /\ UNCHANGED <<task, buffer>>
  BY CommandsDrop
<1>3. /\ Len(stream) \in Nat
      /\ \A m \in Range(stream) : m > base /\ m <= base + Len(stream)
      /\ \A m \in Messages : m \in Int /\ m > 0
  BY <1>1, StreamInOrder
<1>4. /\ stream' = <<>>
      /\ \A m \in Messages :
           \/ m \notin Range(stream) /\ message'[m] = message[m]
           \/ m \in Range(stream) /\ message'[m].fate = "settled"
  BY <1>2, DroppedMoves
<1> DEFINE next == base + Len(stream)
<1>5. next \in Nat /\ next >= base
  BY <1>3
<1>6. \A m \in Messages : message'[m].fate = "unsent" <=> m > next
  BY <1>1, <1>3, <1>4 DEF Streams
<1>7. buffer' <= next /\ \A k \in Tasks : task'[k].msg <= next
  <2>1. buffer \in Int /\ \A k \in Tasks : task[k].msg \in Int
    BY <1>3 DEF TypesOK, TaskRec, NULL
  <2> QED  BY <1>1, <1>2, <1>3, <2>1 DEF Streams
<1> HIDE DEF next
<1>8. /\ \A i \in 1..Len(stream') : stream'[i] = next + i
      /\ \A m \in Messages : message'[m].fate = "unsent" <=> m > next + Len(stream')
  BY <1>3, <1>4, <1>5, <1>6
<1> QED  BY <1>5, <1>7, <1>8 DEF StreamOK, Streams

\* A message that has been received settles, or none does.
LEMMA SettledStream ==
  ASSUME TypesOK, NEW base \in Nat, Streams(base), UNCHANGED <<stream, buffer>>,
         \A k \in Tasks : task'[k].msg <= base,
         \/ message' = message
         \/ \E m \in Messages \cup {NULL} : m <= base /\ message' = Settle({m})
  PROVE  StreamOK'
<1>1. \A m \in Messages : message'[m].fate = "unsent" <=> message[m].fate = "unsent"
  <2>1. message \in [Messages -> MsgRec] /\ Len(stream) \in Nat
    BY DEF TypesOK
  <2>2. ASSUME NEW n \in Messages \cup {NULL}, n <= base, message' = Settle({n}),
               NEW m \in Messages
        PROVE  message'[m].fate = "unsent" <=> message[m].fate = "unsent"
    <3>1. CASE m # n
      BY <2>1, <2>2, <3>1, Settles
    <3>2. CASE m = n
      <4>1. message'[m].fate = "settled"
        BY <2>1, <2>2, <3>2, Settles
      <4>2. message[m].fate # "unsent"
        BY <2>1, <2>2, <3>2, StreamInOrder DEF Streams
      <4> QED  BY <4>1, <4>2
    <3> QED  BY <3>1, <3>2
  <2> QED  BY <2>2
<1> QED  BY <1>1 DEF StreamOK, Streams

\* The first message of the stream is taken out of it, by a task or by recv.
LEMMA TakenStream ==
  ASSUME TypesOK, NEW base \in Nat, Streams(base), stream # <<>>,
         stream' = Tail(stream), buffer' = Head(stream),
         \A k \in Tasks : task'[k].msg \in {task[k].msg, Head(stream)},
         message' \in [Messages -> MsgRec],
         \A m \in Messages : m # Head(stream) => message'[m] = message[m],
         message'[Head(stream)].fate # "unsent"
  PROVE  StreamOK'
<1> DEFINE n    == Head(stream)
           next == base + 1
<1>1. /\ stream \in Seq(Messages) /\ n \in Messages /\ n = next
      /\ Len(stream) \in Nat /\ Len(stream) > 0
      /\ stream' \in Seq(Messages) /\ Len(stream') = Len(stream) - 1
      /\ \A i \in 1..Len(stream') : stream'[i] = stream[i + 1]
  BY StreamEnds DEF TypesOK, Streams
<1>2. \A i \in 1..Len(stream') : stream'[i] = next + i
  BY <1>1 DEF Streams
<1>3. \A m \in Messages : message'[m].fate = "unsent" <=> m > next + Len(stream')
  <2>1. \A m \in Messages : m \in Int
    BY BoundAssumption DEF Messages
  <2> QED  BY <1>1, <2>1 DEF Streams
<1>4. buffer' <= next /\ \A k \in Tasks : task'[k].msg <= next
  <2>1. \A k \in Tasks : task[k].msg \in Int
    BY BoundAssumption DEF TypesOK, TaskRec, NULL, Messages
  <2>2. \A k \in Tasks : task'[k].msg = task[k].msg \/ task'[k].msg = next
    BY <1>1
  <2> QED  BY <1>1, <2>1, <2>2 DEF Streams
<1>5. next \in Nat
  OBVIOUS
<1> HIDE DEF next
<1> QED  BY <1>2, <1>3, <1>4, <1>5 DEF StreamOK, Streams

LEMMA OtherStream ==
  ASSUME TypesOK, StreamOK,
         \/ \E topic \in Topics : Subscribe(topic) \/ Unsubscribe(topic)
         \/ Free \/ Recv \/ DoWork \/ StopRunning \/ Kill \/ Arrive
         \/ \E k \in Tasks : TaskStep(k)
  PROVE  StreamOK'
<1>1. PICK base \in Nat : Streams(base)
  BY DEF StreamOK
<1>2. /\ task \in [Tasks -> TaskRec] /\ message \in [Messages -> MsgRec]
      /\ stream \in Seq(Messages) /\ Len(stream) \in Nat
      /\ \A k \in Tasks : task[k].msg <= base /\ task[k].msg \in Messages \cup {NULL}
      /\ buffer <= base /\ buffer \in Messages \cup {NULL}
  BY <1>1 DEF TypesOK, TaskRec, Streams
<1>3. NULL <= base
  BY DEF NULL
<1>4. ASSUME NEW k \in Tasks, NEW c, c.msg = task[k].msg \/ c.msg = NULL,
             task' = [task EXCEPT ![k] = c]
      PROVE  \A j \in Tasks : task'[j].msg <= base
  BY <1>2, <1>3, <1>4
<1>5. ASSUME UNCHANGED <<task, buffer, stream, message>>  PROVE StreamOK'
  BY <1>1, <1>5 DEF StreamOK, Streams
<1>6. ASSUME NEW topic \in Topics, Subscribe(topic) \/ Unsubscribe(topic) \/ Free
      PROVE  StreamOK'
  BY <1>5, <1>6 DEF Subscribe, Unsubscribe, Free, taskVars, modemVars
<1>7. CASE Free \/ StopRunning
  BY <1>5, <1>7 DEF Free, StopRunning, taskVars, modemVars
<1>8. CASE Recv
  <2>1. /\ stream # <<>> /\ buffer' = Head(stream) /\ stream' = Tail(stream)
        /\ message' = Settle({Head(stream)}) /\ task' = task
    BY <1>8 DEF Recv
  <2>2. Head(stream) \in Messages
    BY <1>2, <2>1, StreamEnds
  <2>3. /\ message' \in [Messages -> MsgRec]
        /\ \A m \in Messages : m # Head(stream) => message'[m] = message[m]
        /\ message'[Head(stream)].fate = "settled"
    BY <1>2, <2>1, <2>2, Settles
  <2> QED  BY <1>1, <2>1, <2>3, TakenStream
<1>9. CASE DoWork
  <2>1. PICK k \in Tasks : task' = [task EXCEPT ![k].at = "check"]
    BY <1>9 DEF DoWork
  <2>2. \A j \in Tasks : task'[j].msg = task[j].msg
    BY <1>2, <2>1 DEF TaskRec
  <2> QED  BY <1>1, <1>2, <1>9, <2>2, SettledStream DEF DoWork, modemVars
<1>10. CASE Kill
  <2>1. CASE thread = NULL
    BY <1>5, <1>10, <2>1 DEF Kill, EndTask
  <2>2. CASE thread # NULL
    <3>1. /\ thread \in Tasks /\ task' = [task EXCEPT ![thread] = Ended]
          /\ message' = Settle({task[thread].msg}) /\ UNCHANGED <<stream, buffer>>
      BY <1>10, <2>2 DEF Kill, EndTask, TypesOK
    <3>2. \A j \in Tasks : task'[j].msg <= base
      BY <1>4, <3>1 DEF Ended
    <3> QED  BY <1>1, <1>2, <3>1, <3>2, SettledStream
  <2> QED  BY <2>1, <2>2
<1>11. CASE Arrive
  <2>1. PICK m \in Messages, t \in accepted :
          /\ message[m].fate = "unsent" /\ \A o \in 1..(m - 1) : message[o].fate # "unsent"
          /\ message' = [message EXCEPT ![m] = [path |-> Path(t), fate |-> "stream"]]
          /\ stream' = Append(stream, m)
    BY <1>11 DEF Arrive
  <2>2. UNCHANGED <<buffer, task>>
    BY <1>11 DEF Arrive, taskVars
  <2>3. m = base + Len(stream) + 1
    <3>1. m \in Int /\ m <= MAX_MSGS /\ MAX_MSGS \in Nat /\ m > base + Len(stream)
      BY <1>1, <2>1, BoundAssumption DEF Messages, Streams
    <3>2. ASSUME m > base + Len(stream) + 1  PROVE FALSE
      <4> DEFINE o == base + Len(stream) + 1
      <4>1. o \in 1..(m - 1) /\ o \in Messages /\ o > base + Len(stream)
        BY <1>2, <3>1, <3>2 DEF Messages
      <4> HIDE DEF o
      <4> QED  BY <1>1, <2>1, <4>1 DEF Streams
    <3> QED  BY <1>2, <3>1, <3>2
  <2>4. /\ Len(stream') = Len(stream) + 1
        /\ \A i \in 1..Len(stream) : stream'[i] = stream[i]
        /\ stream'[Len(stream) + 1] = m
    BY <1>2, <2>1
  <2>5. \A i \in 1..Len(stream') : stream'[i] = base + i
    BY <1>1, <1>2, <2>3, <2>4 DEF Streams
  <2>6. \A n \in Messages : message'[n].fate = "unsent" <=> n > base + Len(stream')
    <3>1. /\ message'[m].fate = "stream"
          /\ \A n \in Messages : n # m => message'[n] = message[n]
      BY <1>2, <2>1
    <3>2. \A n \in Messages : n \in Int
      BY BoundAssumption DEF Messages
    <3>3. \A n \in Messages : n # m =>
            (n > base + Len(stream') <=> n > base + Len(stream))
      BY <1>2, <2>3, <2>4, <3>2
    <3>4. ~(m > base + Len(stream'))
      BY <1>2, <2>3, <2>4
    <3> QED  BY <1>1, <3>1, <3>3, <3>4 DEF Streams
  <2> QED  BY <1>1, <2>2, <2>5, <2>6 DEF StreamOK, Streams
<1>12. ASSUME NEW k \in Tasks, TaskStep(k)
       PROVE  StreamOK'
  <2>1. task[k] \in TaskRec
    BY <1>2
  <2>2. CASE TaskCheck(k) \/ (TaskRecv(k) /\ stream = <<>>)
    <3>1. PICK to \in {"check", "recv", "ended"} : task' = [task EXCEPT ![k].at = to]
      BY <2>2 DEF TaskCheck, TaskRecv, Step
    <3>2. \A j \in Tasks : task'[j].msg = task[j].msg
      BY <1>2, <3>1 DEF TaskRec
    <3>3. UNCHANGED <<buffer, stream, message>>
      BY <2>2 DEF TaskCheck, TaskRecv, modemVars
    <3> QED  BY <1>1, <1>2, <3>2, <3>3, SettledStream
  <2>3. CASE TaskRecv(k) /\ stream # <<>>
    <3> DEFINE m == Head(stream)
               c == [task[k] EXCEPT !.at = "find", !.msg = m]
    <3>1. /\ task' = [task EXCEPT ![k] = c] /\ buffer' = m /\ stream' = Tail(stream)
          /\ message' = [message EXCEPT ![m].fate = "taken"]
      BY <2>3 DEF TaskRecv, ReadStream
    <3>2. m \in Messages /\ message[m] \in MsgRec
      BY <1>2, <2>3, StreamEnds
    <3> HIDE DEF m
    <3>3. c.msg = m
      BY <2>1 DEF TaskRec
    <3> HIDE DEF c
    <3>4. \A j \in Tasks : task'[j].msg = task[j].msg \/ task'[j].msg = m
      BY <1>2, <3>1, <3>3
    <3>5. /\ message' \in [Messages -> MsgRec]
          /\ \A n \in Messages : n # m => message'[n] = message[n]
          /\ message'[m].fate = "taken"
      BY <1>2, <3>1, <3>2 DEF MsgRec, Fates
    <3> QED  BY <1>1, <2>3, <3>1, <3>4, <3>5, TakenStream DEF m
  <2>4. CASE TaskFind(k)
    <3> DEFINE n == Find(message[buffer].path)
    <3>1. UNCHANGED <<buffer, stream>>
      BY <2>4 DEF TaskFind
    <3>2. CASE n = NULL
      <4>1. task' = [task EXCEPT ![k] = Round] /\ message' = Settle({task[k].msg})
        BY <2>4, <3>2 DEF TaskFind
      <4>2. \A j \in Tasks : task'[j].msg <= base
        BY <1>4, <4>1 DEF Round
      <4> QED  BY <1>1, <1>2, <3>1, <4>1, <4>2, SettledStream
    <3>3. CASE n # NULL
      <4> HIDE DEF n
      <4> DEFINE c == [task[k] EXCEPT !.at = "call", !.subp = n]
      <4>1. task' = [task EXCEPT ![k] = c] /\ message' = message
        BY <2>4, <3>3 DEF TaskFind, n
      <4>2. c.msg = task[k].msg
        BY <2>1 DEF TaskRec
      <4> HIDE DEF c
      <4>3. \A j \in Tasks : task'[j].msg <= base
        BY <1>4, <4>1, <4>2
      <4> QED  BY <1>1, <3>1, <4>1, <4>3, SettledStream
    <3> QED  BY <3>2, <3>3
  <2>5. CASE TaskCall(k)
    <3>1. /\ task' = [task EXCEPT ![k] = Round] /\ message' = Settle({buffer})
          /\ UNCHANGED <<buffer, stream>>
      BY <2>5 DEF TaskCall
    <3>2. \A j \in Tasks : task'[j].msg <= base
      BY <1>4, <3>1 DEF Round
    <3> QED  BY <1>1, <1>2, <3>1, <3>2, SettledStream
  <2> QED  BY <1>12, <2>2, <2>3, <2>4, <2>5 DEF TaskStep
<1> QED  BY <1>6, <1>7, <1>8, <1>9, <1>10, <1>11, <1>12

-----------------------------------------------------------------------------
(* The tasks, the buffers and the list.                                    *)

TasksOK == OneTask /\ CallsListed /\ BufferSet /\ BufferKept

\* A task that has a message is alive.
LEMMA BusyIsAlive ==
  ASSUME NEW k \in Tasks, task[k].at \in {"find", "call"}
  PROVE  k \in Alive
  BY DEF Alive

\* No task comes to a message or to a handler, none starts, and the application
\* takes no node out of the list.
LEMMA TasksKept ==
  ASSUME TasksOK, rash' = rash, list' = list, buffer' = buffer,
         Leaving' => Leaving, Alive' \subseteq Alive,
         thread' = thread \/ ("dowork" \notin rash => Alive' = {}),
         \A j \in Tasks : task'[j].at \in {"find", "call"} =>
            /\ task'[j].at = task[j].at /\ task'[j].msg = task[j].msg
            /\ task'[j].subp = task[j].subp
  PROVE  TasksOK'
<1>1. OneTask'
  BY DEF TasksOK, OneTask
<1>2. CallsListed'
  BY DEF TasksOK, CallsListed
<1>3. BufferSet' /\ BufferKept'
  BY DEF TasksOK, BufferSet, BufferKept
<1> QED  BY <1>1, <1>2, <1>3 DEF TasksOK

LEMMA CommandsTasks ==
  ASSUME Shape, TasksOK, Commands
  PROVE  TasksOK'
<1>1. UNCHANGED <<list, node, thread, task, buffer, rash>>
  BY CommandsDrop DEF Shape
<1>2. Leaving' => Leaving
  BY <1>1, CommandsApp DEF Shape
<1>3. Alive' = Alive
  BY <1>1 DEF Alive
<1> QED  BY <1>1, <1>2, <1>3, TasksKept

LEMMA ListStepsTasks ==
  ASSUME Shape, TasksOK, NEW topic \in Topics,
         Subscribe(topic) \/ Unsubscribe(topic) \/ Free
  PROVE  TasksOK'
<1>1. TypesOK /\ ListOK /\ AppOK
  BY DEF Shape
<1>2. UNCHANGED <<thread, task, buffer>> /\ Alive' = Alive
  BY DEF Subscribe, Unsubscribe, Free, taskVars, Alive
<1>3. CASE Subscribe(topic)
  <2>1. CASE Known(topic)
    <3>1. UNCHANGED <<list, node, app, rash>>
      BY <1>3, <2>1 DEF Subscribe
    <3> QED  BY <1>2, <3>1, TasksKept DEF Leaving
  <2>2. CASE ~Known(topic)
    <3>1. PICK n \in Nodes : app' = [todo |-> <<"ask">>, sub |-> n]
      BY <1>3, <2>2 DEF Subscribe, Enter
    <3>2. app'.todo = <<"ask">>
      BY <3>1
    <3>3. ~Leaving'
      BY <3>2 DEF Leaving
    <3>4. list = <<>> /\ rash' = rash
      BY <1>1, <1>3, <2>2, FindListed DEF Subscribe, Known, ListOK
    <3>5. "unsubscribe" \notin rash => \A k \in Tasks : task[k].at # "call"
      BY <3>4 DEF TasksOK, CallsListed
    <3>6. CallsListed'
      BY <1>2, <3>3, <3>4, <3>5 DEF CallsListed
    <3>7. OneTask' /\ BufferSet' /\ BufferKept'
      BY <1>2, <3>4 DEF TasksOK, OneTask, BufferSet, BufferKept
    <3> QED  BY <3>6, <3>7 DEF TasksOK
  <2> QED  BY <2>1, <2>2
<1>4. CASE Unsubscribe(topic)
  <2>1. /\ rash \subseteq rash'
        /\ "unsubscribe" \notin rash' => Alive = {}
    BY <1>4 DEF Unsubscribe, Rashly
  <2>2. CallsListed'
    BY <1>2, <2>1, BusyIsAlive DEF CallsListed
  <2>3. OneTask' /\ BufferSet' /\ BufferKept'
    BY <1>2, <2>1 DEF TasksOK, OneTask, BufferSet, BufferKept
  <2> QED  BY <2>2, <2>3 DEF TasksOK
<1>5. CASE Free
  <2>1. /\ app' = Resting /\ UNCHANGED <<list, rash>>
    BY <1>1, <1>5, StepsInOrder DEF Free
  <2>2. ~Leaving'
    BY <2>1 DEF Leaving, Resting
  <2> QED  BY <1>2, <2>1, <2>2, TasksKept
<1> QED  BY <1>3, <1>4, <1>5

LEMMA TaskStepsTasks ==
  ASSUME Shape, TasksOK,
         \/ Recv \/ DoWork \/ StopRunning \/ Kill \/ Arrive
         \/ \E k \in Tasks : TaskStep(k)
  PROVE  TasksOK'
<1>1. /\ TypesOK /\ ListOK /\ AppOK /\ task \in [Tasks -> TaskRec]
      /\ stream \in Seq(Messages) /\ NULL \notin Tasks /\ NULL \notin Messages
  BY BoundAssumption DEF Shape, TypesOK, Tasks, Messages, NULL
\* One task moves on, and does not come to a message.
<1>2. ASSUME NEW k \in Tasks, NEW c, task' = [task EXCEPT ![k] = c],
             c.at \notin {"find", "call"},
             UNCHANGED <<rash, list, buffer, thread, app, node>>, k \in Alive
      PROVE  TasksOK'
  <2>1. /\ task'[k] = c /\ \A j \in Tasks \ {k} : task'[j] = task[j]
    BY <1>1, <1>2
  <2>2. Alive' \subseteq Alive
    BY <1>2, <2>1 DEF Alive
  <2>3. \A j \in Tasks : task'[j].at \in {"find", "call"} => task'[j] = task[j]
    BY <1>2, <2>1
  <2>4. Leaving' => Leaving
    BY <1>2 DEF Leaving
  <2> QED  BY <1>2, <2>2, <2>3, <2>4, TasksKept
<1>3. CASE Recv
  <2>1. /\ rash \subseteq rash' /\ ("recv" \notin rash' => Alive = {})
        /\ "unsubscribe" \in rash' => "unsubscribe" \in rash
        /\ UNCHANGED <<list, node, thread, task, app>>
        /\ buffer' = Head(stream) /\ stream # <<>>
    BY <1>3 DEF Recv, Rashly, listVars
  <2>2. Alive' = Alive /\ (Leaving' => Leaving)
    BY <2>1 DEF Alive, Leaving
  <2>3. OneTask' /\ CallsListed'
    BY <2>1, <2>2 DEF TasksOK, OneTask, CallsListed
  <2>4. BufferSet'
    BY <1>1, <2>1, StreamEnds DEF BufferSet
  <2>5. BufferKept'
    BY <2>1, BusyIsAlive DEF BufferKept
  <2> QED  BY <2>3, <2>4, <2>5 DEF TasksOK
<1>4. CASE DoWork
  <2>1. PICK k \in Tasks : /\ task[k].at = "none" /\ thread' = k
                           /\ task' = [task EXCEPT ![k].at = "check"]
    BY <1>4 DEF DoWork
  <2>2. /\ rash \subseteq rash' /\ ("dowork" \notin rash' => thread = NULL)
        /\ "unsubscribe" \in rash' => "unsubscribe" \in rash
        /\ UNCHANGED <<list, buffer, app>> /\ app.todo = <<>>
    BY <1>4 DEF DoWork, Rashly, listVars, Idle
  <2>3. /\ task'[k].at = "check" /\ \A j \in Tasks \ {k} : task'[j] = task[j]
    BY <1>1, <2>1 DEF TaskRec
  <2>4. Alive' = Alive \cup {k}
    BY <2>1, <2>3 DEF Alive
  <2>5. "dowork" \notin rash' => Alive = {}
    BY <1>1, <2>2 DEF TasksOK, OneTask, Alive
  <2>6. OneTask'
    BY <2>1, <2>4, <2>5 DEF OneTask
  <2>7. ~Leaving'
    BY <2>2 DEF Leaving
  <2>8. \A j \in Tasks : task'[j].at \in {"find", "call"} => task'[j] = task[j]
    BY <2>3
  <2>9. CallsListed' /\ BufferSet' /\ BufferKept'
    BY <2>2, <2>7, <2>8 DEF TasksOK, CallsListed, BufferSet, BufferKept
  <2> QED  BY <2>6, <2>9 DEF TasksOK
<1>5. CASE StopRunning
  <2>1. PICK steps \in {<<"kill">>, <<"kill", "disconnect">>, <<"kill", "disconnect", "power">>} :
          app' = [todo |-> steps, sub |-> NULL]
    BY <1>5 DEF StopRunning, Enter
  <2>2. app'.todo = steps
    BY <2>1
  <2>3. ~Leaving'
    BY <2>2 DEF Leaving
  <2>4. UNCHANGED <<list, thread, task, buffer, rash>> /\ Alive' = Alive
    BY <1>5 DEF StopRunning, listVars, Alive
  <2> QED  BY <2>3, <2>4, TasksKept
<1>6. CASE Kill
  <2>1. EndTask /\ UNCHANGED <<list, node, buffer, rash>>
    BY <1>6 DEF Kill, listVars
  <2>2. ~Leaving'
    <3>1. app' = Resting \/ app'.todo \in {<<"disconnect">>, <<"disconnect", "power">>, <<"power">>}
      BY <1>1, <1>6, StepsInOrder DEF Kill
    <3> QED  BY <3>1 DEF Leaving, Resting
  <2>3. CASE thread = NULL
    <3>1. UNCHANGED <<thread, task>> /\ Alive' = Alive
      BY <2>1, <2>3 DEF EndTask, Alive
    <3> QED  BY <2>1, <2>2, <3>1, TasksKept
  <2>4. CASE thread # NULL
    <3>1. thread \in Tasks /\ thread' = NULL /\ task' = [task EXCEPT ![thread] = Ended]
      BY <1>1, <2>1, <2>4 DEF EndTask, TypesOK
    <3>2. task'[thread].at = "ended" /\ \A j \in Tasks \ {thread} : task'[j] = task[j]
      BY <1>1, <3>1 DEF Ended
    <3>3. Alive' \subseteq Alive \ {thread}
      BY <3>2 DEF Alive
    <3>4. "dowork" \notin rash => Alive' = {}
      BY <3>3 DEF TasksOK, OneTask
    <3>5. \A j \in Tasks : task'[j].at \in {"find", "call"} => task'[j] = task[j]
      BY <3>2
    <3> QED  BY <2>1, <2>2, <3>3, <3>4, <3>5, TasksKept
  <2> QED  BY <2>3, <2>4
<1>7. CASE Arrive
  <2>1. UNCHANGED <<list, node, thread, task, buffer, rash, app>>
    BY <1>7 DEF Arrive, listVars, taskVars, bookVars
  <2>2. Alive' = Alive /\ (Leaving' => Leaving)
    BY <2>1 DEF Alive, Leaving
  <2> QED  BY <2>1, <2>2, TasksKept
<1>8. ASSUME NEW k \in Tasks, TaskStep(k)
      PROVE  TasksOK'
  <2>1. /\ UNCHANGED <<list, node, thread, app, rash>> /\ task[k] \in TaskRec /\ k \in Alive
    BY <1>1, <1>8
       DEF TaskStep, TaskCheck, TaskRecv, TaskFind, TaskCall, Step, listVars, bookVars, Alive
  <2>2. CASE TaskCheck(k) \/ (TaskRecv(k) /\ stream = <<>>)
    <3>1. PICK to \in {"check", "recv", "ended"} : task' = [task EXCEPT ![k].at = to]
      BY <2>2 DEF TaskCheck, TaskRecv, Step
    <3> DEFINE c == [task[k] EXCEPT !.at = to]
    <3>2. task' = [task EXCEPT ![k] = c] /\ buffer' = buffer
      BY <1>1, <2>2, <3>1 DEF TaskCheck, TaskRecv
    <3>3. c.at = to
      BY <2>1 DEF TaskRec
    <3> HIDE DEF c
    <3> QED  BY <1>2, <2>1, <3>2, <3>3
  <2>3. CASE TaskRecv(k) /\ stream # <<>>
    <3> DEFINE m == Head(stream)
               c == [task[k] EXCEPT !.at = "find", !.msg = m]
    <3>1. task' = [task EXCEPT ![k] = c] /\ buffer' = m
      BY <2>3 DEF TaskRecv
    <3>2. m \in Messages
      BY <1>1, <2>3, StreamEnds
    <3> HIDE DEF m
    <3>3. c.at = "find" /\ c.msg = m
      BY <2>1 DEF TaskRec
    <3> HIDE DEF c
    <3>4. task'[k] = c /\ \A j \in Tasks \ {k} : task'[j] = task[j]
      BY <1>1, <3>1
    <3>5. Alive' = Alive
      BY <2>1, <3>3, <3>4 DEF Alive
    <3>6. OneTask' /\ CallsListed'
      BY <2>1, <3>3, <3>4, <3>5 DEF TasksOK, OneTask, CallsListed, Leaving
    <3>7. BufferSet'
      BY <1>1, <3>1, <3>2 DEF BufferSet
    <3>8. BufferKept'
      <4> SUFFICES ASSUME rash' \cap {"dowork", "recv"} = {}, NEW j \in Tasks,
                          task'[j].at \in {"find", "call"}
                   PROVE  buffer' = task'[j].msg
        BY DEF BufferKept
      <4>1. j = k
        BY <2>1, <3>4, BusyIsAlive DEF TasksOK, OneTask
      <4> QED  BY <3>1, <3>3, <3>4, <4>1
    <3> QED  BY <3>6, <3>7, <3>8 DEF TasksOK
  <2>4. CASE TaskFind(k)
    <3> DEFINE n == Find(message[buffer].path)
    <3>1. buffer' = buffer /\ task[k].at = "find"
      BY <2>4 DEF TaskFind
    <3>2. CASE n = NULL
      <4>1. task' = [task EXCEPT ![k] = Round] /\ Round.at = "check"
        BY <2>4, <3>2 DEF TaskFind, Round
      <4> QED  BY <1>2, <2>1, <3>1, <4>1
    <3>3. CASE n # NULL
      <4>1. list = <<n>>
        BY <1>1, <3>3, FindListed DEF ListOK
      <4> HIDE DEF n
      <4> DEFINE c == [task[k] EXCEPT !.at = "call", !.subp = n]
      <4>2. task' = [task EXCEPT ![k] = c]
        BY <2>4, <3>3 DEF TaskFind, n
      <4>3. c.at = "call" /\ c.subp = n /\ c.msg = task[k].msg
        BY <2>1 DEF TaskRec
      <4> HIDE DEF c
      <4>4. task'[k] = c /\ \A j \in Tasks \ {k} : task'[j] = task[j]
        BY <1>1, <4>2
      <4>5. Alive' = Alive
        BY <2>1, <4>3, <4>4 DEF Alive
      <4>6. OneTask' /\ BufferSet' /\ BufferKept'
        BY <2>1, <3>1, <4>3, <4>4, <4>5 DEF TasksOK, OneTask, BufferSet, BufferKept
      <4>7. CallsListed'
        BY <2>1, <4>1, <4>3, <4>4, <4>5 DEF TasksOK, CallsListed, Leaving
      <4> QED  BY <4>6, <4>7 DEF TasksOK
    <3> QED  BY <3>2, <3>3
  <2>5. CASE TaskCall(k)
    <3>1. task' = [task EXCEPT ![k] = Round] /\ buffer' = buffer /\ Round.at = "check"
      BY <2>5 DEF TaskCall, Round
    <3> QED  BY <1>2, <2>1, <3>1
  <2> QED  BY <1>8, <2>2, <2>3, <2>4, <2>5 DEF TaskStep
<1> QED  BY <1>3, <1>4, <1>5, <1>6, <1>7, <1>8

-----------------------------------------------------------------------------
(* What the broker sends is of a topic the list has.                       *)

\* A task that is in the middle of a message is, undisturbed, the only one.
LEMMA LoneTask ==
  ASSUME TasksOK, rash = {}, NEW k \in Alive
  PROVE  \A j \in Tasks \ {k} : task[j].at \notin {"find", "call"}
  BY BusyIsAlive DEF TasksOK, OneTask

\* What settles when a message has been received is not in the stream.
LEMMA StreamUntouched ==
  ASSUME TypesOK, NEW base \in Nat, Streams(base),
         NEW m \in Messages \cup {NULL}, m <= base,
         message' = Settle({m}) \/ message' = message
  PROVE  \A i \in 1..Len(stream) : message'[stream[i]] = message[stream[i]]
<1>1. /\ message \in [Messages -> MsgRec] /\ stream \in Seq(Messages) /\ Len(stream) \in Nat
      /\ m \in Int
  BY BoundAssumption DEF TypesOK, Messages, NULL
<1>2. ASSUME NEW i \in 1..Len(stream)
      PROVE  message'[stream[i]] = message[stream[i]]
  <2>1. stream[i] \in Messages /\ stream[i] = base + i
    BY <1>1 DEF Streams
  <2>2. stream[i] \notin {m}
    BY <1>1, <2>1
  <2> QED  BY <1>1, <2>1, <2>2, Settles
<1> QED  BY <1>2

\* With an empty list and nothing to withdraw, no message is on its way.
LEMMA NothingHeld ==
  ASSUME TypesOK, TopicsHeld, CallsListed, faults = 0, rash = {},
         list = <<>>, app.todo # <<"withdraw", "free">>
  PROVE  /\ accepted = {} /\ stream = <<>>
         /\ \A k \in Tasks : task[k].at \notin {"find", "call"}
<1>1. \A t : ~Holds(t)
  BY DEF Holds
<1>2. stream = <<>>
  <2>1. stream \in Seq(Messages) /\ Len(stream) \in Nat
    BY DEF TypesOK
  <2>2. ~ \E i \in 1..Len(stream) : TRUE
    BY <1>1 DEF TopicsHeld
  <2>3. Len(stream) = 0
    <3>1. Len(stream) > 0 => 1 \in 1..Len(stream)
      BY <2>1
    <3> QED  BY <2>1, <2>2, <3>1
  <2> QED  BY <2>1, <2>3
<1> QED  BY <1>1, <1>2 DEF TopicsHeld, CallsListed

\* No task comes to a message or to a handler, and what the stream holds stays
\* of a topic the application has.
LEMMA TopicsKept ==
  ASSUME TopicsHeld, RightHandler,
         faults' = 0 /\ rash' = {} =>
            /\ faults = 0 /\ rash = {}
            /\ \A t \in accepted' : Holds(t)'
            /\ \A i \in 1..Len(stream') : \E t \in message'[stream'[i]].path : Holds(t)'
            /\ \A k \in Tasks : task'[k].at \in {"find", "call"} =>
                 /\ task'[k].at = task[k].at /\ task'[k].subp = task[k].subp
                 /\ node'[task[k].subp] = node[task[k].subp]
                 /\ buffer' = buffer /\ message'[buffer].path = message[buffer].path
                 /\ \A t : Holds(t) => Holds(t)'
  PROVE  TopicsHeld' /\ RightHandler'
<1> SUFFICES ASSUME faults' = 0, rash' = {}
             PROVE  TopicsHeld' /\ RightHandler'
  BY DEF TopicsHeld, RightHandler
<1>1. TopicsHeld'
  BY DEF TopicsHeld
<1>2. RightHandler'
  BY DEF RightHandler
<1> QED  BY <1>1, <1>2

\* A command leaves what the application has, but for the topic it withdraws:
\* then no task is there, and the modem has forgotten it.
LEMMA CommandsHold ==
  ASSUME Shape, Commands, CallsListed, TopicsHeld, faults' = 0, faults = 0, rash = {}
  PROVE  /\ \A t \in accepted' : Holds(t)'
         /\ Alive # {} => \A t : Holds(t) => Holds(t)'
<1>1. /\ TypesOK /\ ListOK /\ AppOK /\ SessionOK
      /\ UNCHANGED <<list, node>>
  BY CommandsDrop DEF Shape
<1>2. \A t \in accepted : Holds(t)
  BY DEF TopicsHeld
<1>3. CASE app.todo # <<"withdraw", "free">>
  <2>1. \A t : Holds(t) => Holds(t)'
    BY <1>1, <1>3 DEF Holds
  <2>2. ~Withdraw
    BY <1>1, <1>3, StepsInOrder DEF Withdraw
  <2>3. \A t \in accepted' : t \in accepted \/ (Ask /\ t = node[app.sub])
    <3>1. CASE Ask
      BY <3>1 DEF Ask
    <3>2. CASE ~Ask
      BY <2>2, <3>2
         DEF Commands, Open, Close, Publish, Connect, OtherCommand, Disconnect, PowerDown
    <3> QED  BY <3>1, <3>2
  <2>4. Ask => Asking
    BY <1>1, StepsInOrder DEF Ask
  <2>5. Ask => Holds(node[app.sub])
    BY <2>4 DEF Asking, Holds
  <2> QED  BY <1>2, <2>1, <2>3, <2>5
<1>4. CASE app.todo = <<"withdraw", "free">>
  <2>1. Leaving /\ list = <<>>
    BY <1>1, <1>4 DEF AppOK, Resting, Asking, Leaving, Stopping
  <2>2. Alive = {}
    BY <2>1 DEF CallsListed
  <2>3. accepted \subseteq {node[app.sub]}
    BY <1>2, <2>1 DEF Holds
  <2>4. CASE Withdraw
    <3>1. PICK ok \in BOOLEAN, taken \in BOOLEAN :
            /\ ok => taken
            /\ Command(ok, {"connected"})
            /\ accepted' = IF taken THEN accepted \ {node[app.sub]} ELSE accepted
      BY <2>4 DEF Withdraw
    <3>2. ok \/ session # "connected"
      BY <1>1, <3>1, CommandMoves
    <3>3. accepted' = {}
      BY <1>1, <2>3, <3>1, <3>2 DEF SessionOK
    <3> QED  BY <2>2, <3>3
  <2>5. CASE ~Withdraw
    <3>1. OtherCommand \/ ~Idle
      BY <1>4 DEF Idle
    <3>2. FALSE
      BY <1>1, <1>4, <2>5, StepsInOrder
         DEF Commands, Open, Close, Publish, Connect, OtherCommand, Ask, Disconnect,
             PowerDown, Idle, Asking, Stopping
    <3> QED  BY <3>2
  <2> QED  BY <2>4, <2>5
<1> QED  BY <1>3, <1>4

LEMMA CommandsTopics ==
  ASSUME IInv, Commands
  PROVE  TopicsHeld' /\ RightHandler'
<1>1. Shape /\ TypesOK /\ CallsListed /\ TopicsHeld /\ RightHandler /\ BufferSet
  BY DEF IInv, Shape
<1>2. PICK base \in Nat : Streams(base)
  BY DEF IInv, StreamOK
<1>3. /\ Dropped /\ (faults' = 0 => faults = 0)
      /\ UNCHANGED <<list, node, thread, task, buffer, rash>>
  BY <1>1, CommandsDrop
<1>4. stream' = <<>> /\ \A m \in Messages : m \notin Range(stream) => message'[m] = message[m]
  BY <1>1, <1>3, DroppedMoves
<1>5. buffer # NULL => message'[buffer] = message[buffer]
  <2>1. buffer \in Messages \cup {NULL} /\ buffer <= base
    BY <1>1, <1>2 DEF TypesOK, Streams
  <2>2. ASSUME buffer \in Messages  PROVE buffer \notin Range(stream)
    BY <1>1, <1>2, <2>1, <2>2, StreamInOrder
  <2> QED  BY <1>4, <2>1, <2>2
<1>6. ASSUME faults' = 0, rash' = {}
      PROVE  /\ faults = 0 /\ rash = {}
             /\ \A t \in accepted' : Holds(t)'
             /\ Alive # {} => \A t : Holds(t) => Holds(t)'
  BY <1>1, <1>3, <1>6, CommandsHold
<1>7. \A k \in Tasks : task'[k].at \in {"find", "call"} =>
         /\ task' = task /\ node' = node /\ buffer' = buffer /\ Alive # {}
         /\ message'[buffer] = message[buffer]
  BY <1>1, <1>3, <1>5, BusyIsAlive DEF BufferSet
<1>8. \A i \in 1..Len(stream') : FALSE
  BY <1>4
<1> QED  BY <1>1, <1>6, <1>7, <1>8, TopicsKept

LEMMA ListStepsTopics ==
  ASSUME IInv, NEW topic \in Topics, Subscribe(topic) \/ Unsubscribe(topic) \/ Free
  PROVE  TopicsHeld' /\ RightHandler'
<1>1. /\ TypesOK /\ ListOK /\ AppOK /\ CallsListed /\ TopicsHeld /\ RightHandler
      /\ UNCHANGED <<task, buffer, accepted, stream, message, faults>>
  BY DEF IInv, Subscribe, Unsubscribe, Free, taskVars, modemVars
\* Where nothing is held, nothing is on its way, and so it stays.
<1>2. ASSUME rash' = rash, list = <<>>, app.todo # <<"withdraw", "free">>
      PROVE  TopicsHeld' /\ RightHandler'
  <2>1. ASSUME faults' = 0, rash' = {}
        PROVE  /\ faults = 0 /\ rash = {} /\ accepted' = {} /\ stream' = <<>>
               /\ \A k \in Tasks : task'[k].at \notin {"find", "call"}
    BY <1>1, <1>2, <2>1, NothingHeld
  <2>2. stream' = <<>> => \A i \in 1..Len(stream') : FALSE
    OBVIOUS
  <2> QED  BY <1>1, <2>1, <2>2, TopicsKept
<1>3. CASE Subscribe(topic)
  <2>1. app.todo # <<"withdraw", "free">>
    BY <1>3 DEF Subscribe, Idle
  <2>2. CASE Known(topic)
    <3>1. UNCHANGED <<list, node, app, rash>>
      BY <1>3, <2>2 DEF Subscribe
    <3>2. \A t : Holds(t)' <=> Holds(t)
      BY <3>1 DEF Holds
    <3>3. TopicsHeld'
      BY <1>1, <3>1, <3>2 DEF TopicsHeld
    <3>4. RightHandler'
      BY <1>1, <3>1 DEF RightHandler
    <3> QED  BY <3>3, <3>4
  <2>3. CASE ~Known(topic)
    <3>1. list = <<>>
      BY <1>1, <2>3, FindListed DEF Known, ListOK
    <3>2. rash' = rash
      BY <1>3 DEF Subscribe
    <3> QED  BY <1>2, <2>1, <3>1, <3>2
  <2> QED  BY <2>2, <2>3
<1>4. CASE Unsubscribe(topic)
  <2> DEFINE n == Find(Path(topic))
  <2>1. n # NULL /\ app' = [todo |-> <<"withdraw", "free">>, sub |-> n] /\ app.todo = <<>>
    BY <1>4 DEF Unsubscribe, Enter, UnsubscribeSteps, Idle
  <2>2. list = <<n>>
    BY <1>1, <2>1, FindListed DEF ListOK
  <2>3. /\ rash' = {} => Alive = {} /\ rash = {}
        /\ node' = node
    BY <1>4 DEF Unsubscribe, Rashly
  <2> HIDE DEF n
  <2>4. app'.todo = <<"withdraw", "free">> /\ app'.sub = n
    BY <2>1
  <2>5. \A t : Holds(t) => Holds(t)'
    <3>1. \A t : Holds(t) => node[n] = t
      BY <2>1, <2>2 DEF Holds
    <3> QED  BY <2>3, <2>4, <3>1 DEF Holds
  <2>6. ASSUME rash' = {}
        PROVE  \A k \in Tasks : task'[k].at \notin {"find", "call"}
    BY <1>1, <2>3, <2>6, BusyIsAlive
  <2>7. ASSUME faults' = 0, rash' = {}
        PROVE  /\ \A t \in accepted' : Holds(t)'
               /\ \A i \in 1..Len(stream') : \E t \in message'[stream'[i]].path : Holds(t)'
    BY <1>1, <2>3, <2>5, <2>7 DEF TopicsHeld
  <2> QED  BY <1>1, <2>3, <2>6, <2>7, TopicsKept
<1>5. CASE Free
  <2>1. Leaving /\ app.todo = <<"free">> /\ rash' = rash
    BY <1>1, <1>5, StepsInOrder DEF Free
  <2>2. list = <<>> /\ app.todo # <<"withdraw", "free">>
    BY <2>1 DEF Leaving
  <2> QED  BY <1>2, <2>1, <2>2
<1> QED  BY <1>3, <1>4, <1>5

LEMMA ClientStepsTopics ==
  ASSUME IInv, Recv \/ DoWork \/ StopRunning \/ Kill
  PROVE  TopicsHeld' /\ RightHandler'
<1>1. /\ TypesOK /\ AppOK /\ TasksOK /\ TopicsHeld /\ RightHandler
      /\ UNCHANGED <<list, node, accepted, faults>> /\ NULL \notin Tasks
      /\ stream \in Seq(Messages) /\ Len(stream) \in Nat
      /\ message \in [Messages -> MsgRec] /\ task \in [Tasks -> TaskRec]
  BY BoundAssumption
     DEF IInv, TasksOK, Recv, DoWork, StopRunning, Kill, listVars, modemVars, NULL, Tasks,
         TypesOK
<1>2. PICK base \in Nat : Streams(base)
  BY DEF IInv, StreamOK
\* The application has the same topics, and so the stream, up to what is read.
<1>3. ASSUME app.todo # <<"withdraw", "free">>, rash \subseteq rash',
             \A i \in 1..Len(stream') : \E j \in 1..Len(stream) :
                message'[stream'[i]] = message[stream[j]],
             rash' = {} => \A k \in Tasks : task'[k].at \in {"find", "call"} =>
                /\ task'[k] = task[k] /\ buffer' = buffer /\ message' = message
      PROVE  TopicsHeld' /\ RightHandler'
  <2>1. \A t : Holds(t) => Holds(t)'
    BY <1>1, <1>3 DEF Holds
  <2>2. ASSUME faults' = 0, rash' = {}
        PROVE  /\ faults = 0 /\ rash = {}
               /\ \A t \in accepted' : Holds(t)'
               /\ \A i \in 1..Len(stream') : \E t \in message'[stream'[i]].path : Holds(t)'
    <3>1. faults = 0 /\ rash = {}
      BY <1>1, <1>3, <2>2
    <3> QED  BY <1>1, <1>3, <2>1, <3>1 DEF TopicsHeld
  <2> QED  BY <1>1, <1>3, <2>1, <2>2, TopicsKept
<1>4. CASE Recv
  <2>1. /\ app.todo = <<>> /\ stream # <<>> /\ stream' = Tail(stream) /\ task' = task
        /\ message' = Settle({Head(stream)}) /\ rash \subseteq rash'
        /\ rash' = {} => Alive = {}
    BY <1>4 DEF Recv, Idle, Rashly
  <2>2. ASSUME NEW i \in 1..Len(stream')
        PROVE  i + 1 \in 1..Len(stream) /\ message'[stream'[i]] = message[stream[i + 1]]
    <3>1. /\ i + 1 \in 1..Len(stream) /\ stream'[i] = stream[i + 1]
          /\ Head(stream) = stream[1] /\ 1 \in 1..Len(stream)
      BY <1>1, <2>1, <2>2, StreamEnds
    <3>2. stream[i + 1] = base + (i + 1) /\ stream[1] = base + 1 /\ stream[i + 1] \in Messages
      BY <1>1, <1>2, <3>1 DEF Streams
    <3>3. stream[i + 1] \notin {Head(stream)}
      BY <3>1, <3>2
    <3> QED  BY <1>1, <2>1, <3>1, <3>2, <3>3, Settles
  <2>3. rash' = {} => \A k \in Tasks : task'[k].at \notin {"find", "call"}
    BY <2>1, BusyIsAlive
  <2>4. \A i \in 1..Len(stream') : \E j \in 1..Len(stream) :
           message'[stream'[i]] = message[stream[j]]
    BY <2>2
  <2>5. app.todo # <<"withdraw", "free">>
    BY <2>1
  <2>6. rash' = {} => \A k \in Tasks : task'[k].at \in {"find", "call"} =>
           /\ task'[k] = task[k] /\ buffer' = buffer /\ message' = message
    BY <2>3
  <2> QED  BY <1>3, <2>1, <2>4, <2>5, <2>6
<1>5. CASE DoWork
  <2>1. PICK k \in Tasks : task' = [task EXCEPT ![k].at = "check"]
    BY <1>5 DEF DoWork
  <2>2. /\ UNCHANGED <<buffer, stream, message>> /\ app.todo = <<>> /\ rash \subseteq rash'
    BY <1>5 DEF DoWork, Idle, Rashly, modemVars
  <2>3. \A j \in Tasks : task'[j].at \in {"find", "call"} => task'[j] = task[j]
    BY <1>1, <2>1 DEF TaskRec
  <2> QED  BY <1>3, <2>2, <2>3
<1>6. CASE StopRunning
  <2>1. UNCHANGED <<task, buffer, stream, message, rash>> /\ app.todo = <<>>
    BY <1>6 DEF StopRunning, Idle, modemVars
  <2> QED  BY <1>3, <2>1
<1>7. CASE Kill
  <2>1. EndTask /\ UNCHANGED <<stream, rash>> /\ app.todo # <<"withdraw", "free">>
    BY <1>7 DEF Kill, At
  <2>2. ASSUME rash' = {}
        PROVE  \A k \in Tasks : task'[k].at \notin {"find", "call"}
    <3>1. \A k \in Alive : k = thread
      BY <2>1, <2>2, <1>1 DEF TasksOK, OneTask
    <3>2. CASE thread = NULL
      BY <1>1, <2>1, <3>1, <3>2, BusyIsAlive DEF EndTask
    <3>3. CASE thread # NULL
      <4>1. thread \in Tasks /\ task' = [task EXCEPT ![thread] = Ended]
        BY <1>1, <2>1, <3>3 DEF EndTask, TypesOK
      <4>2. task'[thread].at = "ended" /\ \A j \in Tasks \ {thread} : task'[j] = task[j]
        BY <1>1, <4>1 DEF Ended
      <4> QED  BY <3>1, <4>2, BusyIsAlive
    <3> QED  BY <3>2, <3>3
  <2>3. \A i \in 1..Len(stream) : message'[stream[i]] = message[stream[i]]
    <3>1. CASE thread = NULL
      BY <2>1, <3>1 DEF EndTask
    <3>2. CASE thread # NULL
      <4>1. thread \in Tasks /\ message' = Settle({task[thread].msg})
        BY <1>1, <2>1, <3>2 DEF EndTask, TypesOK
      <4>2. task[thread].msg \in Messages \cup {NULL} /\ task[thread].msg <= base
        BY <1>1, <1>2, <4>1 DEF TaskRec, Streams
      <4> QED  BY <1>1, <1>2, <4>1, <4>2, StreamUntouched
    <3> QED  BY <3>1, <3>2
  <2>4. \A i \in 1..Len(stream') : \E j \in 1..Len(stream) :
           message'[stream'[i]] = message[stream[j]]
    BY <2>1, <2>3
  <2>5. rash' = {} => \A k \in Tasks : task'[k].at \in {"find", "call"} =>
           /\ task'[k] = task[k] /\ buffer' = buffer /\ message' = message
    BY <2>2
  <2> QED  BY <1>3, <2>1, <2>4, <2>5
<1> QED  BY <1>4, <1>5, <1>6, <1>7

LEMMA ArriveTopics ==
  ASSUME IInv, Arrive
  PROVE  TopicsHeld' /\ RightHandler'
<1>1. /\ TypesOK /\ BufferSet /\ TopicsHeld /\ RightHandler
      /\ UNCHANGED <<list, node, app, task, buffer, accepted, faults, rash>>
      /\ stream \in Seq(Messages) /\ Len(stream) \in Nat /\ accepted \subseteq Topics
      /\ message \in [Messages -> MsgRec]
  BY DEF IInv, Arrive, listVars, taskVars, bookVars, TypesOK
<1>2. PICK base \in Nat : Streams(base)
  BY DEF IInv, StreamOK
<1>3. PICK m \in Messages, t \in accepted :
         /\ message[m].fate = "unsent"
         /\ message' = [message EXCEPT ![m] = [path |-> Path(t), fate |-> "stream"]]
         /\ stream' = Append(stream, m)
  BY DEF Arrive
<1>4. \A s : Holds(s) => Holds(s)'
  BY <1>1 DEF Holds
\* The message is later than any in the stream, and than any received.
<1>5. m \in Int /\ m > base + Len(stream)
  BY <1>1, <1>2, <1>3, StreamInOrder DEF Streams
<1>6. /\ message'[m].path = Path(t)
      /\ \A n \in Messages : n # m => message'[n] = message[n]
  BY <1>1, <1>3
<1>7. buffer # NULL => message'[buffer] = message[buffer]
  BY <1>1, <1>2, <1>5, <1>6 DEF TypesOK, Streams
<1>8. /\ Len(stream') = Len(stream) + 1 /\ stream'[Len(stream) + 1] = m
      /\ \A i \in 1..Len(stream) : /\ stream'[i] = stream[i] /\ stream[i] \in Messages
                                   /\ stream[i] # m
  BY <1>1, <1>2, <1>3, <1>5 DEF Streams
<1>9. ASSUME faults' = 0, rash' = {}, NEW i \in 1..Len(stream')
      PROVE  \E s \in message'[stream'[i]].path : Holds(s)'
  <2>1. CASE i = Len(stream) + 1
    BY <1>1, <1>4, <1>6, <1>8, <1>9, <2>1, PathOfTopic DEF TopicsHeld
  <2>2. CASE i # Len(stream) + 1
    <3>1. i \in 1..Len(stream)
      BY <1>1, <1>8, <2>2
    <3>2. message'[stream'[i]] = message[stream[i]]
      BY <1>6, <1>8, <3>1
    <3> QED  BY <1>1, <1>4, <1>9, <3>1, <3>2 DEF TopicsHeld
  <2> QED  BY <2>1, <2>2
<1>10. ASSUME faults' = 0, rash' = {}
       PROVE  faults = 0 /\ rash = {} /\ \A s \in accepted' : Holds(s)'
  BY <1>1, <1>4, <1>10 DEF TopicsHeld
<1>11. \A k \in Tasks : task'[k].at \in {"find", "call"} => message'[buffer] = message[buffer]
  BY <1>1, <1>7 DEF BufferSet
<1> QED  BY <1>1, <1>4, <1>9, <1>10, <1>11, TopicsKept

LEMMA TaskStepsTopics ==
  ASSUME IInv, NEW k \in Tasks, TaskStep(k)
  PROVE  TopicsHeld' /\ RightHandler'
<1>1. /\ TypesOK /\ ListOK /\ AppOK /\ TasksOK /\ TopicsHeld /\ RightHandler
      /\ UNCHANGED <<list, node, app, accepted, faults, rash>>
      /\ stream \in Seq(Messages) /\ Len(stream) \in Nat
      /\ message \in [Messages -> MsgRec] /\ task \in [Tasks -> TaskRec] /\ task[k] \in TaskRec
  BY DEF IInv, TasksOK, TaskStep, TaskCheck, TaskRecv, TaskFind, TaskCall, listVars,
         modemVars, bookVars, TypesOK
<1>2. PICK base \in Nat : Streams(base)
  BY DEF IInv, StreamOK
<1>3. k \in Alive
  BY DEF Alive, TaskStep, TaskCheck, TaskRecv, TaskFind, TaskCall, Step
<1>4. \A t : Holds(t) <=> Holds(t)'
  BY <1>1 DEF Holds
\* The other tasks are not in the middle of a message.
<1>5. ASSUME rash' = {}, NEW c, task' = [task EXCEPT ![k] = c]
      PROVE  /\ rash = {} /\ task'[k] = c
             /\ \A j \in Tasks \ {k} : task'[j].at \notin {"find", "call"}
  BY <1>1, <1>3, <1>5, LoneTask
\* The task has done with its message, if it had one.
<1>6. ASSUME NEW c, task' = [task EXCEPT ![k] = c], c.at \notin {"find", "call"},
             stream' = stream,
             \A i \in 1..Len(stream) : message'[stream[i]] = message[stream[i]]
      PROVE  TopicsHeld' /\ RightHandler'
  <2>1. ASSUME rash' = {}, faults' = 0
        PROVE  /\ faults = 0 /\ rash = {}
               /\ \A t \in accepted' : Holds(t)'
               /\ \A i \in 1..Len(stream') : \E t \in message'[stream'[i]].path : Holds(t)'
               /\ \A j \in Tasks : task'[j].at \notin {"find", "call"}
    BY <1>1, <1>4, <1>5, <1>6, <2>1 DEF TopicsHeld
  <2> QED  BY <1>1, <2>1, TopicsKept
<1>7. CASE TaskCheck(k) \/ (TaskRecv(k) /\ stream = <<>>)
  <2>1. PICK to \in {"check", "recv", "ended"} : task' = [task EXCEPT ![k].at = to]
    BY <1>7 DEF TaskCheck, TaskRecv, Step
  <2> DEFINE c == [task[k] EXCEPT !.at = to]
  <2>2. task' = [task EXCEPT ![k] = c] /\ stream' = stream /\ message' = message
    BY <1>1, <1>7, <2>1 DEF TaskCheck, TaskRecv, modemVars
  <2>3. c.at = to
    BY <1>1 DEF TaskRec
  <2> HIDE DEF c
  <2> QED  BY <1>6, <2>1, <2>2, <2>3
<1>8. CASE TaskRecv(k) /\ stream # <<>>
  <2> DEFINE m == Head(stream)
             c == [task[k] EXCEPT !.at = "find", !.msg = m]
  <2>1. /\ task' = [task EXCEPT ![k] = c] /\ buffer' = m /\ stream' = Tail(stream)
        /\ message' = [message EXCEPT ![m].fate = "taken"]
    BY <1>8 DEF TaskRecv, ReadStream
  <2>2. c.at = "find"
    BY <1>1 DEF TaskRec
  <2>3. m \in Messages /\ m = stream[1] /\ 1 \in 1..Len(stream)
    BY <1>1, <1>8, StreamEnds
  <2> HIDE DEF c, m
  <2>4. \A n \in Messages : message'[n].path = message[n].path
    BY <1>1, <2>1, <2>3 DEF MsgRec
  <2>5. \A i \in 1..Len(stream') : /\ i + 1 \in 1..Len(stream) /\ stream[i + 1] \in Messages
                                   /\ stream'[i] = stream[i + 1]
    BY <1>1, <1>8, <2>1, StreamEnds
  <2>6. ASSUME rash' = {}, faults' = 0
        PROVE  TopicsHeld' /\ RightHandler'
    <3>1. faults = 0 /\ rash = {} /\ \A t \in accepted' : Holds(t)'
      BY <1>1, <1>4, <2>6 DEF TopicsHeld
    <3>2. ASSUME NEW i \in 1..Len(stream)
          PROVE  \E t \in message[stream[i]].path : Holds(t)'
      BY <1>1, <1>4, <3>1 DEF TopicsHeld
    <3>3. \A i \in 1..Len(stream') : \E t \in message'[stream'[i]].path : Holds(t)'
      BY <2>4, <2>5, <3>2
    <3>4. \E t \in message'[buffer'].path : Holds(t)'
      BY <2>1, <2>3, <2>4, <3>2
    <3>5. TopicsHeld'
      BY <3>1, <3>3, <3>4 DEF TopicsHeld
    <3>6. RightHandler'
      BY <1>5, <2>1, <2>2, <2>6 DEF RightHandler
    <3> QED  BY <3>5, <3>6
  <2> QED  BY <2>6 DEF TopicsHeld, RightHandler
<1>9. CASE TaskFind(k)
  <2> DEFINE n == Find(message[buffer].path)
  <2>1. /\ UNCHANGED <<buffer, stream>> /\ task[k].at = "find"
        /\ task[k].msg \in Messages \cup {NULL} /\ task[k].msg <= base
    BY <1>1, <1>2, <1>9 DEF TaskFind, TaskRec, Streams
  <2>2. CASE n = NULL
    <3>1. task' = [task EXCEPT ![k] = Round] /\ message' = Settle({task[k].msg})
      BY <1>9, <2>2 DEF TaskFind
    <3>2. Round.at \notin {"find", "call"}
      BY DEF Round
    <3>3. \A i \in 1..Len(stream) : message'[stream[i]] = message[stream[i]]
      BY <1>1, <1>2, <2>1, <3>1, StreamUntouched
    <3> QED  BY <1>6, <2>1, <3>1, <3>2, <3>3
  <2>3. CASE n # NULL
    <3>1. list = <<n>>
      BY <1>1, <2>3, FindListed DEF ListOK
    <3> HIDE DEF n
    <3> DEFINE c == [task[k] EXCEPT !.at = "call", !.subp = n]
    <3>2. task' = [task EXCEPT ![k] = c] /\ message' = message
      BY <1>9, <2>3 DEF TaskFind, n
    <3>3. c.at = "call" /\ c.subp = n
      BY <1>1 DEF TaskRec
    <3> HIDE DEF c
    <3>4. ASSUME rash' = {}, faults' = 0
          PROVE  TopicsHeld' /\ RightHandler'
      <4>1. /\ faults = 0 /\ rash = {} /\ task'[k] = c
            /\ \A j \in Tasks \ {k} : task'[j].at \notin {"find", "call"}
        BY <1>1, <1>5, <3>2, <3>4
      <4>2. TopicsHeld'
        BY <1>1, <1>4, <2>1, <3>2, <3>3, <4>1 DEF TopicsHeld
      <4>3. PICK t \in message[buffer].path : Holds(t)
        BY <1>1, <2>1, <4>1 DEF TopicsHeld
      \* It is in the list: the application is not withdrawing it.
      <4>4. app.todo # <<"withdraw", "free">>
        <5> SUFFICES ASSUME app.todo = <<"withdraw", "free">>  PROVE FALSE
          OBVIOUS
        <5>1. Leaving
          <6>1. AppOK
            BY <1>1
          <6>2. ~(app = Resting) /\ ~Asking
            BY DEF Resting, Asking
          <6>3. ~Stopping
            BY DEF Stopping
          <6> QED  BY <6>1, <6>2, <6>3 DEF AppOK
        <5> QED  BY <3>1, <5>1 DEF Leaving
      <4>5. node[n] = t
        BY <3>1, <4>3, <4>4 DEF Holds
      <4>6. RightHandler'
        BY <1>1, <2>1, <3>2, <3>3, <4>1, <4>5, <4>3 DEF RightHandler
      <4> QED  BY <4>2, <4>6
    <3> QED  BY <3>4 DEF TopicsHeld, RightHandler
  <2> QED  BY <2>2, <2>3
<1>10. CASE TaskCall(k)
  <2>1. /\ task' = [task EXCEPT ![k] = Round] /\ message' = Settle({buffer})
        /\ UNCHANGED <<buffer, stream>>
    BY <1>10 DEF TaskCall
  <2>2. Round.at \notin {"find", "call"}
    BY DEF Round
  <2>3. buffer \in Messages \cup {NULL} /\ buffer <= base
    BY <1>1, <1>2 DEF TypesOK, Streams
  <2>4. \A i \in 1..Len(stream) : message'[stream[i]] = message[stream[i]]
    BY <1>1, <1>2, <2>1, <2>3, StreamUntouched
  <2> QED  BY <1>6, <2>1, <2>2, <2>4
<1> QED  BY <1>7, <1>8, <1>9, <1>10 DEF TaskStep

-----------------------------------------------------------------------------
(* The invariant holds, and what follows from it.                          *)

\* A stuttering step changes nothing the invariant is about.
LEMMA StutterKeeps ==
  ASSUME IInv, UNCHANGED vars
  PROVE  IInv'
<1>1. /\ UNCHANGED <<list, node, running, thread, task, buffer, app, kept>>
      /\ UNCHANGED <<session, accepted, stream, message, rash, faults>>
  BY DEF vars, listVars, taskVars, modemVars, bookVars
<1>2. TypesOK' /\ ListOK' /\ SessionOK'
  BY <1>1 DEF IInv, TypesOK, ListOK, SessionOK
<1>3. AppOK'
  BY <1>1 DEF IInv, AppOK, Resting, Asking, Leaving, Stopping
<1>4. StreamOK'
  BY <1>1 DEF IInv, StreamOK, Streams
<1>5. OneTask' /\ CallsListed' /\ BufferSet' /\ BufferKept'
  BY <1>1 DEF IInv, OneTask, CallsListed, BufferSet, BufferKept, Alive, Leaving
<1>6. TopicsHeld' /\ RightHandler'
  BY <1>1 DEF IInv, TopicsHeld, RightHandler, Holds
<1> QED  BY <1>2, <1>3, <1>4, <1>5, <1>6 DEF IInv

LEMMA NextKeeps == IInv /\ [Next]_vars => IInv'
<1> SUFFICES ASSUME IInv, [Next]_vars  PROVE IInv'
  OBVIOUS
<1>1. Shape /\ TypesOK /\ StreamOK /\ TasksOK
  BY DEF IInv, Shape, TasksOK
<1>2. ASSUME Shape', StreamOK', TasksOK', TopicsHeld', RightHandler'
      PROVE  IInv'
  BY <1>2 DEF IInv, Shape, TasksOK
<1>3. CASE Commands
  BY <1>1, <1>2, <1>3, CommandsShape, CommandsStream, CommandsTasks, CommandsTopics
<1>4. ASSUME NEW topic \in Topics, Subscribe(topic) \/ Unsubscribe(topic) \/ Free
      PROVE  IInv'
  <2>1. Shape' /\ TasksOK' /\ TopicsHeld' /\ RightHandler'
    BY <1>1, <1>4, ListStepsShape, ListStepsTasks, ListStepsTopics
  <2>2. StreamOK'
    BY <1>1, <1>4, OtherStream
  <2> QED  BY <1>2, <2>1, <2>2
<1>5. CASE Recv \/ DoWork \/ StopRunning \/ Kill \/ Arrive
  <2>1. Shape' /\ StreamOK' /\ TasksOK'
    BY <1>1, <1>5, TaskStepsShape, OtherStream, TaskStepsTasks
  <2>2. TopicsHeld' /\ RightHandler'
    BY <1>5, ClientStepsTopics, ArriveTopics
  <2> QED  BY <1>2, <2>1, <2>2
<1>6. ASSUME NEW k \in Tasks, TaskStep(k)
      PROVE  IInv'
  <2>1. Shape' /\ StreamOK' /\ TasksOK'
    BY <1>1, <1>6, TaskStepsShape, OtherStream, TaskStepsTasks
  <2>2. TopicsHeld' /\ RightHandler'
    BY <1>6, TaskStepsTopics
  <2> QED  BY <1>2, <2>1, <2>2
<1>7. CASE Free
  <2>1. PICK topic : topic \in Topics
    BY PathAssumption DEF Topics
  <2> QED  BY <1>4, <1>7, <2>1
<1> QED  BY <1>3, <1>4, <1>5, <1>6, <1>7, StutterKeeps DEF Next, AppCall, AppStep, Commands

\* The inductive invariant holds in every reachable state of the client.
THEOREM AlwaysIInv == Spec => []IInv
  BY InitIInv, NextKeeps, PTL DEF Spec

\* The types: whatever the search returns, the list never has more than one
\* node, and that node is live; the stream is no longer than what was sent.
THEOREM TypeCorrect == Spec => []TypeOK
<1>1. ASSUME IInv  PROVE TypeOK
  <2>1. TypesOK /\ ListOK /\ AppOK
    BY <1>1 DEF IInv
  <2>2. /\ list \in Seq(Nodes) /\ Len(list) <= 1
        /\ \A i \in DOMAIN list : node[list[i]] # NoTopic
    <3>1. CASE list = <<>>
      BY <3>1
    <3>2. ASSUME NEW n \in Nodes, list = <<n>>, node[n] # NoTopic
          PROVE  /\ list \in Seq(Nodes) /\ Len(list) <= 1
                 /\ \A i \in DOMAIN list : node[list[i]] # NoTopic
      BY <3>2
    <3> QED  BY <2>1, <3>1, <3>2 DEF ListOK
  <2>3. app.todo \in Seq(Steps) /\ app.sub \in Nodes \cup {NULL}
    <3>1. CASE app = Resting
      BY <3>1 DEF Resting
    <3>2. CASE Asking
      BY <3>2 DEF Asking, Steps
    <3>3. CASE Leaving
      <4>1. <<"withdraw", "free">> \in Seq(Steps) /\ <<"free">> \in Seq(Steps)
        BY DEF Steps
      <4> QED  BY <3>3, <4>1, Zenon DEF Leaving
    <3>4. CASE Stopping
      <4>1. /\ <<"kill">> \in Seq(Steps) /\ <<"kill", "disconnect">> \in Seq(Steps)
            /\ <<"kill", "disconnect", "power">> \in Seq(Steps)
        BY DEF Steps
      <4>2. /\ <<"disconnect">> \in Seq(Steps) /\ <<"disconnect", "power">> \in Seq(Steps)
            /\ <<"power">> \in Seq(Steps)
        BY DEF Steps
      <4> QED  BY <3>4, <4>1, <4>2, Zenon DEF Stopping
    <3> QED  BY <2>1, <3>1, <3>2, <3>3, <3>4 DEF AppOK
  <2>4. Len(stream) <= MAX_MSGS
    <3>1. PICK base \in Nat : Streams(base)
      BY <1>1 DEF IInv, StreamOK
    <3>2. stream \in Seq(Messages) /\ Len(stream) \in Nat
      BY <2>1 DEF TypesOK
    <3>3. CASE Len(stream) = 0
      BY <3>3, BoundAssumption
    <3>4. CASE Len(stream) > 0
      <4>1. stream[Len(stream)] \in Messages /\ stream[Len(stream)] = base + Len(stream)
        BY <3>1, <3>2, <3>4 DEF Streams
      <4> QED  BY <3>2, <4>1, BoundAssumption DEF Messages
    <3> QED  BY <3>2, <3>3, <3>4
  <2>5. faults \in 0..MAX_FAULTS /\ rash \subseteq {"unsubscribe", "recv", "dowork"}
    BY <2>1, BoundAssumption DEF TypesOK, Calls
  <2> QED  BY <2>1, <2>2, <2>3, <2>4, <2>5 DEF TypeOK, TypesOK, TaskRec, MsgRec
<1> QED  BY <1>1, AlwaysIInv, PTL

\* mqtt_task calls no handler through a freed subscription, as long as the
\* application unsubscribes only while no task is alive.
THEOREM HandlersAlive == Spec => []HandlerAlive
<1>1. ASSUME IInv  PROVE HandlerAlive
  <2> SUFFICES ASSUME "unsubscribe" \notin rash, NEW k \in Tasks, task[k].at = "call"
               PROVE  node[task[k].subp] # NoTopic
    BY DEF HandlerAlive
  <2>1. list = <<task[k].subp>>
    BY <1>1 DEF IInv, CallsListed
  <2>2. PICK n \in Nodes : list = <<n>> /\ node[n] # NoTopic
    BY <1>1, <2>1 DEF IInv, ListOK
  <2>3. n = task[k].subp
    BY <2>1, <2>2
  <2> QED  BY <2>2, <2>3
<1> QED  BY <1>1, AlwaysIInv, PTL

\* As long as dowork is not called twice and nobody else receives, the static
\* buffers hold the message a task is working on until its handler has returned.
THEOREM BuffersKept == Spec => []BufferKept
<1>1. IInv => BufferKept
  BY DEF IInv
<1> QED  BY <1>1, AlwaysIInv, PTL

\* The handler that is called is one of the topic of the message, although the
\* search may return any node, as long as no command fails and the list is not
\* changed under a task.
THEOREM RightHandlers == Spec => []RightHandler
<1>1. IInv => RightHandler
  BY DEF IInv
<1> QED  BY <1>1, AlwaysIInv, PTL

=============================================================================
