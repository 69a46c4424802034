----------------------------- MODULE MqttClient -----------------------------
(***************************************************************************)
(* BG96MQTTClient: the list of subscriptions, the task that hands incoming *)
(* messages to their handlers, and the application that changes the list,  *)
(* starts the task and stops it.  No mutex protects the list or the static *)
(* buffer of the last message, and stopping the task terminates it in      *)
(* whatever it is doing, so the task and the calls go step by step.        *)
(*                                                                         *)
(* A message is a number, in the order of arrival, and the path of its     *)
(* topic: the driver compares topics up to their last slash.  A            *)
(* subscription is a node of the heap, live or freed.  The modem, with the *)
(* broker behind it, is external: the session, the topics it has accepted, *)
(* and the +QMTRECV lines in the stream that nobody has read.  Whoever     *)
(* reads the reply of a command drops the lines before it.                 *)
(*                                                                         *)
(* The application is one thread, and handlers call nothing of the client. *)
(***************************************************************************)
EXTENDS FiniteSets, SequencesExt

CONSTANTS
    Paths,          \* the topics, by path: disjoint sets of topics
    NODES,          \* bound: nodes on the heap, which are used again
    MAX_TASKS,      \* bound: dowork calls
    MAX_MSGS,       \* bound: messages
    MAX_FAULTS      \* bound: commands that fail

NULL     == 0
NoTopic  == "none"

ASSUME PathAssumption ==
    /\ {} \notin Paths /\ Paths # {}
    /\ \A p, q \in Paths : p # q => p \cap q = {}
    /\ NoTopic \notin UNION Paths
ASSUME BoundAssumption == {NODES, MAX_TASKS, MAX_MSGS, MAX_FAULTS} \subseteq Nat

Topics   == UNION Paths
Nodes    == 1..NODES
Tasks    == 1..MAX_TASKS
Messages == 1..MAX_MSGS

VARIABLES
    list,           \* _sublist: the nodes along the next pointers
    node,           \* the heap: the topic of each node, NoTopic when it is free
    running,        \* _running
    thread,         \* _mqtt_thread: the task it points to
    task,           \* each mqtt_task: where it is, its subp, its message (history)
    buffer,         \* mqtt_msg: the message in the static buffers
    app,            \* the application: the steps left of its call, and its arguments
    kept,           \* a publish without a prompt has kept _bg96_mutex
    session,        \* external: "closed", "open" or "connected"
    accepted,       \* external: the topics the broker sends
    stream,         \* external: the +QMTRECV lines nobody has read
    message,        \* the path of each message, and what became of it (history)
    rash,           \* the calls made under a task (history)
    faults

listVars  == <<list, node>>
taskVars  == <<running, thread, task, buffer>>
modemVars == <<session, accepted, stream, message>>
bookVars  == <<rash, faults>>
vars == <<listVars, taskVars, app, kept, modemVars, bookVars>>

Steps      == {"ask", "withdraw", "free", "kill", "disconnect", "power"}
TaskStates == {"none", "check", "recv", "find", "call", "ended"}
Fates      == {"unsent", "stream", "taken", "settled"}

Init ==
    /\ list = <<>> /\ node = [n \in Nodes |-> NoTopic]
    /\ running = FALSE /\ thread = NULL
    /\ task = [k \in Tasks |-> [at |-> "none", subp |-> NULL, msg |-> NULL]]
    /\ buffer = NULL /\ kept = FALSE
    /\ app = [todo |-> <<>>, sub |-> NULL]
    /\ session = "closed" /\ accepted = {} /\ stream = <<>>
    /\ message = [m \in Messages |-> [path |-> {}, fate |-> "unsent"]]
    /\ rash = {} /\ faults = 0

-----------------------------------------------------------------------------
(* Helpers.                                                                *)

Alive == {k \in Tasks : task[k].at \notin {"none", "ended"}}
Idle  == app.todo = <<>>
Path(topic) == CHOOSE p \in Paths : topic \in p

\* The application enters a call of these steps, or has done the first one.
Resting == [todo |-> <<>>, sub |-> NULL]
Enter(steps, sub) == app' = [todo |-> steps, sub |-> sub]
At(step) == app.todo # <<>> /\ Head(app.todo) = step
Done == app' = IF Len(app.todo) = 1 THEN Resting ELSE [app EXCEPT !.todo = Tail(@)]

\* A call that changes under a task what the task works with (history).
Rashly(call, under) == rash' = IF under THEN rash \cup {call} ELSE rash

Settle(messages) ==
    [m \in Messages |-> IF m \in messages THEN [path |-> {}, fate |-> "settled"] ELSE message[m]]

\* The lines a command finds in the stream before its reply are lost.
Dropped == stream' = <<>> /\ message' = Settle(Range(stream))

\* A command that is answered with OK or is not; where the session is not one of
\* those it is for, it fails, and otherwise that it fails is a fault.
Command(ok, sessions) ==
    /\ ok => session \in sessions
    /\ Dropped
    /\ faults' = IF ~ok /\ session \in sessions THEN faults + 1 ELSE faults
    /\ faults' <= MAX_FAULTS

Matches(p) == {i \in DOMAIN list : node[list[i]] \in p}

\* findSubscriptionByTopic: the first match, and the last node when there is
\* none, as the loop ends there without a comparison.
Find(p) ==
    IF list = <<>> THEN NULL
    ELSE IF Matches(p) = {} THEN Last(list) ELSE list[Min(Matches(p))]

-----------------------------------------------------------------------------
(* The calls of the application.                                           *)

\* open and close: the session, and with it what was subscribed.
Open(ok) ==
    /\ Idle /\ Command(ok, {"closed"})
    /\ session' = IF ok THEN "open" ELSE session
    /\ UNCHANGED <<listVars, taskVars, app, kept, accepted, rash>>

Close(ok) ==
    /\ Idle /\ Command(ok, {"open", "connected"})
    /\ session' = IF ok THEN "closed" ELSE session
    /\ accepted' = IF ok THEN {} ELSE accepted
    /\ UNCHANGED <<listVars, taskVars, app, kept, rash>>

\* What connect comes to: accepted; refused; or no +QMTCONN in time, when the
\* result it looks at was never written and may be anything.
ConnectOutcomes ==
    {[ok |-> TRUE,  runs |-> TRUE,  on |-> TRUE],
     [ok |-> FALSE, runs |-> FALSE, on |-> FALSE]}
    \cup [ok : {FALSE}, runs : BOOLEAN, on : BOOLEAN]

\* _running is set without the mutex.  The broker starts a clean session.
Connect ==
    /\ Idle
    /\ \E o \in ConnectOutcomes :
         /\ Command(o.ok, {"open"})
         /\ o.on => session = "open"
         /\ session' = IF o.on THEN "connected" ELSE session
         /\ running' = (running \/ o.runs)
    /\ UNCHANGED <<listVars, thread, task, buffer, app, kept, accepted, rash>>

\* Mutant: the list is not searched.
KnownNever(topic) == FALSE

\* subscribe returns OK for the topic without a word to the modem.
Known(topic) == Find(Path(topic)) # NULL

\* subscribe: only if the search finds none is the new node put in the list, and
\* the modem asked.
Subscribe(topic) ==
    /\ Idle
    /\ IF Known(topic)
         THEN UNCHANGED <<list, node, app>>
         ELSE \E n \in Nodes :
                /\ node[n] = NoTopic
                /\ node' = [node EXCEPT ![n] = topic]
                /\ list' = Append(list, n)
                /\ Enter(<<"ask">>, n)
    /\ UNCHANGED <<taskVars, kept, modemVars, rash, faults>>

\* AT+QMTSUB.  Whether the reply was lost or the command refused, the node stays.
Ask ==
    /\ At("ask")
    /\ \E ok \in BOOLEAN, taken \in BOOLEAN :
         /\ (ok => taken) /\ (taken => session = "connected")
         /\ Command(ok, {"connected"})
         /\ accepted' = IF taken THEN accepted \cup {node[app.sub]} ELSE accepted
    /\ Done
    /\ UNCHANGED <<listVars, taskVars, kept, session, rash>>

\* Mutant: a head that is the only node is left in the list.
WithoutUnlessAlone(n) == IF Len(list) = 1 THEN list ELSE RemoveFirst(list, n)

\* remove_subscription
Without(n) == RemoveFirst(list, n)

\* Mutant: the modem is not told.
UntoldSteps == <<"free">>

UnsubscribeSteps == <<"withdraw", "free">>

\* unsubscribe: the node the search returns is taken out of the list, the modem
\* is told its topic, and it is freed whatever the modem answers.
Unsubscribe(topic) ==
    /\ Idle
    /\ LET n == Find(Path(topic)) IN
         /\ n # NULL
         /\ list' = Without(n)
         /\ Enter(UnsubscribeSteps, n)
    /\ Rashly("unsubscribe", Alive # {})
    /\ UNCHANGED <<node, taskVars, kept, modemVars, faults>>

Withdraw ==
    /\ At("withdraw")
    /\ \E ok \in BOOLEAN, taken \in BOOLEAN :
         /\ ok => taken
         /\ Command(ok, {"connected"})
         /\ accepted' = IF taken THEN accepted \ {node[app.sub]} ELSE accepted
    /\ Done
    /\ UNCHANGED <<listVars, taskVars, kept, session, rash>>

Free ==
    /\ At("free")
    /\ node' = [node EXCEPT ![app.sub] = NoTopic]
    /\ Done
    /\ UNCHANGED <<list, taskVars, kept, modemVars, rash, faults>>

\* publish: without the prompt it returns with the mutex.
Publish(prompted) ==
    /\ Idle /\ Command(prompted, {"connected"})
    /\ kept' = (kept \/ ~prompted)
    /\ UNCHANGED <<listVars, taskVars, app, session, accepted, rash>>

\* A command of another part of the driver, between two calls of the client.
OtherCommand ==
    /\ Idle /\ Dropped
    /\ UNCHANGED <<listVars, taskVars, app, kept, session, accepted, bookVars>>

\* recv called by the application itself: it shares the buffers with the task.
Recv ==
    /\ Idle /\ stream # <<>>
    /\ buffer' = Head(stream) /\ stream' = Tail(stream)
    /\ message' = Settle({Head(stream)})
    /\ Rashly("recv", Alive # {})
    /\ UNCHANGED <<listVars, running, thread, task, app, kept, session, accepted, faults>>

\* dowork: the pointer to a task that is still there is overwritten.
DoWork ==
    /\ Idle
    /\ \E k \in Tasks :
         /\ task[k].at = "none" /\ \A o \in 1..(k - 1) : task[o].at # "none"
         /\ task' = [task EXCEPT ![k].at = "check"]
         /\ thread' = k
    /\ running' = TRUE
    /\ Rashly("dowork", thread # NULL)
    /\ UNCHANGED <<listVars, buffer, app, kept, modemVars, faults>>

\* stopRunning alone, in disconnect, and in stopMQTTClient.
StopRunning ==
    /\ Idle
    /\ running' = FALSE
    /\ \E steps \in {<<"kill">>, <<"kill", "disconnect">>, <<"kill", "disconnect", "power">>} :
         Enter(steps, NULL)
    /\ UNCHANGED <<listVars, thread, task, buffer, kept, modemVars, rash, faults>>

\* Mutant: the task is not waited for, let alone terminated.
ForgetTask == /\ thread' = NULL
              /\ UNCHANGED <<task, message>>

Ended == [at |-> "ended", subp |-> NULL, msg |-> NULL]

\* terminate, join and delete: the task ends wherever it is.
EndTask ==
    IF thread = NULL THEN UNCHANGED <<thread, task, message>>
    ELSE /\ thread' = NULL
         /\ task' = [task EXCEPT ![thread] = Ended]
         /\ message' = Settle({task[thread].msg})

Kill ==
    /\ At("kill") /\ EndTask /\ Done
    /\ UNCHANGED <<listVars, running, buffer, kept, session, accepted, stream, rash, faults>>

Disconnect ==
    /\ At("disconnect")
    /\ \E ok \in BOOLEAN :
         /\ Command(ok, {"open", "connected"})
         /\ session' = IF ok THEN "closed" ELSE session
         /\ accepted' = IF ok THEN {} ELSE accepted
    /\ Done
    /\ UNCHANGED <<listVars, taskVars, kept, rash>>

\* BG96::disconnect and powerDown.
PowerDown ==
    /\ At("power")
    /\ session' = "closed" /\ accepted' = {}
    /\ Dropped /\ Done
    /\ UNCHANGED <<listVars, taskVars, kept, rash, faults>>

-----------------------------------------------------------------------------
(* mqtt_task.                                                              *)

Step(k, from, to) == task[k].at = from /\ task' = [task EXCEPT ![k].at = to]

\* Mutant: the flag is read once, when the task has not received anything yet.
IsRunningUnread(k) == running \/ buffer # NULL

\* isRunning
IsRunning(k) == running

TaskCheck(k) ==
    /\ Step(k, "check", IF IsRunning(k) THEN "recv" ELSE "ended")
    /\ UNCHANGED <<listVars, running, thread, buffer, app, kept, modemVars, bookVars>>

\* Mutant: the line that was read stays in the stream.
UnreadStream == stream

ReadStream == Tail(stream)

\* mqtt_recv: the next message goes to the static buffers, or there is none.
TaskRecv(k) ==
    /\ ~kept
    /\ IF stream = <<>>
         THEN /\ Step(k, "recv", "check")
              /\ UNCHANGED <<buffer, stream, message>>
         ELSE /\ task[k].at = "recv"
              /\ task' = [task EXCEPT ![k] = [@ EXCEPT !.at = "find", !.msg = Head(stream)]]
              /\ buffer' = Head(stream)
              /\ stream' = ReadStream
              /\ message' = [message EXCEPT ![Head(stream)].fate = "taken"]
    /\ UNCHANGED <<listVars, running, thread, app, kept, session, accepted, bookVars>>

\* The loop waits two seconds and goes round.
Round == [at |-> "check", subp |-> NULL, msg |-> NULL]

\* The topic is the one that is now in the static buffers.
TaskFind(k) ==
    /\ task[k].at = "find"
    /\ LET n == Find(message[buffer].path) IN
       IF n = NULL
         THEN /\ task' = [task EXCEPT ![k] = Round]
              /\ message' = Settle({task[k].msg})
         ELSE /\ task' = [task EXCEPT ![k] = [@ EXCEPT !.at = "call", !.subp = n]]
              /\ UNCHANGED message
    /\ UNCHANGED <<listVars, running, thread, buffer, app, kept, session, accepted,
                   stream, bookVars>>

\* subp->handler(msg, subp->param)
TaskCall(k) ==
    /\ task[k].at = "call"
    /\ task' = [task EXCEPT ![k] = Round]
    /\ message' = Settle({buffer})
    /\ UNCHANGED <<listVars, running, thread, buffer, app, kept, session, accepted, stream,
                   bookVars>>

-----------------------------------------------------------------------------
\* The broker sends a message of a topic it has accepted (external).
Arrive ==
    /\ session = "connected"
    /\ \E m \in Messages, t \in accepted :
         /\ message[m].fate = "unsent" /\ \A o \in 1..(m - 1) : message[o].fate # "unsent"
         /\ message' = [message EXCEPT ![m] = [path |-> Path(t), fate |-> "stream"]]
         /\ stream' = Append(stream, m)
    /\ UNCHANGED <<listVars, taskVars, app, kept, session, accepted, bookVars>>

AppCall ==
    \/ \E ok \in BOOLEAN : Open(ok) \/ Close(ok) \/ Publish(ok)
    \/ \E topic \in Topics : Subscribe(topic) \/ Unsubscribe(topic)
    \/ Connect \/ Recv \/ OtherCommand \/ DoWork \/ StopRunning

AppStep == Ask \/ Withdraw \/ Free \/ Kill \/ Disconnect \/ PowerDown

TaskStep(k) == TaskCheck(k) \/ TaskRecv(k) \/ TaskFind(k) \/ TaskCall(k)

Next == AppCall \/ AppStep \/ Arrive \/ \E k \in Tasks : TaskStep(k)

Spec == Init /\ [][Next]_vars

\* The RTOS runs the task, and a call that has begun goes on.
FairSpec == Spec /\ WF_vars(AppStep) /\ \A k \in Tasks : WF_vars(TaskStep(k))

-----------------------------------------------------------------------------
(* Properties.                                                             *)

\* The types.  The list has one node at most: a search that matches nothing
\* returns the last node, so that subscribe appends to an empty list only.  That
\* node is live: unsubscribe frees what remove_subscription has taken out.
TypeOK ==
    /\ list \in Seq(Nodes) /\ Len(list) <= 1
    /\ \A i \in DOMAIN list : node[list[i]] # NoTopic
    /\ node \in [Nodes -> Topics \cup {NoTopic}]
    /\ running \in BOOLEAN /\ kept \in BOOLEAN /\ thread \in Tasks \cup {NULL}
    /\ task \in [Tasks -> [at : TaskStates, subp : Nodes \cup {NULL},
                           msg : Messages \cup {NULL}]]
    /\ buffer \in Messages \cup {NULL}
    /\ app.todo \in Seq(Steps) /\ app.sub \in Nodes \cup {NULL}
    /\ session \in {"closed", "open", "connected"} /\ accepted \subseteq Topics
    /\ stream \in Seq(Messages) /\ Len(stream) <= MAX_MSGS
    /\ message \in [Messages -> [path : Paths \cup {{}}, fate : Fates]]
    /\ rash \subseteq {"unsubscribe", "recv", "dowork"}
    /\ faults \in 0..MAX_FAULTS

\* mqtt_task calls no handler through a subscription that has been freed, as
\* long as the application unsubscribes only while no task is alive: a task that
\* stopRunning has terminated does not come back to the node it had found.
HandlerAlive ==
    "unsubscribe" \notin rash =>
        \A k \in Tasks : task[k].at = "call" => node[task[k].subp] # NoTopic

\* As long as dowork is not called twice and nobody else receives, the static
\* buffers are not overwritten between the receive and the end of the handler
\* call: the handler gets the message that was looked up, and none twice.
BufferKept ==
    rash \cap {"dowork", "recv"} = {} =>
        \A k \in Tasks : task[k].at \in {"find", "call"} => buffer = task[k].msg

\* "Found handler for the incoming message topic": the handler that is called is
\* one of the topic, although the search may return any node, as long as no
\* command fails and the list is not changed under the task.  This is of sessions
\* that begin clean, and of a broker that has unsubscribed when AT+QMTUNS is
\* answered with OK: its own answer, +QMTUNS, is not read.
RightHandler ==
    faults = 0 /\ rash = {} =>
        \A k \in Tasks :
            task[k].at = "call" => node[task[k].subp] \in message[buffer].path

\* stopRunning stops every task, the one that a second dowork has cut off too,
\* unless the client is started again or the task waits for a mutex that was kept.
StopStops == ~running ~> (running \/ kept \/ Alive = {})

\* A message in the stream is handled, found to be nobody's, or lost to a
\* command, while the task runs undisturbed.
MessageSettles ==
    \A m \in Messages :
        message[m].fate \in {"stream", "taken"}
            ~> (message[m].fate = "settled" \/ ~running \/ Alive = {} \/ kept \/ rash # {})

\* "already subscribed - no need to resubscribe": a topic that subscribe returns
\* OK for without asking is one the modem has accepted in this session.
OkIsSubscribed ==
    Idle /\ session = "connected" => \A topic \in Topics : Known(topic) => topic \in accepted
=============================================================================
