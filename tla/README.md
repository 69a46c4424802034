# BG96-Driver in TLA+

Models, model-checking configurations and proofs for the mbed driver of the
Quectel BG96 modem (`src/BG96Interface.cpp`, `src/BG96/BG96.cpp` and the
directories `MQTT`, `TLS`, `File`, `GNSS`). The code was translated statement by
statement where threads, events and failures meet; everything the modem and
mbed OS do is external and modelled from how this code uses it.

## 1. The system

| component | state | operations | interacts with |
|---|---|---|---|
| **Event scheduling** `BG96Interface.cpp` 990-1047 | `scheduled_events` (a plain `uint32_t`), `_bg96_queue`, `txrx_mutex` | `_eq_schedule`, the frame of `g_eq_event` | called by every application thread and by the thread `_bg96_monitor` that dispatches the queue |
| **Socket data path** 723-981, 990-1038 | `g_socRx[i]`, `g_socTx[i]`: one read and one write state machine per socket | `socket_recv`, `socket_send`, `socket_recvfrom`, `socket_sendto`, `rx_event`, `tx_event`, the loops of `g_eq_event` | `txrx_mutex`; `BG96::recv`, `BG96::send`; callbacks into the application |
| **Socket table** 389-667 | `g_sock[i]`: id, connected, disTO, callback; `gvupdate_mutex` | `socket_open`, `socket_close`, `socket_connect`, `socket_attach`, `socket_bind`, `socket_listen` | the data path snapshots `disTO` and the callback; `BG96::open`, `BG96::close` |
| **Network attachment and power** 204-319, `BG96.cpp` 104-555 | `g_isInitialized`, `g_bg96_queue_id`, `_power_off`, `_power_off_allowed` | `connect`, `set_credentials`, `disconnect`, `powerDown`, `allowPowerOff`, `disallowPowerOff`, `gethostbyname` | starts and stops the event thread; `BG96::startup`, `connect`, `resolveUrl` |
| **AT command channel** `BG96.cpp` | `_bg96_mutex`, the `ATCmdParser` with its time-out and its stream | one method per command: send, wait for the reply, time out | every component above and below, from every thread |
| **MQTT client** `MQTT/`, `BG96.cpp` 1212-1416 | session, subscription list `_sublist`, `_running`, static message buffers | `open`, `connect`, `subscribe`, `unsubscribe`, `publish`, `dowork`, `mqtt_task` | its own thread; AT channel |
| **TLS socket** `TLS/`, `BG96.cpp` 991-1200 | ssl context, shared time-out thread | `set_*_pem`, `connect`, `send`, `recv`, `close` | file system (certificates), AT channel |
| **File system** `File/`, `BG96.cpp` 1423-1690 | none but the modem's | `fs_*` | AT channel |
| **GNSS** `GNSS/`, `BG96.cpp` 822-879 | the last location | start, stop, get location | AT channel |

### What is hard

* *Concurrency.* `scheduled_events` is read and written without a mutex by all
  threads. Opening and closing a socket take **different** mutexes, connecting
  and attaching take none. `socket_recv` and `socket_send` read their return
  value after they have unlocked.
* *More concurrency.* The subscription list and the static message buffers of the MQTT
  client have no mutex, and its task is stopped by terminating it. The power guard is
  tested by one thread and moved by another. A timer thread races `BG96TLSSocket::recv`.
* *Failure.* Each AT command may fail at each of its replies; `rx_event` treats
  a failed poll as "ask again", `BG96::send` reports a refused write as a
  success, `socket_connect` retries up to three times, three commands replace a file.
* *Ordering.* A read or a write that does not complete in its call lives on as
  an active state machine; only the periodic event moves it, and only if one is
  queued. A callback is due exactly once per completion.
* *Time.* Time is counted in events: a read times out after
  `BG96_LIBRARY_READ_TIMEOUTMS/EQ_FREQ` polls unless its socket listens. Other loops have a
  time-out that never starts (`BG96.cpp` 405), that starts once (`TLS` 215), or none
  (`BG96Interface.cpp` 219, 697).

### What makes each component correct

* Event scheduling: the counter neither wraps nor exceeds its cap; while a
  transfer is active an event is queued, handled or being scheduled; polling
  goes on; when nothing is active, and no record of a listener is left to poll, the queue drains.
* Data path: a call returns what its own request transferred; no byte is
  skipped, sent twice or written beyond the data, unless `BG96::send` misreports
  its chunk; a read times out, not early;
  a read of a listener waits; every transfer ends while the link is up;
  transient states are never seen by a call; only requested data is stored.
* Socket table: an entry in use has one owner; `connected` and the callback
  survive other threads' calls; OK from `socket_connect` means a link.
* AT channel: each way out of a method gives back the mutex and the default
  time-out; a method takes only its own reply for its own.
* Network and power: an interface that says connected is attached; an attach has a
  thread for its events; power stays on while a file needs it; the GNSS engine is
  switched off; each call comes back.
* MQTT client: no handler is called through a freed node, with another message than
  the one that was looked up, or for another topic; the task stops when told; a
  message is handled or lost to a command, never stuck; OK means subscribed.
* TLS socket: OK never leaves an old certificate in the modem, and without a fault means that the new one is whole and
  named by the context; the timer fires only while `recv` runs; `recv` ends.

## 2. The modules

| module | models | state and code |
|---|---|---|
| `EqSchedule` | event scheduling, one step per load, test and store | `scheduled` = `scheduled_events`; `queued` = events in `_bg96_queue`; `txrx` = owner of `txrx_mutex`; `active` = the records in `READ_ACTIVE`/`TX_ACTIVE`; `listening`, `disTO` = the sockets with `disTO`, the records with `m_rx_disTO`; `pc`, `reg` = where each thread is and what it loaded; `reload` = which code the build produced |
| `SocketEngine` | data path, one step per call, per polled socket and per callback | `sock`, `rx`, `tx` = `g_sock`, `g_socRx`, `g_socTx` field by field (`polls`, `got`, `size`, `took`, `lost`, `twice` are history); `ret` = a call between its unlock and its return; `ev` = position, `i`, `done` and `goSlow` of `g_eq_event`; `modem` = external |
| `SocketTable` | socket table, in the steps another thread can come between | `sock` = `g_sock`; `linked` = external, the modem's connections; `gv`, `txrx` = mutex owners; `pc`, `handle`, `cnt`, `result` = each thread's place and locals |
| `AtChannel` | the AT command channel: 56 methods, each a script of parser steps, and the eight actions that run a script | `mutex` = `_bg96_mutex` with its lock count; `timeout` = the parser's, by default or a method's own; `stream` = the unread lines; `call` = each thread's method and place in it; `coming` = external, late answers; `tardy`, `keepers`, `mixups` = history |
| `SocketService` | what `socket_recv` and `socket_send` promise their caller, without event, mutex, modem or buffer | `reader`, `writer` = a transfer that is idle, pending or done; `answer` = what the call that is returning says |
| `MqttClient` | MQTT client, in the steps the application and `mqtt_task` can come between | `list`, `node` = `_sublist` and the heap; `running`, `thread` = `_running`, `_mqtt_thread`; `task` = each `mqtt_task` with its `subp`; `buffer` = the static message; `app` = the steps left of the application's call; `session`, `accepted`, `stream` = external; `message`, `rash` = history |
| `NetAttach` | attachment, power, GNSS and names in one thread, files in another, one step per command | `initialized`, `queue`, `dispatching` = `g_isInitialized`, `g_bg96_queue_id`, `_bg96_monitor`; `off`, `allowed` = `_power_off`, `_power_off_allowed`; `net`, `file` = where each thread is; `modem` = external; `allows`, `guards`, `tangled`, `misled`, `behind` = history |
| `TlsSocket` | TLS socket: certificates, connection, `recv` and its timer thread, one step per command | `timeout_ovf`, `sslctx_id`; `timer` = `timeout_thread`; `app` = the call and its locals; `file`, `path`, `link`, `inbox` = external |
| `EqScheduleProofs`, `SocketEngineProofs`, `SocketTableProofs`, `AtChannelProofs`, `MqttClientProofs`, `NetAttachProofs`, `TlsSocketProofs` | theorems about the module of that name, with their proofs | |
| `SocketServiceProofs` | the proof that `SocketEngine` implements `SocketService`, and what its callers get | extends `SocketEngineProofs` |
| `MCEqSchedule`, `MCSocketEngine`, `MCSocketTable`, `MCAtChannel`, `MCMqttClient`, `MCNetAttach`, `MCTlsSocket` | instances for TLC | |

The first three models divide the code by grain, not by function. `EqSchedule` keeps
the races of `scheduled_events` and abstracts a transfer to a set element;
`SocketEngine` keeps the transfers and takes an update of `scheduled_events` to be
atomic (its `events` is the counter and the queue in one), since what the race
adds is settled in `EqSchedule`; `SocketTable` keeps the order in which fields of
an entry are written, which `SocketEngine` takes to be one step.
`AtChannel` is the layer below: the methods of `BG96.cpp` of which the others see only the
outcome. `MqttClient`, `NetAttach` and `TlsSocket` stand on it as the data path does: a
command is a step that succeeds, fails, or succeeds without a word of it.

**Refinement.** `SocketEngine` implements `SocketService` (`ServiceSpec`). The mapping reads
the phase of a transfer off the state of its record (`READ_INIT` and `READ_ACTIVE` are
pending, `READ_DOCB` and `DATA_AVAILABLE` done), and the answer off the record too, where `Return`
will read it: a poll, a callback or another call that changed what is about to be
returned would be a step of no action of `SocketService`. It holds for sockets that do
not listen and callers that retry with the same arguments, which is what the `engine` run has.

Choices a reader of the code should know:

* A non-atomic `uint32_t` shared by threads is undefined in C++. The outcomes the
  build can produce are two: the value tested is the value incremented (one
  load), or the counter is loaded again (`Builds`).
* In `SocketEngine` a call takes `txrx_mutex` only when no event holds it, and one
  call at a time is inside the stack for one socket, because mbed's socket classes
  lock around each call; the event needs no such lock and runs between the
  unlock and the return.
* Data is counted. `BG96::recv` returns what it asked for or what there is, or
  an error with or without the data consumed; `BG96::send` has four outcomes,
  named in `TxOutcomes`. Two of them misreport: `refused` (nothing was written, reported as sent) and
  `unacked` (the data was written and `SEND OK` does not come, so the bytes are sent again). The `engine`
  run has all four; `lost` and `twice` count these bytes, and `SendReturnsItsData` says that they are the only
  difference between what is returned and what the modem has.
* `SocketConnect` draws the number of the attempt that succeeds. The drain loop
  of `BG96::open` (line 609) is taken to end.
* In `AtChannel` a method is data: the list of its sends, reads and time-out changes, with
  where it goes on after a match and after a time-out. The code's `send && recv && recv`
  is `Must`, an unread result `May`, a condition `If`, a second critical section a
  second part. Of mbed's parser three things matter: `recv` drops what does not
  match, knows no `ERROR`, and `send` does not empty the stream. A line is its kind: values are
  drawn where they decide what is read next (`+CGREG unregistered`, `+QIRD 0`). Argument
  checks that return before the lock are left out. Loops that poll until a timer or a
  counter runs out are their last round: the earlier ones leave what it drops or what the
  last one leaves too.
* The answers come as the methods expect them, or as `ERROR`, at once or late; lines nobody
  asked for (`+QMTRECV`, `+QIURC`) are not sent, so that `chkRxAvail` and `mqtt_checkAvail`
  find one only if an earlier command left it.
* In `MqttClient` a topic is known by its path: `matchTopic` cuts both topics after their last
  slash, so that two topics of one directory are one subscription. A field of a new node
  that the code does not set (`next`) is taken to be zero, without which there is no
  list to speak of. A result of `connect` that was not written (no `+QMTCONN` in time) is any.
  A command outside the session it is for fails, as a thing of course; that it fails inside is a fault and bounded. Handlers call nothing of the client. A node of the heap is used again after it was freed.
  `mqtt_recv` is one step: a task that is terminated inside it lets go of `_bg96_mutex`, as mbed's mutexes are robust,
  but the parser's time-out stays at its 1 s until the next method sets its own, which no property looks at.
  `rash` names the calls made while a task runs; the properties say which of them they need left out,
  as no comment tells the application not to make them.
* In `NetAttach` the debug lock is left out, `_power_off_allowed`, which no constructor sets,
  begins as anything, and the file calls come from one thread with one file at a time. `allowPowerOff` and
  `disallowPowerOff` are one step each, though nothing protects `++` and `--` of `_power_off`: an update that is lost
  there is not in the model.
  A command gets through or, while `MAX_FAULTS` lasts, fails; a retry is thus answered at
  last. Registration and activation are the network's and cost no fault: `BG96::connect` may find the modem
  unregistered, and the loop of the activation goes on as long as the network refuses, as its timer never starts.
  An `OK` left unread (that of `AT+CGREG?` when the modem does not register, 301-303 and 362-365, or one that is late) is
  there when `AT+QIACT` is sent (`misread`): it takes it for its own, or a command of another thread has dropped it.
  Other late answers are left to `AtChannel`.
* In `TlsSocket` a certificate is a number and its negative a file in which it is not whole. A command that fails may have
  been obeyed; an upload may be cut short, or have its `OK` come late, under a `+QFUPL` that is not looked at
  (`BG96.cpp` 976-983), and each of these is a fault. A poll of `recv` takes the data from the modem and may lose
  them (1179-1182), at no cost.
* A handle is used only by the thread whose `socket_open` returned it. In
  `SocketTable` a thread attaches before it connects, and closes only a socket
  it is not connecting.

## 3. The runs

| run | question | result |
|---|---|---|
| `eq` | Does the racy counter lose a wakeup, wrap, or spin? 2 threads, a read that may listen and a write, cap 2, 3 calls, both builds, with fairness | holds (with one load) |
| `engine` | Are the results, chunks and time-outs of one socket's calls right, does each transfer end, and is it all `SocketService`? | holds |
| `engine_listen` | Does a listener wait, its timer stay bounded, and another socket's timer jump only behind one at the slow mark? | holds |
| `engine_hangup` | Does a read time out when the peer has hung up? | `ReadTimesOut` violated |
| `table` | Does each entry have one owner, and OK a link? 3 threads, 2 sockets, 2 faults | holds |
| `table_race` | Do `connected` and the callback survive another thread's close? | `UpdatesKept` violated |
| `at_channel` | Which of 56 methods leave the mutex, the time-out or a reply behind? 2 threads, any 2 calls, one late answer | two keep the mutex, one lets go of it with its own time-out, twelve leave a line that another takes for its reply; all others are clean (`mqtt_subscribe`, `mqtt_unsubscribe` and `mqtt_disconnect` leave a result code that no method takes) |
| `mqtt` | Does the task call the right live handler with the right message, stop when told, and lose no message but to a command? 2 topics, 2 tasks, 2 messages, 1 fault | holds, each property under the discipline it names |
| `mqtt_subscribe` | Does OK from `subscribe` mean subscribed? | `OkIsSubscribed` violated |
| `net` | Does the attach state tell the truth, does the guard hold, does every call come back? 2 threads, 1 fault, either start of the flag | holds, but for what the properties name: it lies after a misled connect and behind the interface; three loops are endless; one use of the guard is right |
| `net_power` | Is the power on between `fs_open` and `fs_close`? | `FileHoldsPower` violated |
| `tls` | Does OK ever leave an old certificate, does the timer fire outside `recv`, does the first `recv` end? 2 certificates, 2 contexts, 2 faults | holds |

The violated properties each restate a sentence of a comment in the code; the
entries under `findings` in `PROJECT.json` quote them.

*Bounds.* `eq`: a cap of 2 is reached by two threads and an event, two
transfers let one complete while the other stays active, and three calls allow a call to start while an
earlier one is still scheduling. `engine`: a buffer of 2 bytes with requests of
1 and 3 gives a request below the cut and one above it, and a write of two
chunks the second of which is shorter; a time-out of 2 events separates `>` from
`>=`; one fault hits every step. `engine_listen`: two sockets are the least for
which the loop has a next one; a time-out of 1 with a factor of 3 puts the slow
mark within reach and apart from the time-out. `table`: one thread more than entries, so that the table is
full and a freed entry is wanted at once; two faults, so that the third attempt
is reached. `at_channel`: two calls, as what a method leaves is met by the next one, in the same
thread or in another; a third would only pass on what the second was spoiled by, and `MixupHasCause` is
about the first mix-up. Each of the twelve methods in `Untidy` does cause one. `mqtt`: two paths
are the least for which a handler can be the wrong one; two nodes let one be freed while another
is taken; a second `dowork` cuts off the first task; a second message is what overwrites the first. `net`: two guards and two
`allowPowerOff` are one more of each than the guard can take; loops of 3 rounds for 30 and for the
starts that fit in the time-out, as a round only counts. `tls`: an old and a new certificate; two faults spoil two of
the three commands of one file.
Threads are symmetric in `table` and `at_channel`: no property or action names one.
`MAX_CALLS`, `MAX_LATE`, `MAX_OPENS`, `MAX_ARRIVALS` and `MAX_FAULTS` bound the behaviours; each
stands in a guard, and in no property but the types.

*Deadlock* is checked in the `table`, `mqtt` and `tls` runs, where somebody can always go on. The other
systems may stop: nothing is active and the application makes no more calls, the bounds are
used up, or, in `at_channel`, the mutex was kept, or, in `net`, the activation waits for a network that never grants it.

*Fairness.* `EqSchedule!FairSpec` and `SocketEngine!FairSpec` assume that the RTOS
runs the event thread and each thread that is inside a call. They do not assume
that the application calls, that data arrives or that a link stays up. `ReadCompletes`
and `WriteCompletes` hold for a modem whose faults are finite (`MAX_FAULTS`) and as
long as it has the link; the violated `ReadTimesOut` shows that the link is needed.
`MqttClient!FairSpec`, `NetAttach!FairSpec` and `TlsSocket!FairSpec` assume the same of their threads:
a task that is alive, a call that has begun and the timer thread go on; nobody is assumed to
begin a call. `CallsEnd` rests on the modem answering commands at last, and on nothing about addresses, names or
the network: a call that waits for one of them, the activation included, is excepted (`Endless`), as the code has no time-out there.

## 4. The proofs

`tlapm` checks each of the eight `*Proofs.tla` modules to the last leaf. The theorems hold for every
value of the constants that satisfies the assumptions of the model: names are distinct, sizes and
bounds are naturals (some of them positive), the fault outcomes and methods are among those the model
knows. The bounds of the runs (`MAX_CALLS` and the like) are thus any numbers. Each module has one inductive
invariant `IInv`, which TLC checked on small instances before it was proved, and from which the theorems follow;
`AtChannelProofs` has a second one (`MixInv`), which quantifies over tables of sequences and so is only proved.
Every invariant the passing runs check is a theorem.

* **Event scheduling.** `IInv` is `TypeOK`, `DecPositive` (between the event's test and
  its load only increments are stored, so what it decrements is positive), and, for a
  build with one load, `OneLoad`, `CapHasEvent` and `PendingHasEvent`. `CapHasEvent` is
  the strengthening that matters: when the counter stands at the cap, and so
  `_eq_schedule` adds nothing, an event is queued, or taken and not yet
  subtracted, or about to be queued. Without it `PendingHasEvent` is not inductive:
  a thread could find the cap full and nobody awake. `TypeCorrect`,
  `CounterDoesNotWrap` and `NoLostWakeup` follow, for every number of threads,
  transfers and calls, every cap and every queue size.
* **Socket table.** `IInv` is `TypeOK`, `HandleValid`, `OpenHoldsGv` (the mutex is held from
  the scan to the unlock and the chosen entry stays free), `EntryHasOneOwner`,
  `CountKnown` and `LinkKnown` (what the loop counter and the result say about the
  link). `OpenHoldsGv` is what makes `EntryHasOneOwner` inductive although
  `socket_close` does not take `gvupdate_mutex`; `EntryHasOneOwner` is in turn what
  makes `LinkKnown` inductive, as only the owner of an entry has its link opened
  or closed. `TypeCorrect`, `EntryOwnership` and `ConnectReturn` follow, for any
  threads, entries and faults.

* **Data path.** `IInv` joins what a record may hold in each of its states (`RecordsGood`) to the
  position of `g_eq_event`. `DueAhead`: a record in `READ_DOCB` or `TX_DOCB` belongs to a socket whose callback the
  event has not come to, hence there is none when the event has ended (`TransientAlwaysHidden`).
  `ActiveServed`: an active transfer has an event queued, or the one under way will ask for another
  (`done` is false), or has not passed it yet; this is why `TransfersHaveEvent` survives an event that
  looked at a socket before its transfer began. `SlowHasCause` says which socket set `goSlow`. `ChunksInData`,
  `ListenersWait` and the action property `TimersMoveBySlow` come with it. The proof corrected that property: an earlier
  form blamed a listener for every jump of a timer, which TLC confirmed for two
  sockets; with three it is false, as a timer that was moved to the slow mark moves the next one.
* **What the caller is promised.** `SocketServiceProofs` is about the use the code is right for, and says
  so in its hypotheses: no socket listens (`Listeners = {}`), a call that returned `WOULD_BLOCK` is
  repeated with its arguments (`SameRetry`). Outside it the statements are false, for the reasons given at the end of this
  file. `PlainInv` adds to `IInv` that a record counts what
  its own request got, that a closed socket has no transfer, and that a call between unlock
  and return (`AnswersExact`) has a record at rest with its buffer and size. From it follow `ReadsReturnTheirData` and
  `Refinement`: each step of a call, an event, a callback or the modem is shown to be a step of `SocketService` or to
  leave its variables alone. `WritesReturnTheirData` covers every outcome of `BG96::send`: `TookInv` keeps the
  account of each write (`took + lost = sent + twice`). `TimeoutsNotEarly` needs in addition that the slow mark lies
  beyond the time-out (`SLOW_FACTOR > 1`; the code's is 40).
* **AT channel.** What the proof needs of a method is a condition on its script, `TableTidy`: a part with a time-out of
  its own resets it at its end, no step returns with the mutex, each part leads to a part of the same method; `connect`
  and `mqtt_publish` have weaker conditions, and `getRev`, which takes any line for its reply, one on its first two
  steps. Each of the 56 scripts is shown to meet its condition. The invariant counts the locks of the recursive
  mutex against the calls made and the threads that wait for it; an owner that is outside, or inside with more than one lock, means
  that a keeping method has returned (`KeptByThose`). `OwnHasReason` says why a time-out may be a method's own:
  `connect` is between its parts, the mutex was kept, or the part that runs will reset it. `TimeoutsRestored`
  and `MutexKeptByTwo` follow for any number of threads, calls and late answers.
  `FirstMixupHasCause` rests on a second condition, `TableReads`, which each part of the 44 methods outside `Untidy` meets: there
  is a table `left`, of what may be unread before each step of the answer that came, that is closed under the steps
  (a reply found first or later, or not at all) and leaves at the end nothing but lines no method reads
  (`Strays`: the results of `AT+QMTSUB`, `AT+QMTUNS` and `AT+QMTDISC`). The invariant `MixInv` says of the stream, up to the first mix-up, that
  a line of a method that is relied on (`Trusts`: not in `Untidy`, and never answered late) is a stray or belongs to
  the answer the thread inside is reading, which is as `left` has it and newer than every line ahead of it.
  `getRev` could take a stray for its own; `Dropped` says why it does not: it has dropped them with what came ahead of its first `OK`.
* **MQTT client.** Messages are numbered by arrival. `StreamOK` says that the stream holds consecutive numbers, that what tasks
  and buffers hold comes before and what is unsent after them: so a command that drops the stream never touches a message
  that was received. `ListOK` (no more than one node, and that live) is what the search of `mqtt_task` makes of the list, and
  makes `CallsListed` inductive: a task calls the handler of a listed node, unless somebody unsubscribes under it.
  `TopicsHeld` relates what the broker accepted, what is in the stream and what a task received to
  the one node: without it `RightHandlers` is not inductive, since the search checks no topic. Each theorem
  holds under the discipline its property names (`rash`), as the runs have it.
* **Network and power.** `CallKnown` says which calls can be at which step, `ResetIsDetached` that the modem is reset
  only for an interface that has said it is not connected, `QueueIsServed` that an id of the queue means a thread
  that dispatches it. `GuardsCounted` ties `_power_off` to the guards that file calls and files hold, `FlagFollows` says that
  the flag follows the count while one guard at a time is out, the only use in which it does. `AttachedWhenConnected`,
  `EventsAlwaysServed`, `PowerGuarded` and `GnssAlwaysStops` follow.
* **TLS socket.** `PlanOK` says that what a call has stored and what it has still to store are one of its lists, cut in two, so that a
  later file never undoes an earlier one; `StoredOK` that a stored file is in the modem, whole or cut short, also when an answer
  was lost, and without a fault whole and named. `OkAlwaysReplaces` follows. `TimerOK` (the timer thread is alive only while `recv`
  runs) makes `TimerAlwaysKeepsToRecv`, an action property, hold of every step.

Only model-checked:

* All liveness (`PolledForever`, `QueueDrains`, `ReadCompletes`, `WriteCompletes`, `StopStops`, `MessageSettles`,
  `CallsEnd`, `RecvEnds`): fairness and ENABLED are beyond the prover.

## 5. What is not modelled, and the plan

In this order:

1. **AT channel, abstractly**: a `Command` specification (each command gets its own reply or
   none) that `AtChannel` without its untidy methods and without late answers is to implement; `TableReads` and `MixInv` hold
   what its step simulation needs.
2. **File chunks**: the upload loop (`BG96.cpp` 1503) with its 16-bit counter, which for 65536 bytes
   or more never ends; today only named as a hazard.

Not modelled: `setsockopt`/`getsockopt` (no effect), `socket_accept` (unsupported), GNSS parsing,
`getNetworkGMTTime`, debug output and its lock, build configuration: they hold no state that could go
wrong. `_fs_error` (`FSImplementation.cpp`) is recorded in a second command, so that another thread's failure may
be what it tells (the source says so, 36-38), and after a success it is copied from an
uninitialised variable; no call decides by it. `configure_mqtt` and its parts send settings,
ignore the answers and keep a pointer.

### Known from reading, or seen in a state of a model, and not under a run of its own

Data path and below:

* A `socket_recv` that collects the read an earlier call began (`BG96Interface.cpp` 881-886) looks at
  neither its buffer nor its size, so a caller that retries with another buffer gets a
  count for bytes that are in the first.
* `g_eq_event` polls every record with `m_rx_disTO` set, in any state (1005): after a listening
  socket's read was collected, or the socket closed, bytes go through the old pointer, and the event
  reschedules itself for ever (`QueueDrains` excepts it).
* `BG96::send` returns true when `AT+QISEND` or the data cannot be written (`BG96.cpp` 677-686), and
  `tx_event` counts the bytes as sent; when `SEND OK` does not come, it sends bytes again that the modem has.
  The `engine` run has both (`refused`, `unacked`).
* `socket_connect` counts the attempt that succeeds (655): if it is the third, the link stays open
  under an entry that is not connected, and `socket_close` leaves it.
* Where `++` and `--` load `scheduled_events` again after the test, lost updates can leave it
  at the cap with an empty queue; `EqSchedule` has that build (`reload`), and `OneLoadPending` leaves it out.
* `BG96::connect` takes the `OK` of `AT+CGREG?` for that of `AT+QIACT` when the modem is not registered
  (301, 408). `AtChannel` and `NetAttach` have it; `MixupHasCause` names `connect`, `ConnectedIsAttached` excepts it (`misled`).

Network and power:

* `connect` takes the 0 of a `disconnect` that succeeded for "not ok" and its error for "ok"
  (250): only after a failed disconnect is the start-up left out.
* `set_credentials` compares a code of 0 for success with `true`, so that `g_isInitialized` becomes
  `IS_CONNECTED` and is returned whatever happened: without power or an APN too, when `BG96::connect` returns with
  `_bg96_mutex` (387). Called directly it starts no thread for the events.
* A file query before any `allowPowerOff` leaves the flag TRUE; a second guard, or a second `allowPowerOff`,
  makes the count miss zero, and the flag stays TRUE under the file. A failed `fs_open` keeps the guard,
  and only `fs_close` gives it back.
* `iter` is never incremented (697); the activation's timer is never started (`BG96.cpp` 405), so that a network that refuses is asked for ever, under
  `_bg96_mutex`.

MQTT:

* The list never has more than one node: the search returns the last node for any topic, so
  every `subscribe` after the first says "already subscribed", to other paths too, and leaks its node.
  `unsubscribe` of an unknown topic removes the one there is, and a message of any topic goes
  to its handler.
* `RightHandler` takes it that sessions begin clean and that a topic is unsubscribed when `AT+QMTUNS` is answered with `OK`;
  the broker's own answer, `+QMTUNS`, is not read (`BG96.cpp` 1322), and until it comes a message of the old topic may still arrive.
* After a disconnect the list stays, and a `subscribe` in the next session is not asked for.
* `_ctx.options` is read by `open` before `configure_mqtt` has set it; the result that `connect` looks at is not
  written when `+QMTCONN` does not come.
* The comment of `mqtt_task` makes the handler free a message that is static.
* A `disconnect` in a handler would have the task terminate and join itself.

TLS:

* Only the first `recv` has a timer, and once it fired every later `recv` returns without
  asking: `timeout_ovf` is cleared by the thread alone, which starts once. Without data the modem's 0 ends the loop;
  it goes on only for reads that are cut short, and what such a read has taken from the modem is lost.
* `send_file` takes any `+QFUPL` for success (the comment at `BG96.cpp` 980 says what is missing): a certificate
  that arrived in part is configured under an OK.
* The private key is configured as the client certificate (134), and a failure to configure the CA
  is OK, as -1 is true (68, 146).
* The MQTT client moves the shared socket object to its own ssl context (`MQTT` 45).
