----------------------------- MODULE RemoteAudio -----------------------------
(* The audio quality suite's protocol.  On the host, the thread of a test    *)
(* case calls RemoteAudio, whose looper thread sends the commands and        *)
(* handles the replies.  On the device, the server thread of AudioProtocol   *)
(* handles the commands in order; a playback or recording runs in a          *)
(* LoopThread of its own, which replies when it is complete.                 *)
(*                                                                           *)
(* Every command is an operation with a number, by which the model tells     *)
(* apart what the code cannot: a reply names only the kind of its command.   *)
(* A recording's data is the number of the recording.  One connection is     *)
(* modelled, from after its set-up.                                          *)
EXTENDS Integers, Sequences, Functions

CONSTANTS MaxOps,       \* bound: the operations of the test case
          LateReplies   \* may a wait time out while its reply is on the way?

ASSUME AudioAssumption == MaxOps \in Nat /\ LateReplies \in BOOLEAN

Streams  == {"playback", "recording"}
Requests == {"download", "deviceInfo"}
Kinds    == Streams \cup Requests
Handlers == Kinds \cup {"stop"}      \* doStop makes a new handler each time
Ops      == 1 .. MaxOps
NoOp     == 0

VARIABLES
  \* the test case's thread
  call,         \* the call of RemoteAudio it is in, and for which operation
  kinds,        \* the kinds of the operations so far
  running,      \* operations whose task was started and is not complete
  registered,   \* mIdMap and mBufferList have an entry
  \* RemoteAudio, shared by that thread and the looper
  handler,      \* the CommandHandlers; mParam is the operation it is set for
  message,      \* what is in the looper's queue
  listening,    \* the socket is polled
  \* the connection
  toDevice, toHost,
  \* AudioProtocol
  alive,        \* the client application has not crashed
  server,       \* where its thread is: reading, or quitting a LoopThread
  thread,       \* how far each operation's LoopThread is
  threadOf,     \* mPlaybackThread, mRecordThread
  unit,         \* mPlayback, mRecord
  released,     \* the AudioTracks and AudioRecords that were released
  \* history
  outcome,      \* what waiting for an operation returned
  data,         \* whose recording an operation's buffer holds
  replied       \* operations the device has replied to

testVars   == <<call, kinds, running, registered, outcome>>
hostVars   == <<handler, message, listening, data>>
threadVars == <<thread, threadOf, unit, released>>
deviceVars == <<alive, server, threadVars, replied>>
vars       == <<testVars, hostVars, toDevice, toHost, deviceVars>>

Commands == [cmd : {"request", "start", "stop"}, kind : Kinds, op : Ops]
Replies  == [cmd : {"request", "start", "stop"}, kind : Kinds, op : {NoOp} \cup Ops, ok : BOOLEAN]

CommandHandlers == [active : BOOLEAN, notify : BOOLEAN, result : BOOLEAN, posts : Nat,
                    param : {NoOp} \cup Ops]

NewHandler == [active |-> FALSE, notify |-> FALSE, result |-> FALSE, posts |-> 0, param |-> NoOp]
NoMessage  == [cmd |-> "none", kind |-> "stop", op |-> NoOp]
Idle       == [pc |-> "none", kind |-> "stop", op |-> NoOp]
Reading    == [pc |-> "read", kind |-> "stop"]

Init ==
  /\ call = Idle /\ kinds = <<>> /\ running = {} /\ registered = FALSE
  /\ handler = [k \in Handlers |-> NewHandler] /\ message = NoMessage /\ listening = TRUE
  /\ toDevice = <<>> /\ toHost = <<>>
  /\ alive = TRUE /\ server = Reading
  /\ thread = [n \in Ops |-> "none"] /\ threadOf = [k \in Streams |-> NoOp]
  /\ unit = [k \in Streams |-> NoOp] /\ released = {}
  /\ outcome = [n \in Ops |-> "none"] /\ data = [n \in Ops |-> NoOp] /\ replied = {}
-----------------------------------------------------------------------------
(* The test case's thread, in RemoteAudio.                                   *)

In(pc) == call.pc = pc
Free   == In("none") /\ Len(kinds) < MaxOps
New    == Len(kinds) + 1

\* The handler the thread is blocked on, by its semaphore.
Posted == handler[call.kind].posts > 0
Taken  == [handler EXCEPT ![call.kind].posts = @ - 1]

Goto(pc, kind, n) == call' = [pc |-> pc, kind |-> kind, op |-> n]

SendCommand(cmd, kind, n) == message' = [cmd |-> cmd, kind |-> kind, op |-> n]

\* downloadData, getDeviceInfo: the reply is waited for.
Request(k) ==
  /\ Free
  /\ kinds' = Append(kinds, k)
  /\ handler' = [handler EXCEPT ![k].notify = TRUE, ![k].param = New]
  /\ SendCommand("request", k, New)
  /\ Goto("requesting", k, New)
  /\ UNCHANGED <<running, registered, outcome, listening, data, toDevice, toHost, deviceVars>>

\* Faulty form: the semaphore is taken without waiting for the post.
RequestReturnsAtOnce ==
  /\ In("requesting")
  /\ handler' = Taken
  /\ registered' = (registered \/ call.kind = "download")
  /\ outcome' = [outcome EXCEPT ![call.op] = IF handler[call.kind].result THEN "true" ELSE "false"]
  /\ call' = Idle
  /\ UNCHANGED <<kinds, running, message, listening, data, toDevice, toHost, deviceVars>>
RequestReturns ==
  /\ In("requesting") /\ Posted
  /\ handler' = Taken
  /\ registered' = (registered \/ call.kind = "download")
  /\ outcome' = [outcome EXCEPT ![call.op] = IF handler[call.kind].result THEN "true" ELSE "false"]
  /\ call' = Idle
  /\ UNCHANGED <<kinds, running, message, listening, data, toDevice, toHost, deviceVars>>

\* startPlayback, startRecording; a busy handler makes them return at once.  A
\* test case completes a task before it starts another of its kind: "only one
\* command at a time" in RemoteAudio.h.
Start(k) ==
  /\ Free /\ ~handler[k].active /\ \A n \in running : kinds[n] # k
  /\ k = "playback" => registered
  /\ kinds' = Append(kinds, k)
  /\ handler' = [handler EXCEPT ![k].active = TRUE, ![k].param = New]
  /\ SendCommand("start", k, New)
  /\ Goto("starting", k, New)
  /\ UNCHANGED <<running, registered, outcome, listening, data, toDevice, toHost, deviceVars>>

\* The command was sent, or could not be: then the task fails and is dropped.
StartReturns ==
  /\ In("starting") /\ Posted
  /\ handler' = Taken
  /\ running' = IF handler[call.kind].result THEN running \cup {call.op} ELSE running
  /\ call' = Idle
  /\ UNCHANGED <<kinds, registered, outcome, message, listening, data, toDevice, toHost, deviceVars>>

\* TaskInput.complete and TaskOutput.complete wait, then stop.  Faulty form: the
\* wait does not look whether the reply has come.
CompleteUnchecked(n) ==
  /\ In("none") /\ n \in running
  /\ handler' = [handler EXCEPT ![kinds[n]].notify = TRUE]
  /\ Goto("completing", kinds[n], n)
  /\ UNCHANGED <<kinds, running, registered, outcome, message, listening, data, toDevice, toHost, deviceVars>>
Complete(n) ==
  /\ In("none") /\ n \in running
  /\ \/ handler[kinds[n]].active
        /\ handler' = [handler EXCEPT ![kinds[n]].notify = TRUE]
        /\ Goto("completing", kinds[n], n)
        /\ UNCHANGED outcome
     \/ ~handler[kinds[n]].active
        /\ Goto("stop", kinds[n], n)
        /\ outcome' = [outcome EXCEPT ![n] = "true"]
        /\ UNCHANGED handler
  /\ UNCHANGED <<kinds, running, registered, message, listening, data, toDevice, toHost, deviceVars>>

\* A playback need not be waited for.  Faulty form: neither need a recording.
CompleteAnyUnawaited(n) ==
  /\ In("none") /\ n \in running
  /\ Goto("stop", kinds[n], n)
  /\ UNCHANGED <<kinds, running, registered, outcome, hostVars, toDevice, toHost, deviceVars>>
CompleteUnawaited(n) ==
  /\ In("none") /\ n \in running /\ kinds[n] = "playback"
  /\ Goto("stop", "playback", n)
  /\ UNCHANGED <<kinds, running, registered, outcome, hostVars, toDevice, toHost, deviceVars>>

WaitReturns ==
  /\ In("completing") /\ Posted
  /\ handler' = Taken
  /\ outcome' = [outcome EXCEPT ![call.op] = "true"]
  /\ Goto("stop", call.kind, call.op)
  /\ UNCHANGED <<kinds, running, registered, message, listening, data, toDevice, toHost, deviceVars>>

\* A reply is on its way to handler k, or the device has what it will reply to.
ReplyDue(k) ==
  LET n == handler[k].param IN
  /\ listening
  /\ \/ \E r \in Range(toHost) : r.kind = k /\ r.cmd # "stop"
     \/ /\ alive
        /\ \/ \E m \in Range(Append(toDevice, message)) : m.op = n /\ m.cmd # "stop"
           \/ thread[n] \in {"starting", "running", "marker"}

TimesOut ==
  /\ In("requesting") \/ In("completing")
  /\ ~Posted /\ message = NoMessage
  /\ LateReplies \/ ~ReplyDue(call.kind)
  /\ outcome' = [outcome EXCEPT ![call.op] = "false"]
  /\ IF In("requesting") THEN call' = Idle ELSE Goto("stop", call.kind, call.op)
  /\ UNCHANGED <<kinds, running, registered, hostVars, toDevice, toHost, deviceVars>>

\* doStop waits for the command to be sent, not for its reply.  Faulty form: the
\* host forgets the operation and does not tell the device.
ForgetAtStop ==
  /\ In("stop")
  /\ handler' = [handler EXCEPT ![call.kind].active = FALSE, ![call.kind].notify = FALSE]
  /\ running' = running \ {call.op} /\ call' = Idle
  /\ UNCHANGED <<message, kinds, registered, outcome, listening, data, toDevice, toHost, deviceVars>>
DoStop ==
  /\ In("stop")
  /\ \/ /\ handler[call.kind].active
        /\ handler' = [handler EXCEPT ![call.kind].active = FALSE, ![call.kind].notify = FALSE,
                                      !["stop"] = NewHandler]
        /\ SendCommand("stop", call.kind, call.op)
        /\ Goto("stopping", "stop", call.op)
        /\ UNCHANGED running
     \/ /\ ~handler[call.kind].active
        /\ running' = running \ {call.op} /\ call' = Idle
        /\ UNCHANGED <<handler, message>>
  /\ UNCHANGED <<kinds, registered, outcome, listening, data, toDevice, toHost, deviceVars>>

StopReturns ==
  /\ In("stopping") /\ Posted
  /\ handler' = Taken
  /\ running' = running \ {call.op} /\ call' = Idle
  /\ UNCHANGED <<kinds, registered, outcome, message, listening, data, toDevice, toHost, deviceVars>>

TestStep ==
  \/ \E k \in Requests : Request(k)
  \/ \E k \in Streams : Start(k)
  \/ \E n \in Ops : Complete(n) \/ CompleteUnawaited(n)
  \/ RequestReturns \/ StartReturns \/ WaitReturns \/ TimesOut \/ DoStop \/ StopReturns
-----------------------------------------------------------------------------
(* The looper's thread.                                                      *)

\* handleMessage: a command that went out is posted, unless its reply will be.
HandleMessage ==
  /\ message # NoMessage
  /\ \E ok \in BOOLEAN :
       LET k == IF message.cmd = "stop" THEN "stop" ELSE message.kind IN
       /\ alive => ok
       /\ handler' = [handler EXCEPT ![k].result = ok,
                                     ![k].posts = IF k \in Requests THEN @ ELSE @ + 1]
  /\ toDevice' = IF alive THEN Append(toDevice, message) ELSE toDevice
  /\ message' = NoMessage
  /\ UNCHANGED <<testVars, listening, data, toHost, deviceVars>>

\* handlePacket: the reply goes to the handler of its kind, a recording's data
\* to the buffer that handler has; an error ends the polling of the socket.
\* Faulty form: the client is woken whether or not it wants to be.
NotifiedAlways(h, ok) ==
  [h EXCEPT !.active = FALSE, !.notify = FALSE, !.result = ok, !.posts = @ + 1]
Notified(h, ok) ==
  [h EXCEPT !.active = FALSE, !.notify = FALSE,
            !.result = IF h.notify THEN ok ELSE @,
            !.posts  = IF h.notify THEN @ + 1 ELSE @]

HandlePacket ==
  /\ listening /\ toHost # <<>>
  /\ LET r == Head(toHost) IN
     /\ handler' = IF r.cmd = "stop" THEN handler
                   ELSE [handler EXCEPT ![r.kind] = Notified(@, r.ok)]
     /\ data' = IF r.cmd = "start" /\ r.kind = "recording" /\ r.ok
                THEN [data EXCEPT ![handler[r.kind].param] = r.op] ELSE data
     /\ listening' = r.ok
  /\ toHost' = Tail(toHost)
  /\ UNCHANGED <<testVars, message, toDevice, deviceVars>>

\* The connection is closed: nothing can be read.
SeeClosed ==
  /\ listening /\ toHost = <<>> /\ ~alive
  /\ listening' = FALSE
  /\ UNCHANGED <<testVars, handler, message, data, toDevice, toHost, deviceVars>>

LooperStep == HandleMessage \/ HandlePacket \/ SeeClosed
-----------------------------------------------------------------------------
(* The device.                                                               *)

Reply(cmd, kind, n, ok) ==
  /\ toHost' = Append(toHost, [cmd |-> cmd, kind |-> kind, op |-> n, ok |-> ok])
  /\ replied' = IF cmd = "stop" THEN replied ELSE replied \cup {n}

\* An exception nobody catches ends the application and with it the connection.
Crash ==
  /\ alive' = FALSE /\ toDevice' = <<>>
  /\ UNCHANGED <<testVars, hostVars, toHost, server, threadVars, replied>>

NextIs(cmd) == server = Reading /\ toDevice # <<>> /\ Head(toDevice).cmd = cmd
Command == Head(toDevice)

\* handleDownload, handleGetDeviceInfo.
HandleRequest ==
  /\ NextIs("request")
  /\ Reply("request", Command.kind, Command.op, TRUE)
  /\ toDevice' = Tail(toDevice)
  /\ UNCHANGED <<testVars, hostVars, alive, server, threadVars>>

\* handleStartPlayback, handleStartRecording.
HandleStart ==
  /\ NextIs("start")
  /\ thread' = [thread EXCEPT ![Command.op] = "starting"]
  /\ threadOf' = [threadOf EXCEPT ![Command.kind] = Command.op]
  /\ toDevice' = Tail(toDevice)
  /\ UNCHANGED <<testVars, hostVars, toHost, alive, server, unit, released, replied>>

\* handleStopPlayback, handleStopRecording: stop() of what was released throws.
HandleStop ==
  /\ NextIs("stop")
  /\ LET k == Command.kind IN
     \/ unit[k] \in released /\ Crash
     \/ /\ unit[k] \notin released
        /\ released' = released \cup ({unit[k]} \ {NoOp})
        /\ unit' = [unit EXCEPT ![k] = NoOp]
        /\ server' = [pc |-> "quit", kind |-> k]
        /\ toDevice' = Tail(toDevice)
        /\ UNCHANGED <<testVars, hostVars, toHost, alive, thread, threadOf, replied>>

Quitting(n) == server.pc = "quit" /\ n # NoOp /\ threadOf[server.kind] = n

\* quitLoop joins the thread; one that has no looper yet makes it throw.
QuitLoop ==
  /\ server.pc = "quit"
  /\ LET n == threadOf[server.kind] IN
     \/ n # NoOp /\ thread[n] = "starting" /\ Crash
     \/ /\ n = NoOp \/ thread[n] = "over"
        /\ threadOf' = [threadOf EXCEPT ![server.kind] = NoOp]
        /\ Reply("stop", server.kind, n, TRUE)
        /\ server' = Reading
        /\ UNCHANGED <<testVars, hostVars, toDevice, alive, thread, unit, released>>

ServerStep == alive /\ (HandleRequest \/ HandleStart \/ HandleStop \/ QuitLoop)
-----------------------------------------------------------------------------
(* The LoopThread of a playback.                                             *)

Thread(n, kind, pc) == n \in DOMAIN kinds /\ kinds[n] = kind /\ thread[n] = pc

\* The track of an earlier playback is released for a new one.  The marker of a
\* track is told to this thread's looper, so to nobody once it has quit.
PlayerStarts(n) ==
  /\ Thread(n, "playback", "starting")
  /\ released' = released \cup ({unit["playback"]} \ {NoOp})
  /\ unit' = [unit EXCEPT !["playback"] = n]
  /\ thread' = [thread EXCEPT ![n] = IF Quitting(n) THEN "over" ELSE "running"]
  /\ UNCHANGED <<testVars, hostVars, toDevice, toHost, alive, server, threadOf, replied>>

\* onMarkerReached releases the track, but mPlayback keeps it.
MarkerReached(n) ==
  /\ Thread(n, "playback", "running") /\ n \notin released
  /\ released' = released \cup {n}
  /\ thread' = [thread EXCEPT ![n] = "marker"]
  /\ UNCHANGED <<testVars, hostVars, toDevice, toHost, alive, server, threadOf, unit, replied>>

\* Faulty form: quitLoop joins the thread it is called in.
MarkerJoinsItself(n) == FALSE /\ n = n /\ UNCHANGED vars
MarkerReplies(n) ==
  /\ Thread(n, "playback", "marker")
  /\ threadOf' = [threadOf EXCEPT !["playback"] = NoOp]
  /\ Reply("start", "playback", n, TRUE)
  /\ thread' = [thread EXCEPT ![n] = "over"]
  /\ UNCHANGED <<testVars, hostVars, toDevice, alive, server, unit, released>>

\* Stopped: the thread ends, or it has just found mPlayback null while writing,
\* or its looper had the marker's message, and it throws.
PlayerStopped(n) ==
  /\ Thread(n, "playback", "running") /\ n \in released
  /\ \/ Crash
     \/ /\ thread' = [thread EXCEPT ![n] = "over"]
        /\ UNCHANGED <<testVars, hostVars, toDevice, toHost, alive, server,
                       threadOf, unit, released, replied>>
-----------------------------------------------------------------------------
(* The LoopThread of a recording; it uses the field mRecord throughout.      *)

RecorderStarts(n) ==
  /\ Thread(n, "recording", "starting")
  /\ unit' = [unit EXCEPT !["recording"] = n]
  /\ thread' = [thread EXCEPT ![n] = "running"]
  /\ UNCHANGED <<testVars, hostVars, toDevice, toHost, alive, server, threadOf, released, replied>>

\* All was read, or a read failed, as it does once the AudioRecord is released.
RecordingEnds(n) ==
  /\ Thread(n, "recording", "running")
  /\ \/ unit["recording"] = NoOp /\ Crash
     \/ /\ unit["recording"] # NoOp
        /\ \E ok \in BOOLEAN : /\ ok => unit["recording"] \notin released
                               /\ Reply("start", "recording", n, ok)
        /\ thread' = [thread EXCEPT ![n] = "replied"]
        /\ UNCHANGED <<testVars, hostVars, toDevice, alive, server, threadOf, unit, released>>

\* The finally block: stop() of null, or of what was released, throws.
RecorderEnds(n) ==
  /\ Thread(n, "recording", "replied")
  /\ LET u == unit["recording"] IN
     \/ (u = NoOp \/ u \in released) /\ Crash
     \/ /\ u # NoOp /\ u \notin released
        /\ released' = released \cup {u}
        /\ unit' = [unit EXCEPT !["recording"] = NoOp]
        /\ thread' = [thread EXCEPT ![n] = "over"]
        /\ UNCHANGED <<testVars, hostVars, toDevice, toHost, alive, server, threadOf, replied>>

ThreadStep(n) ==
  /\ alive
  /\ \/ PlayerStarts(n) \/ MarkerReached(n) \/ MarkerReplies(n) \/ PlayerStopped(n)
     \/ RecorderStarts(n) \/ RecordingEnds(n) \/ RecorderEnds(n)

Next == TestStep \/ LooperStep \/ ServerStep \/ \E n \in Ops : ThreadStep(n)

Spec == Init /\ [][Next]_vars

\* What a call has begun goes on: its waits end, the looper is never blocked,
\* the device's threads are scheduled.  Nothing obliges the test to call.
FairSpec ==
  /\ Spec
  /\ WF_vars(RequestReturns \/ StartReturns \/ WaitReturns \/ TimesOut \/ DoStop \/ StopReturns)
  /\ WF_vars(LooperStep) /\ WF_vars(ServerStep)
  /\ \A n \in Ops : WF_vars(ThreadStep(n))
-----------------------------------------------------------------------------
(* Properties.                                                               *)

TypeOK ==
  /\ call \in [pc : {"none", "requesting", "starting", "completing", "stop", "stopping"},
               kind : Handlers, op : {NoOp} \cup Ops]
  /\ kinds \in Seq(Kinds) /\ Len(kinds) <= MaxOps
  /\ running \subseteq DOMAIN kinds /\ registered \in BOOLEAN
  /\ handler \in [Handlers -> CommandHandlers]
  /\ message \in {NoMessage} \cup Commands /\ listening \in BOOLEAN
  /\ toDevice \in Seq(Commands) /\ toHost \in Seq(Replies)
  /\ alive \in BOOLEAN /\ server \in {Reading} \cup [pc : {"quit"}, kind : Streams]
  /\ thread \in [Ops -> {"none", "starting", "running", "marker", "replied", "over"}]
  /\ threadOf \in [Streams -> {NoOp} \cup Ops] /\ unit \in [Streams -> {NoOp} \cup Ops]
  /\ outcome \in [Ops -> {"none", "true", "false"}] /\ data \in [Ops -> {NoOp} \cup Ops]
  /\ released \subseteq Ops /\ replied \subseteq Ops

Successful(n) == outcome[n] = "true"

\* A recording that was waited for has been replied to by the device, and its
\* buffer never holds another recording, though replies carry no number.
RecordingIsOwn ==
  \A n \in DOMAIN kinds :
    /\ data[n] \in {NoOp, n}
    /\ (Successful(n) /\ kinds[n] = "recording" => n \in replied)

\* The same of playbacks, as "Wait for the playback / recording to complete"
\* has it: does not hold when a playback is stopped just as it completes.
PlaybackIsOwn ==
  \A n \in DOMAIN kinds : Successful(n) /\ kinds[n] = "playback" => n \in replied

\* If replies come in time, a wait fails only for a host that has stopped
\* listening or a client that has crashed: no wake-up is lost between the check
\* of mActive and the reply.
TimesOutOnlyDeaf ==
  \A n \in Ops : outcome[n] = "false" => ~listening \/ ~alive

\* A semaphore has a post only while the test waits for it: no call can take
\* what was meant for an earlier one.
PostsAwaited ==
  \A k \in Handlers :
    handler[k].posts > 0 =>
      /\ handler[k].posts = 1 /\ call.kind = k
      /\ call.pc \in {"requesting", "starting", "completing", "stopping"}

\* The device is never told to play, or to record, while it does: AudioProtocol
\* does not check.
Active(n) == n \in DOMAIN kinds /\ thread[n] \in {"starting", "running", "marker"}
OneAtATime ==
  alive => \A m, n \in Ops : Active(m) /\ Active(n) /\ kinds[m] = kinds[n] => m = n

\* Every call returns.
CallsReturn == In("requesting") \/ In("starting") \/ In("completing") \/ In("stopping") ~> In("none")
-----------------------------------------------------------------------------
(* The inductive invariant.                                                  *)

Stream(n) == n \in DOMAIN kinds /\ kinds[n] \in Streams

\* The host has started operation n and waits for its reply.
Open(n) == handler[kinds[n]].active /\ handler[kinds[n]].param = n

\* A command for operation n is in the looper's queue or on its way.
Queue        == IF message = NoMessage THEN toDevice ELSE Append(toDevice, message)
Sent(cmd, n) == \E x \in Range(Queue) : x.cmd = cmd /\ x.op = n

Quits(k) == server.pc = "quit" /\ server.kind = k

\* No reply will reach handler k any more.
Silent(k) ==
  \/ ~listening
  \/ ~alive /\ \A r \in Range(toHost) : r.kind = k => r.cmd = "stop"

\* A stop is under way for a playback that has completed: it will crash the
\* client, and meanwhile nothing is played.
Doomed ==
  /\ \E j \in released : unit["playback"] = j /\ Sent("stop", j)
  /\ \A n \in DOMAIN kinds : kinds[n] = "playback" => thread[n] \notin {"starting", "running"}

\* A handler is set for the last operation of its kind; a task runs on it.
CallInv ==
  /\ ~In("none") => call.op \in DOMAIN kinds
  /\ In("requesting") \/ In("starting") =>
       kinds[call.op] = call.kind /\ handler[call.kind].param = call.op
  /\ In("requesting") => call.kind \in Requests
  /\ In("starting") => call.kind \in Streams
  /\ In("completing") \/ In("stop") => call.op \in running /\ kinds[call.op] = call.kind
  /\ In("stopping") => call.op \in running /\ call.kind = "stop"
  /\ \A n \in running : kinds[n] \in Streams /\ handler[kinds[n]].param = n
  /\ \A n \in DOMAIN kinds : n <= handler[kinds[n]].param
  /\ \A k \in Kinds : handler[k].param # NoOp \/ handler[k].active =>
       handler[k].param \in DOMAIN kinds /\ kinds[handler[k].param] = k

\* The looper has at most the command of the call the thread is blocked in.
MessageInv ==
  message # NoMessage =>
    /\ message.op = call.op /\ message.kind = kinds[call.op]
    /\ handler[call.kind].posts = 0
    /\ \/ message.cmd = "request" /\ In("requesting")
       \/ message.cmd = "start" /\ In("starting")
       \/ message.cmd = "stop" /\ In("stopping")

\* A handler is to notify only the thread that waits for it, once, or no one.
PostInv ==
  /\ PostsAwaited
  /\ \A k \in Handlers : handler[k].notify =>
       \/ k \in Kinds /\ Silent(k)
       \/ call.kind = k /\ (In("requesting") \/ In("completing")) /\ handler[k].posts = 0
  /\ \A k \in Streams : handler[k].notify => handler[k].active
  /\ (In("requesting") \/ In("completing")) /\ ~Posted => handler[call.kind].notify
  /\ In("completing") /\ Posted => ~handler[call.kind].active
  /\ In("requesting") /\ Posted => handler[call.kind].result

\* Commands of one kind come in the order of their operations, start first, and
\* none is for an operation before one that was begun.
Before(x, y) ==
  x.kind = y.kind => x.op < y.op \/ (x.op = y.op /\ x.cmd = "start" /\ y.cmd = "stop")
Ordered(q) == \A i, j \in DOMAIN q : i < j => Before(q[i], q[j])
QueueInv ==
  /\ \A x \in Range(Queue) :
       /\ x.op \in DOMAIN kinds /\ x.kind = kinds[x.op]
       /\ x.cmd = "request" <=> x.kind \in Requests
  /\ Ordered(Queue)
  /\ \A n \in Ops : Stream(n) /\ thread[n] = "none" <=> Sent("start", n)
  /\ \A n \in Ops : ~Stream(n) => thread[n] = "none"
  /\ \A n \in Ops : \A x \in Range(Queue) :
       thread[n] # "none" /\ x.kind = kinds[n] => n <= x.op

\* Of each kind, only the thread that AudioProtocol knows is active.  What the
\* host has given up is stopped, over, or blocked behind what will crash.
ThreadInv ==
  /\ \A n \in Ops : Active(n) => threadOf[kinds[n]] = n
  /\ \A k \in Streams : threadOf[k] # NoOp => Stream(threadOf[k]) /\ kinds[threadOf[k]] = k
  /\ \A n \in Ops : Stream(n) /\ ~Open(n) =>
       \/ Sent("stop", n) \/ thread[n] \in {"replied", "over"}
       \/ Quits(kinds[n]) /\ thread[n] # "none"
       \/ kinds[n] = "playback" /\ Doomed
  /\ \A n \in Ops : Stream(n) /\ Open(n) =>
       ~Sent("stop", n) /\ (Quits(kinds[n]) => thread[n] = "none")
  /\ listening => ~Quits("recording")
  /\ listening => \A n \in Ops : Stream(n) /\ kinds[n] = "recording" => ~Sent("stop", n)

\* A playback's track is mPlayback from its start to its stop, released when its
\* marker is reached.
UnitInv ==
  /\ \A k \in Streams : unit[k] # NoOp =>
       Stream(unit[k]) /\ kinds[unit[k]] = k /\ thread[unit[k]] \notin {"none", "starting"}
  /\ \A n \in released : thread[n] \notin {"none", "starting"}
  /\ \A n \in Ops : Active(n) /\ kinds[n] = "playback" =>
       /\ thread[n] = "running" => unit["playback"] = n \/ Quits("playback")
       /\ thread[n] = "running" => (n \in released <=> Quits("playback"))
       /\ thread[n] = "marker" => unit["playback"] = n /\ n \in released /\ ~Quits("playback")

DeviceInv == alive => QueueInv /\ ThreadInv /\ UnitInv

Started(r) == r.cmd = "start"

\* A reply was made once, by a thread that is done.  It is for the operation
\* the host waits for, or, of a playback stopped too late, comes before a crash.
Distinct(q, cmd) ==
  \A i, j \in DOMAIN q : q[i].cmd = cmd /\ q[j].cmd = cmd /\ q[i].op = q[j].op => i = j
GoodReply(r) ==
  /\ ~Started(r) => r.ok /\ (r.cmd = "stop" \/ r.kind \in Requests)
  /\ Started(r) =>
       /\ Stream(r.op) /\ r.kind = kinds[r.op]
       /\ thread[r.op] \in {"replied", "over"} /\ r.op \in replied
       /\ listening /\ r.kind = "recording" => Open(r.op)
       /\ listening /\ alive /\ r.kind = "playback" =>
            Doomed \/ (Open(r.op) /\ unit["playback"] = r.op /\ r.op \in released)
ReplyInv ==
  /\ \A r \in Range(toHost) : GoodReply(r)
  /\ Distinct(toHost, "start")
  /\ In("stop") /\ call.kind = "recording" /\ handler["recording"].active => Silent("recording")

\* While the host listens there is one request at most, that of the call the
\* thread is blocked in: on its way, with the device, or replied to.
RequestInv ==
  listening =>
    /\ \A r \in Range(toHost) : r.cmd = "request" =>
         /\ In("requesting") /\ ~Posted /\ message = NoMessage
         /\ r.op = call.op /\ r.kind = call.kind
         /\ alive => ~Sent("request", r.op)
    /\ Distinct(toHost, "request")
    /\ alive => \A n \in Ops : Sent("request", n) => In("requesting") /\ ~Posted /\ n = call.op

\* A reply that is awaited has come, or the device has what it will reply to.
DueInv ==
  alive /\ listening =>
    /\ \A k \in Requests : handler[k].notify =>
         Sent("request", handler[k].param) \/ \E r \in Range(toHost) : r.kind = k /\ r.cmd # "stop"
    /\ \A n \in Ops : Stream(n) /\ Open(n) /\ thread[n] \in {"replied", "over"} =>
         \E r \in Range(toHost) : r.kind = kinds[n] /\ r.cmd # "stop"

\* A recording that the host does not wait for any more was replied to.
RecordedInv ==
  /\ \A n \in Ops \ DOMAIN kinds : outcome[n] = "none" /\ data[n] = NoOp
  /\ \A n \in DOMAIN kinds :
       /\ n \in running \/ (In("starting") /\ call.op = n)
       /\ kinds[n] = "recording" /\ ~handler["recording"].active
       /\ ~(In("stopping") /\ call.op = n)
       => n \in replied

IInv == TypeOK /\ CallInv /\ MessageInv /\ PostInv /\ DeviceInv /\ ReplyInv /\ RequestInv
        /\ DueInv /\ RecordedInv /\ RecordingIsOwn /\ TimesOutOnlyDeaf
=============================================================================
