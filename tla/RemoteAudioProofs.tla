-------------------------- MODULE RemoteAudioProofs --------------------------
(***************************************************************************)
(* For any number of operations, if replies come in time: no wake-up is    *)
(* lost and none is taken by a call it was not meant for, a recording's    *)
(* buffer holds that recording, and the device never plays, or records,    *)
(* two things at once, although replies do not say whose they are.         *)
(***************************************************************************)
EXTENDS RemoteAudio, TLAPS

-----------------------------------------------------------------------------
(* Sequences.                                                              *)

\* What is in a sequence that grows at its end.
LEMMA RangeAppend ==
  ASSUME NEW S, NEW q \in Seq(S), NEW x \in S
  PROVE  /\ Append(q, x) \in Seq(S)
         /\ \A y : y \in Range(Append(q, x)) <=> y \in Range(q) \/ y = x
<1>1. Append(q, x) \in Seq(S) /\ DOMAIN Append(q, x) = 1 .. Len(q) + 1
  OBVIOUS
<1>2. \A i \in 1 .. Len(q) : Append(q, x)[i] = q[i]
  OBVIOUS
<1>3. Append(q, x)[Len(q) + 1] = x /\ DOMAIN q = 1 .. Len(q) /\ Len(q) \in Nat
  OBVIOUS
<1>4. \A i \in 1 .. Len(q) + 1 : i \in 1 .. Len(q) \/ i = Len(q) + 1
  BY <1>3
<1>5. ASSUME NEW y \in Range(Append(q, x)) PROVE y \in Range(q) \/ y = x
  <2>1. PICK i \in 1 .. Len(q) + 1 : y = Append(q, x)[i]
    BY <1>1 DEF Range
  <2> QED
    BY <2>1, <1>2, <1>3, <1>4 DEF Range
<1>6. ASSUME NEW y, y \in Range(q) \/ y = x PROVE y \in Range(Append(q, x))
  <2>1. CASE y = x
    <3>1. Len(q) + 1 \in DOMAIN Append(q, x)
      BY <1>1, <1>3
    <3> QED
      BY <2>1, <3>1, <1>3 DEF Range
  <2>2. CASE y \in Range(q)
    <3>1. PICK i \in 1 .. Len(q) : y = q[i]
      BY <2>2, <1>3 DEF Range
    <3>2. i \in DOMAIN Append(q, x)
      BY <1>1, <1>3
    <3> QED
      BY <3>1, <3>2, <1>2 DEF Range
  <2> QED
    BY <1>6, <2>1, <2>2
<1> QED
  BY <1>1, <1>5, <1>6

\* What is in a sequence that is taken from at its head.
LEMMA RangeTail ==
  ASSUME NEW S, NEW q \in Seq(S), q # <<>>
  PROVE  /\ Tail(q) \in Seq(S) /\ Head(q) \in S /\ Head(q) \in Range(q)
         /\ \A y : y \in Range(q) <=> y = Head(q) \/ y \in Range(Tail(q))
<1>1. /\ Tail(q) \in Seq(S) /\ Head(q) = q[1] /\ Len(q) \in Nat \ {0} /\ DOMAIN q = 1 .. Len(q)
      /\ DOMAIN Tail(q) = 1 .. Len(q) - 1
  OBVIOUS
<1>2. \A i \in 1 .. Len(q) - 1 : Tail(q)[i] = q[i + 1]
  OBVIOUS
<1>3. Head(q) \in S /\ Head(q) \in Range(q)
  BY <1>1 DEF Range
<1>4. ASSUME NEW y \in Range(q) PROVE y = Head(q) \/ y \in Range(Tail(q))
  <2>1. PICK i \in 1 .. Len(q) : y = q[i]
    BY <1>1 DEF Range
  <2>2. CASE i = 1
    BY <2>1, <2>2, <1>1
  <2>3. CASE i # 1
    <3>1. i - 1 \in 1 .. Len(q) - 1 /\ (i - 1) + 1 = i
      BY <2>3, <1>1
    <3>2. y = Tail(q)[i - 1]
      BY <3>1, <2>1, <1>2
    <3> QED
      BY <3>1, <3>2, <1>1 DEF Range
  <2> QED
    BY <2>2, <2>3
<1>5. ASSUME NEW y \in Range(Tail(q)) PROVE y \in Range(q)
  <2>1. PICK i \in 1 .. Len(q) - 1 : y = Tail(q)[i]
    BY <1>1 DEF Range
  <2>2. i + 1 \in DOMAIN q /\ y = q[i + 1]
    BY <2>1, <1>1, <1>2
  <2> QED
    BY <2>2 DEF Range
<1> QED
  BY <1>1, <1>3, <1>4, <1>5

\* The head of an ordered queue comes before all the others.
LEMMA OrderTail ==
  ASSUME NEW S, NEW q \in Seq(S), q # <<>>, Ordered(q)
  PROVE  Ordered(Tail(q)) /\ \A y \in Range(Tail(q)) : Before(Head(q), y)
<1>1. /\ Head(q) = q[1] /\ Len(q) \in Nat \ {0} /\ DOMAIN q = 1 .. Len(q)
      /\ DOMAIN Tail(q) = 1 .. Len(q) - 1
  OBVIOUS
<1>2. \A i \in 1 .. Len(q) - 1 : Tail(q)[i] = q[i + 1] /\ i + 1 \in 1 .. Len(q) /\ 1 \in 1 .. Len(q)
  OBVIOUS
<1>3. Ordered(Tail(q))
  <2> SUFFICES ASSUME NEW i \in 1 .. Len(q) - 1, NEW j \in 1 .. Len(q) - 1, i < j
               PROVE  Before(Tail(q)[i], Tail(q)[j])
    BY <1>1 DEF Ordered
  <2>1. i + 1 < j + 1
    OBVIOUS
  <2> QED
    BY <2>1, <1>1, <1>2 DEF Ordered
<1>4. ASSUME NEW y \in Range(Tail(q)) PROVE Before(Head(q), y)
  <2>1. PICK i \in 1 .. Len(q) - 1 : y = Tail(q)[i]
    BY <1>1 DEF Range
  <2>2. 1 < i + 1
    OBVIOUS
  <2> QED
    BY <2>1, <2>2, <1>1, <1>2 DEF Ordered
<1> QED
  BY <1>3, <1>4

\* A command that comes after all of the queue keeps it in order at its end.
LEMMA OrderAppend ==
  ASSUME NEW S, NEW q \in Seq(S), NEW x \in S, Ordered(q), \A y \in Range(q) : Before(y, x)
  PROVE  Ordered(Append(q, x))
<1>1. DOMAIN Append(q, x) = 1 .. Len(q) + 1 /\ DOMAIN q = 1 .. Len(q) /\ Len(q) \in Nat
  OBVIOUS
<1>2. \A i \in 1 .. Len(q) : Append(q, x)[i] = q[i]
  OBVIOUS
<1>3. Append(q, x)[Len(q) + 1] = x
  OBVIOUS
<1> SUFFICES ASSUME NEW i \in 1 .. Len(q) + 1, NEW j \in 1 .. Len(q) + 1, i < j
             PROVE  Before(Append(q, x)[i], Append(q, x)[j])
  BY <1>1 DEF Ordered
<1>4. i \in 1 .. Len(q)
  BY <1>1
<1>5. CASE j \in 1 .. Len(q)
  BY <1>1, <1>2, <1>4, <1>5 DEF Ordered
<1>6. CASE j = Len(q) + 1
  BY <1>1, <1>2, <1>3, <1>4, <1>6 DEF Range
<1> QED
  BY <1>1, <1>5, <1>6

\* The head of a queue of distinct replies is equal to no other.
LEMMA DistinctTail ==
  ASSUME NEW S, NEW q \in Seq(S), q # <<>>, NEW c, Distinct(q, c)
  PROVE  /\ Distinct(Tail(q), c)
         /\ \A y \in Range(Tail(q)) : y.cmd = c /\ Head(q).cmd = c => y.op # Head(q).op
<1>1. /\ Head(q) = q[1] /\ Len(q) \in Nat \ {0} /\ DOMAIN q = 1 .. Len(q)
      /\ DOMAIN Tail(q) = 1 .. Len(q) - 1
  OBVIOUS
<1>2. \A i \in 1 .. Len(q) - 1 : Tail(q)[i] = q[i + 1] /\ i + 1 \in 1 .. Len(q) /\ 1 \in 1 .. Len(q)
  OBVIOUS
<1>3. Distinct(Tail(q), c)
  <2> SUFFICES ASSUME NEW i \in 1 .. Len(q) - 1, NEW j \in 1 .. Len(q) - 1,
                      Tail(q)[i].cmd = c, Tail(q)[j].cmd = c, Tail(q)[i].op = Tail(q)[j].op
               PROVE  i = j
    BY <1>1 DEF Distinct
  <2>1. i + 1 = j + 1
    BY <1>1, <1>2 DEF Distinct
  <2> QED
    BY <2>1
<1>4. ASSUME NEW y \in Range(Tail(q)), y.cmd = c, Head(q).cmd = c PROVE y.op # Head(q).op
  <2>1. PICK i \in 1 .. Len(q) - 1 : y = Tail(q)[i]
    BY <1>1 DEF Range
  <2>2. 1 # i + 1
    OBVIOUS
  <2> QED
    BY <2>1, <2>2, <1>1, <1>2, <1>4 DEF Distinct
<1> QED
  BY <1>3, <1>4

\* A reply that no other is equal to keeps them distinct.
LEMMA DistinctAppend ==
  ASSUME NEW S, NEW q \in Seq(S), NEW x \in S, NEW c, Distinct(q, c),
         x.cmd = c => \A y \in Range(q) : y.cmd = c => y.op # x.op
  PROVE  Distinct(Append(q, x), c)
<1>1. DOMAIN Append(q, x) = 1 .. Len(q) + 1 /\ DOMAIN q = 1 .. Len(q) /\ Len(q) \in Nat
  OBVIOUS
<1>2. \A i \in 1 .. Len(q) : Append(q, x)[i] = q[i] /\ q[i] \in Range(q)
  BY <1>1 DEF Range
<1>3. Append(q, x)[Len(q) + 1] = x
  OBVIOUS
<1> DEFINE a == Append(q, x)
<1> SUFFICES ASSUME NEW i \in 1 .. Len(q) + 1, NEW j \in 1 .. Len(q) + 1,
                    a[i].cmd = c, a[j].cmd = c, a[i].op = a[j].op
             PROVE  i = j
  BY <1>1 DEF Distinct
<1>4. CASE i \in 1 .. Len(q) /\ j \in 1 .. Len(q)
  BY <1>1, <1>2, <1>4 DEF Distinct
<1>5. CASE i = Len(q) + 1 /\ j \in 1 .. Len(q)
  BY <1>2, <1>3, <1>5
<1>6. CASE i \in 1 .. Len(q) /\ j = Len(q) + 1
  BY <1>2, <1>3, <1>6
<1> QED
  BY <1>1, <1>4, <1>5, <1>6

-----------------------------------------------------------------------------
(* The commands under way.                                                 *)

\* The commands under way are commands.
LEMMA QueueType == ASSUME TypeOK PROVE Queue \in Seq(Commands)
<1>1. CASE message = NoMessage
  BY <1>1 DEF TypeOK, Queue
<1>2. CASE message # NoMessage
  BY <1>2, RangeAppend DEF TypeOK, Queue
<1> QED
  BY <1>1, <1>2

\* No command is mistaken for the absence of one.
LEMMA NoCommand == NoMessage \notin Commands
BY DEF NoMessage, Commands

\* A command is sent.
LEMMA QueueSends ==
  ASSUME TypeOK, message = NoMessage, NEW m \in Commands, message' = m, toDevice' = toDevice
  PROVE  /\ Queue' = Append(Queue, m) /\ Queue \in Seq(Commands)
         /\ \A x : x \in Range(Queue') <=> x \in Range(Queue) \/ x = m
         /\ \A c, n : Sent(c, n)' <=> Sent(c, n) \/ (c = m.cmd /\ n = m.op)
<1>1. Queue' = Append(Queue, m)
  BY NoCommand DEF Queue
<1>2. Queue \in Seq(Commands)
  BY QueueType
<1>3. \A x : x \in Range(Queue') <=> x \in Range(Queue) \/ x = m
  BY <1>1, <1>2, RangeAppend
<1>4. \A c, n : Sent(c, n)' <=> Sent(c, n) \/ (c = m.cmd /\ n = m.op)
  BY <1>3 DEF Sent
<1> QED
  BY <1>1, <1>2, <1>3, <1>4

\* The looper writes it to the socket.
LEMMA QueueMoves ==
  ASSUME TypeOK, message # NoMessage, message' = NoMessage, toDevice' = Append(toDevice, message)
  PROVE  Queue' = Queue
BY DEF Queue

\* The device takes it.
LEMMA QueueTakes ==
  ASSUME TypeOK, toDevice # <<>>, message' = message, toDevice' = Tail(toDevice)
  PROVE  /\ Queue \in Seq(Commands) /\ Queue # <<>>
         /\ Head(Queue) = Head(toDevice) /\ Head(toDevice) \in Commands
         /\ Queue' = Tail(Queue)
         /\ \A x : x \in Range(Queue) <=> x = Head(toDevice) \/ x \in Range(Queue')
<1>1. Queue \in Seq(Commands)
  BY QueueType
<1>2. toDevice \in Seq(Commands) /\ message \in {NoMessage} \cup Commands
  BY DEF TypeOK
<1>3. Queue # <<>> /\ Head(Queue) = Head(toDevice) /\ Queue' = Tail(Queue)
  <2>1. CASE message = NoMessage
    BY <2>1 DEF Queue
  <2>2. CASE message # NoMessage
    <3>1. /\ Append(toDevice, message) # <<>>
          /\ Head(Append(toDevice, message)) = Head(toDevice)
          /\ Tail(Append(toDevice, message)) = Append(Tail(toDevice), message)
      BY <1>2, <2>2
    <3> QED
      BY <2>2, <3>1 DEF Queue
  <2> QED
    BY <2>1, <2>2
<1>4. Head(toDevice) \in Commands
  BY <1>2
<1>5. \A x : x \in Range(Queue) <=> x = Head(toDevice) \/ x \in Range(Queue')
  BY <1>1, <1>3, RangeTail
<1> QED
  BY <1>1, <1>3, <1>4, <1>5

-----------------------------------------------------------------------------
(* Facts used in several places.                                           *)

\* The operations so far are a beginning of all the numbers there may be.
LEMMA Basics ==
  ASSUME TypeOK
  PROVE  /\ Len(kinds) \in Nat /\ DOMAIN kinds = 1 .. Len(kinds) /\ DOMAIN kinds \subseteq Ops
         /\ \A n \in DOMAIN kinds : kinds[n] \in Kinds
         /\ Ops \subseteq Nat \ {0} /\ NoOp \notin Ops
BY AudioAssumption DEF TypeOK, Ops, NoOp

\* At the beginning nothing is under way.
LEMMA InitInv == ASSUME Init PROVE IInv
<1> USE DEF Init
<1>1. MaxOps \in Nat
  BY AudioAssumption
<1>2. TypeOK
  <2>1. handler \in [Handlers -> CommandHandlers]
    <3>1. NewHandler \in CommandHandlers
      BY DEF NewHandler, CommandHandlers
    <3> QED
      BY <3>1
  <2>2. call \in [pc : {"none", "requesting", "starting", "completing", "stop", "stopping"},
                  kind : Handlers, op : {NoOp} \cup Ops]
    BY DEF Idle, Handlers
  <2>3. /\ kinds \in Seq(Kinds) /\ Len(kinds) <= MaxOps /\ toDevice \in Seq(Commands) /\ toHost \in Seq(Replies)
        /\ message \in {NoMessage} \cup Commands /\ running \subseteq DOMAIN kinds /\ server \in {Reading}
    BY <1>1
  <2> QED
    BY <2>1, <2>2, <2>3 DEF TypeOK
<1>3. Queue = <<>> /\ DOMAIN kinds = {} /\ Range(Queue) = {} /\ Range(toHost) = {}
  BY DEF Queue, Range
<1>4. CallInv /\ MessageInv /\ RecordedInv /\ RecordingIsOwn /\ TimesOutOnlyDeaf
  BY <1>3 DEF CallInv, MessageInv, RecordedInv, RecordingIsOwn, TimesOutOnlyDeaf, Idle, In, NewHandler,
              Handlers, Kinds, NoOp, Successful
<1>5. PostInv
  BY DEF PostInv, PostsAwaited, Idle, In, NewHandler, Handlers, Kinds
<1>6. QueueInv
  BY <1>3 DEF QueueInv, Ordered, Sent, Stream
<1>7. ThreadInv /\ UnitInv
  BY <1>3 DEF ThreadInv, UnitInv, Active, Stream, Quits, Reading, Sent
<1>8. ReplyInv /\ DueInv /\ RequestInv
  <2>1. DOMAIN toHost = {}
    OBVIOUS
  <2> QED
    BY <1>3, <2>1 DEF ReplyInv, DueInv, RequestInv, Distinct, Sent, In, Idle, Stream, NewHandler, Handlers, Kinds
<1> QED
  BY <1>2, <1>4, <1>5, <1>6, <1>7, <1>8 DEF IInv, DeviceInv

\* A host that still listens to a live client waits for no operation but the
\* last of its kind; all the others are over, or the client will crash.
LEMMA Alone ==
  ASSUME IInv, alive, NEW m \in Ops, Stream(m), Open(m), thread[m] # "none",
         NEW n \in Ops, n # m, Stream(n), kinds[n] = kinds[m]
  PROVE  thread[n] \in {"replied", "over"} \/ (kinds[n] = "playback" /\ Doomed)
<1>1. QueueInv /\ ThreadInv
  BY DEF IInv, DeviceInv
<1>2. m \in Nat /\ n \in Nat
  BY Basics DEF IInv
<1>3. n < m /\ ~Open(n)
  BY <1>2 DEF IInv, CallInv, Open, Stream
<1>4. ~Sent("stop", n)
  <2> SUFFICES ASSUME NEW x \in Range(Queue), x.cmd = "stop", x.op = n PROVE FALSE
    BY DEF Sent
  <2>1. x.kind = kinds[m]
    BY <1>1 DEF QueueInv
  <2>2. m <= n
    BY <1>1, <2>1 DEF QueueInv
  <2> QED
    BY <1>2, <1>3, <2>2
<1>5. ~Quits(kinds[n])
  BY <1>1 DEF ThreadInv
<1> QED
  BY <1>1, <1>3, <1>4, <1>5 DEF ThreadInv

\* A command at the head of the queue that starts a task of a kind: no earlier
\* one of the kind is active.
LEMMA StartsAlone ==
  ASSUME IInv, alive, server = Reading, toDevice # <<>>, NEW h, h = Head(toDevice), h.cmd = "start"
  PROVE  /\ h.op \in Ops /\ Stream(h.op) /\ h.kind = kinds[h.op] /\ thread[h.op] = "none"
         /\ \A m \in Ops : Stream(m) /\ kinds[m] = h.kind => ~Active(m)
         /\ h.kind = "playback" => ~Doomed
<1>1. QueueInv /\ ThreadInv /\ UnitInv /\ TypeOK
  BY DEF IInv, DeviceInv
<1>2. /\ Queue \in Seq(Commands) /\ Queue # <<>> /\ Head(Queue) = h /\ h \in Commands
  <2>1. toDevice \in Seq(Commands) /\ message \in {NoMessage} \cup Commands
    BY <1>1 DEF TypeOK
  <2>2. CASE message = NoMessage
    BY <2>1, <2>2 DEF Queue
  <2>3. CASE message # NoMessage
    <3>1. /\ Append(toDevice, message) \in Seq(Commands) /\ Append(toDevice, message) # <<>>
          /\ Head(Append(toDevice, message)) = Head(toDevice)
      BY <2>1, <2>3
    <3> QED
      BY <2>1, <2>3, <3>1 DEF Queue
  <2> QED
    BY <2>2, <2>3
<1>3. h \in Range(Queue) /\ \A x : x \in Range(Queue) <=> x = h \/ x \in Range(Tail(Queue))
  BY <1>2, RangeTail
<1>4. \A y \in Range(Tail(Queue)) : Before(h, y)
  BY <1>1, <1>2, OrderTail DEF QueueInv
<1>5. h.op \in Ops /\ h.op \in DOMAIN kinds /\ h.kind = kinds[h.op] /\ h.kind \in Streams
  <2>1. h.op \in DOMAIN kinds /\ h.kind = kinds[h.op] /\ ~(h.kind \in Requests)
    BY <1>1, <1>3 DEF QueueInv
  <2>2. h.op \in Ops /\ h.kind \in Kinds
    BY <1>2 DEF Commands
  <2> QED
    BY <2>1, <2>2 DEF Kinds
<1>6. Stream(h.op) /\ thread[h.op] = "none"
  BY <1>1, <1>3, <1>5 DEF Stream, Sent, QueueInv
<1>7. h.kind = "playback" => ~Doomed
  <2> SUFFICES ASSUME h.kind = "playback", Doomed PROVE FALSE
    OBVIOUS
  <2>1. PICK j \in released : unit["playback"] = j /\ Sent("stop", j)
    BY DEF Doomed
  <2>2. PICK x \in Range(Queue) : x.cmd = "stop" /\ x.op = j
    BY <2>1 DEF Sent
  <2>3. /\ j \in Ops /\ Stream(j) /\ kinds[j] = "playback" /\ thread[j] # "none"
    BY <1>1, <2>1, Basics DEF UnitInv, TypeOK, Streams
  <2>4. x.kind = "playback"
    BY <1>1, <2>2, <2>3 DEF QueueInv
  <2>5. x \in Range(Tail(Queue))
    BY <1>3, <2>2
  <2>6. h.op <= j
    BY <1>4, <2>2, <2>4, <2>5, <1>5, <2>3, Basics, <1>1 DEF Before, Streams
  <2>7. j <= h.op
    BY <1>1, <1>3, <2>3 DEF QueueInv
  <2>8. j = h.op
    BY <2>6, <2>7, <2>3, <1>5, <1>1, Basics
  <2> QED
    BY <2>8, <2>3, <1>6
<1>8. ASSUME NEW m \in Ops, Stream(m), kinds[m] = h.kind, Active(m) PROVE FALSE
  <2>1. thread[m] \in {"starting", "running", "marker"}
    BY <1>8 DEF Active
  <2>2. m <= h.op /\ m # h.op
    BY <1>1, <1>3, <1>6, <1>8, <2>1 DEF QueueInv
  <2>3. h.op <= handler[kinds[m]].param
    BY <1>5, <1>8 DEF IInv, CallInv
  <2>4. ~Open(m)
    BY <1>1, <2>2, <2>3, <1>5, Basics DEF Open
  <2>5. ~Sent("stop", m)
    <3> SUFFICES ASSUME NEW x \in Range(Queue), x.cmd = "stop", x.op = m PROVE FALSE
      BY DEF Sent
    <3>1. x.kind = h.kind /\ x \in Range(Tail(Queue))
      BY <1>1, <1>3, <1>8 DEF QueueInv
    <3>2. h.op <= m
      BY <3>1, <1>4, <1>5, <1>1, Basics DEF Before
    <3> QED
      BY <3>2, <2>2, <1>1, <1>5, Basics
  <2>6. ~Quits(kinds[m])
    BY DEF Quits, Reading
  <2> QED
    BY <1>1, <1>7, <1>8, <2>1, <2>4, <2>5, <2>6 DEF ThreadInv
<1> QED
  BY <1>5, <1>6, <1>7, <1>8

-----------------------------------------------------------------------------
(* Steps of the device.                                                    *)

\* They leave the host alone: what it knows of replies to come stays true.
LEMMA HostKept ==
  ASSUME IInv, alive, UNCHANGED <<testVars, hostVars>>, replied \subseteq replied',
         alive' \in BOOLEAN, TypeOK'
  PROVE  /\ CallInv' /\ MessageInv' /\ PostInv' /\ RecordedInv' /\ RecordingIsOwn' /\ TimesOutOnlyDeaf'
         /\ (In("stop") /\ call.kind = "recording" /\ handler["recording"].active => Silent("recording"))'
<1> USE DEF testVars, hostVars
<1>1. \A k : Silent(k) => Silent(k)'
  BY DEF Silent
<1>2. CallInv' /\ MessageInv'
  BY DEF IInv, CallInv, MessageInv, In
<1>3. PostInv'
  BY <1>1 DEF IInv, PostInv, PostsAwaited, In, Posted
<1>4. RecordedInv' /\ RecordingIsOwn' /\ TimesOutOnlyDeaf'
  BY DEF IInv, RecordedInv, RecordingIsOwn, TimesOutOnlyDeaf, In, Successful
<1>5. (In("stop") /\ call.kind = "recording" /\ handler["recording"].active => Silent("recording"))'
  BY <1>1 DEF IInv, ReplyInv, In
<1> QED
  BY <1>2, <1>3, <1>4, <1>5

\* Replies stay as good as they were while the device goes on.
LEMMA RepliesKept ==
  ASSUME IInv, TypeOK', alive, alive', UNCHANGED <<testVars, hostVars>>, replied \subseteq replied',
         \A n \in Ops : thread[n] \in {"replied", "over"} => thread'[n] \in {"replied", "over"},
         Doomed => Doomed',
         ~Doomed /\ listening /\ (\E r \in Range(toHost) : Started(r) /\ r.kind = "playback") =>
           unit'["playback"] = unit["playback"] /\ released \subseteq released'
  PROVE  \A r \in Range(toHost) : GoodReply(r)'
<1> USE DEF testVars, hostVars
<1> SUFFICES ASSUME NEW r \in Range(toHost) PROVE GoodReply(r)'
  OBVIOUS
<1>1. GoodReply(r)
  BY DEF IInv, ReplyInv
<1>2. CASE ~Started(r)
  BY <1>1, <1>2 DEF GoodReply, Started
<1>3. CASE Started(r)
  <2>1. Stream(r.op) /\ r.op \in Ops
    BY <1>1, <1>3, Basics DEF GoodReply, Stream, IInv
  <2>2. Stream(r.op)' /\ (Open(r.op)' <=> Open(r.op))
    BY <2>1 DEF Stream, Open
  <2> QED
    BY <1>1, <1>3, <2>1, <2>2 DEF GoodReply, Started
<1> QED
  BY <1>2, <1>3

\* So does the list of them, if a new one is good.
LEMMA ReplyAdded ==
  ASSUME IInv, TypeOK', alive, UNCHANGED <<testVars, hostVars>>, replied \subseteq replied',
         \A r \in Range(toHost) : GoodReply(r)',
         \/ toHost' = toHost
         \/ \E x \in Replies :
              /\ toHost' = Append(toHost, x) /\ GoodReply(x)'
              /\ Started(x) => thread[x.op] \notin {"replied", "over"}
  PROVE  ReplyInv' /\ \A y \in Range(toHost) : y \in Range(toHost')
<1>1. toHost \in Seq(Replies) /\ Distinct(toHost, "start")
  BY DEF IInv, TypeOK, ReplyInv
<1>2. (In("stop") /\ call.kind = "recording" /\ handler["recording"].active => Silent("recording"))'
  BY HostKept DEF TypeOK
<1>3. CASE toHost' = toHost
  <2>1. (\A r \in Range(toHost) : GoodReply(r))'
    BY <1>3
  <2>2. Distinct(toHost, "start")'
    BY <1>1, <1>3
  <2> QED
    BY <2>1, <2>2, <1>2, <1>3 DEF ReplyInv, Distinct, Started
<1>4. ASSUME NEW x \in Replies, toHost' = Append(toHost, x), GoodReply(x)',
             Started(x) => thread[x.op] \notin {"replied", "over"}
      PROVE  ReplyInv' /\ \A y \in Range(toHost) : y \in Range(toHost')
  <2>1. \A y : y \in Range(toHost') <=> y \in Range(toHost) \/ y = x
    BY <1>1, <1>4, RangeAppend
  <2>2. Distinct(toHost, "start")'
    BY <1>1, <1>4, DistinctAppend DEF IInv, ReplyInv, GoodReply, Started
  <2>3. (\A r \in Range(toHost) : GoodReply(r))'
    BY <1>4, <2>1
  <2> QED
    BY <1>2, <2>1, <2>2, <2>3 DEF ReplyInv, Distinct, Started
<1> QED
  BY <1>3, <1>4

\* What is due stays due, unless it has come.
LEMMA DueKept ==
  ASSUME IInv, TypeOK', alive, UNCHANGED <<testVars, hostVars>>,
         \A y \in Range(toHost) : y \in Range(toHost'),
         \A n : Sent("request", n) /\ n \in DOMAIN kinds => Sent("request", n)'
                  \/ \E r \in Range(toHost') : r.kind = kinds[n] /\ r.cmd # "stop",
         \A n \in Ops : Stream(n) /\ Open(n) /\ thread'[n] \in {"replied", "over"} =>
           \/ thread[n] \in {"replied", "over"}
           \/ \E r \in Range(toHost') : r.kind = kinds[n] /\ r.cmd # "stop"
  PROVE  DueInv'
<1> USE DEF testVars, hostVars
<1> SUFFICES ASSUME alive', listening
             PROVE  /\ \A k \in Requests : handler[k].notify =>
                         \/ Sent("request", handler[k].param)'
                         \/ \E r \in Range(toHost') : r.kind = k /\ r.cmd # "stop"
                    /\ \A n \in Ops : Stream(n) /\ Open(n) /\ thread'[n] \in {"replied", "over"} =>
                         \E r \in Range(toHost') : r.kind = kinds[n] /\ r.cmd # "stop"
  BY DEF DueInv, Stream, Open, Sent
<1>1. ASSUME NEW k \in Requests, handler[k].notify
      PROVE  \/ Sent("request", handler[k].param)'
             \/ \E r \in Range(toHost') : r.kind = k /\ r.cmd # "stop"
  <2>1. CASE \E r \in Range(toHost) : r.kind = k /\ r.cmd # "stop"
    BY <2>1
  <2>2. CASE Sent("request", handler[k].param)
    <3>1. handler[k].param \in DOMAIN kinds
      <4>1. PICK x \in Range(Queue) : x.op = handler[k].param
        BY <2>2 DEF Sent
      <4> QED
        BY <4>1 DEF IInv, DeviceInv, QueueInv
    <3>2. kinds[handler[k].param] = k
      BY <3>1, Basics DEF IInv, CallInv, Kinds
    <3> QED
      BY <2>2, <3>1, <3>2
  <2> QED
    BY <1>1, <2>1, <2>2 DEF IInv, DueInv
<1>2. ASSUME NEW n \in Ops, Stream(n), Open(n), thread'[n] \in {"replied", "over"}
      PROVE  \E r \in Range(toHost') : r.kind = kinds[n] /\ r.cmd # "stop"
  BY <1>2 DEF IInv, DueInv
<1> QED
  BY <1>1, <1>2

\* The client crashes.
LEMMA CrashStep == ASSUME IInv, alive, Crash PROVE IInv'
<1>1. /\ alive' = FALSE /\ toDevice' = <<>> /\ UNCHANGED <<testVars, hostVars, toHost, server, threadVars>>
      /\ replied' = replied
  BY DEF Crash
<1>2. TypeOK'
  <2>1. /\ call' = call /\ kinds' = kinds /\ running' = running /\ registered' = registered
        /\ outcome' = outcome /\ handler' = handler /\ message' = message /\ listening' = listening
        /\ data' = data /\ toHost' = toHost /\ server' = server /\ thread' = thread
        /\ threadOf' = threadOf /\ unit' = unit /\ released' = released /\ replied' = replied
    BY <1>1 DEF testVars, hostVars, threadVars
  <2>2. toDevice' \in Seq(Commands)
    <3>1. <<>> \in Seq(Commands)
      OBVIOUS
    <3> QED
      BY <1>1, <3>1
  <2>3. alive' \in BOOLEAN
    BY <1>1
  <2> QED
    BY <2>1, <2>2, <2>3 DEF IInv, TypeOK
<1>3. DeviceInv' /\ DueInv'
  BY <1>1 DEF DeviceInv, DueInv
<1>4. \A r \in Range(toHost) : GoodReply(r)'
  <2> SUFFICES ASSUME NEW r \in Range(toHost) PROVE GoodReply(r)'
    OBVIOUS
  <2>1. GoodReply(r)
    BY DEF IInv, ReplyInv
  <2> QED
    BY <1>1, <2>1 DEF GoodReply, Started, Stream, Open, testVars, hostVars, threadVars
<1>5. ReplyInv'
  BY <1>1, <1>2, <1>4, ReplyAdded
<1>6. RequestInv'
  BY <1>1 DEF IInv, RequestInv, Distinct, In, Posted, testVars, hostVars
<1> QED
  BY <1>1, <1>2, <1>3, <1>5, <1>6, HostKept DEF IInv

\* A step of the device keeps the invariant if it keeps what is said of the
\* device, adds only good replies, and leaves nothing due unanswered.
LEMMA DeviceStep ==
  ASSUME IInv, TypeOK', alive, alive', UNCHANGED <<testVars, hostVars>>, replied \subseteq replied',
         QueueInv', ThreadInv', UnitInv', RequestInv',
         \A n \in Ops : thread[n] \in {"replied", "over"} => thread'[n] \in {"replied", "over"},
         Doomed => Doomed',
         ~Doomed /\ listening /\ (\E r \in Range(toHost) : Started(r) /\ r.kind = "playback") =>
           unit'["playback"] = unit["playback"] /\ released \subseteq released',
         \/ toHost' = toHost
         \/ \E x \in Replies :
              /\ toHost' = Append(toHost, x) /\ GoodReply(x)'
              /\ Started(x) => thread[x.op] \notin {"replied", "over"},
         \A n : Sent("request", n) /\ n \in DOMAIN kinds => Sent("request", n)'
                  \/ \E r \in Range(toHost') : r.kind = kinds[n] /\ r.cmd # "stop",
         \A n \in Ops : Stream(n) /\ Open(n) /\ thread'[n] \in {"replied", "over"} =>
           \/ thread[n] \in {"replied", "over"}
           \/ \E r \in Range(toHost') : r.kind = kinds[n] /\ r.cmd # "stop"
  PROVE  IInv'
<1>1. \A r \in Range(toHost) : GoodReply(r)'
  BY RepliesKept
<1>2. ReplyInv' /\ \A y \in Range(toHost) : y \in Range(toHost')
  BY <1>1, ReplyAdded
<1>3. DueInv'
  BY <1>2, DueKept
<1> QED
  BY <1>2, <1>3, HostKept DEF IInv, DeviceInv, TypeOK

\* The commands stay what they are, and no operation is started.
LEMMA QueueStands ==
  ASSUME QueueInv, TypeOK, message' = message, toDevice' = toDevice, kinds' = kinds,
         \A n \in Ops : thread'[n] = "none" <=> thread[n] = "none"
  PROVE  /\ QueueInv' /\ Queue' = Queue
         /\ \A c, n : Sent(c, n)' <=> Sent(c, n)
<1>1. Queue' = Queue
  BY DEF Queue
<1>2. \A c, n : Sent(c, n)' <=> Sent(c, n)
  BY <1>1 DEF Sent
<1>3. QueueInv'
  BY <1>1, <1>2 DEF QueueInv, Stream
<1> QED
  BY <1>1, <1>2, <1>3

\* The device takes a command, and begins its operation if it says so.
LEMMA QueueTaken ==
  ASSUME QueueInv, TypeOK, toDevice # <<>>, message' = message, toDevice' = Tail(toDevice), kinds' = kinds,
         NEW h, h = Head(toDevice),
         \A n \in Ops : thread'[n] = "none" <=> thread[n] = "none" /\ ~(h.cmd = "start" /\ n = h.op)
  PROVE  /\ QueueInv' /\ h \in Commands /\ toDevice' \in Seq(Commands) /\ h \in Range(Queue)
         /\ h.op \in DOMAIN kinds /\ h.kind = kinds[h.op]
         /\ \A c, n : Sent(c, n) <=> Sent(c, n)' \/ (c = h.cmd /\ n = h.op)
         /\ ~Sent(h.cmd, h.op)'
         /\ \A y \in Range(Queue') : y \in Range(Queue) /\ Before(h, y)
<1>1. /\ Queue \in Seq(Commands) /\ Queue # <<>> /\ Head(Queue) = h /\ h \in Commands
      /\ Queue' = Tail(Queue)
      /\ \A x : x \in Range(Queue) <=> x = h \/ x \in Range(Queue')
  BY QueueTakes
<1>2. Ordered(Queue') /\ \A y \in Range(Queue') : Before(h, y)
  BY <1>1, OrderTail DEF QueueInv
<1>3. \A c, n : Sent(c, n) <=> Sent(c, n)' \/ (c = h.cmd /\ n = h.op)
  BY <1>1 DEF Sent
<1>4. h.op \in DOMAIN kinds /\ h.kind = kinds[h.op] /\ h.op \in Nat /\ h.op \in Ops
  BY <1>1, Basics DEF QueueInv
<1>5. ~Sent(h.cmd, h.op)'
  <2> SUFFICES ASSUME NEW y \in Range(Queue'), y.cmd = h.cmd, y.op = h.op PROVE FALSE
    BY DEF Sent
  <2>1. y.kind = h.kind
    BY <1>1, <1>4 DEF QueueInv
  <2> QED
    BY <1>2, <1>4, <2>1 DEF Before
<1>6. toDevice' \in Seq(Commands)
  BY DEF TypeOK
<1>7. QueueInv'
  <2>1. \A x \in Range(Queue') : /\ x.op \in DOMAIN kinds /\ x.kind = kinds[x.op]
                                 /\ x.cmd = "request" <=> x.kind \in Requests
    BY <1>1 DEF QueueInv
  <2>2. \A n \in Ops : Stream(n)' <=> Stream(n)
    BY DEF Stream
  <2>3. \A n \in Ops : Stream(n)' /\ thread'[n] = "none" <=> Sent("start", n)'
    BY <1>3, <1>5, <2>2 DEF QueueInv
  <2>4. h.cmd = "start" => Stream(h.op)
    BY <1>3, <1>4 DEF QueueInv
  <2>5. \A n \in Ops : ~Stream(n)' => thread'[n] = "none"
    BY <2>2, <2>4 DEF QueueInv
  <2>6. ASSUME NEW n \in Ops, NEW x \in Range(Queue'), thread'[n] # "none", x.kind = kinds[n]
        PROVE  n <= x.op
    <3>1. CASE thread[n] # "none"
      BY <1>1, <2>6, <3>1 DEF QueueInv
    <3>2. CASE n = h.op
      <4>1. Before(h, x) /\ x.kind = h.kind
        BY <1>2, <1>4, <2>6, <3>2
      <4>2. x.op \in Nat
        BY <2>1, Basics
      <4> QED
        BY <4>1, <4>2, <3>2, <1>4 DEF Before
    <3> QED
      BY <2>6, <3>1, <3>2
  <2> QED
    BY <1>2, <2>1, <2>3, <2>5, <2>6 DEF QueueInv, Ordered
<1> QED
  BY <1>1, <1>2, <1>3, <1>4, <1>5, <1>6, <1>7

\* Nothing is said of requests by steps that reply to none.
LEMMA RequestKept ==
  ASSUME RequestInv, TypeOK, alive, UNCHANGED <<testVars, hostVars>>,
         \A n : Sent("request", n)' => Sent("request", n),
         \/ toHost' = toHost
         \/ \E x \in Replies : toHost' = Append(toHost, x) /\ x.cmd # "request"
  PROVE  RequestInv'
<1> USE DEF testVars, hostVars
<1>1. toHost \in Seq(Replies)
  BY DEF TypeOK
<1>2. \A r \in Range(toHost') : r.cmd = "request" => r \in Range(toHost)
  <2>1. ASSUME NEW x \in Replies, toHost' = Append(toHost, x), x.cmd # "request"
        PROVE  \A r \in Range(toHost') : r.cmd = "request" => r \in Range(toHost)
    BY <1>1, <2>1, RangeAppend
  <2> QED
    BY <2>1
<1>3. Distinct(toHost, "request") => Distinct(toHost', "request")
  BY <1>1, DistinctAppend
<1> QED
  BY <1>2, <1>3 DEF RequestInv, In, Posted, Distinct

\* The type invariant, for steps of the device.
LEMMA DeviceType ==
  ASSUME TypeOK, UNCHANGED <<testVars, hostVars>>,
         toDevice' \in Seq(Commands), toHost' \in Seq(Replies), alive' \in BOOLEAN,
         server' \in {Reading} \cup [pc : {"quit"}, kind : Streams],
         thread' \in [Ops -> {"none", "starting", "running", "marker", "replied", "over"}],
         threadOf' \in [Streams -> {NoOp} \cup Ops], unit' \in [Streams -> {NoOp} \cup Ops],
         released' \subseteq Ops, replied' \subseteq Ops
  PROVE  TypeOK'
BY DEF TypeOK, testVars, hostVars

\* A LoopThread can take a step only for an operation that was started.
LEMMA ThreadFacts ==
  ASSUME IInv, alive, NEW n \in Ops, NEW k \in Streams, NEW pc, Thread(n, k, pc)
  PROVE  /\ Stream(n) /\ kinds[n] = k /\ thread[n] = pc
         /\ TypeOK /\ QueueInv /\ ThreadInv /\ UnitInv /\ RequestInv
         /\ pc \in {"starting", "running", "marker"} =>
              Active(n) /\ \A m \in Ops : Active(m) /\ kinds[m] = k => m = n
BY DEF IInv, DeviceInv, Thread, Stream, ThreadInv, Active

-----------------------------------------------------------------------------
(* The LoopThreads.                                                        *)

\* A LoopThread goes on: commands and threads stay what they should be.
LEMMA ThreadMoves ==
  ASSUME IInv, TypeOK', alive, NEW n \in Ops, Stream(n), thread[n] # "none",
         UNCHANGED <<testVars, hostVars>>, toDevice' = toDevice, alive' = alive, server' = server,
         NEW p \in {"running", "marker", "replied", "over"}, thread' = [thread EXCEPT ![n] = p],
         thread[n] \in {"replied", "over"} => p \in {"replied", "over"},
         p \in {"running", "marker"} => Active(n),
         \/ threadOf' = threadOf
         \/ p = "over" /\ Active(n) /\ threadOf' = [threadOf EXCEPT ![kinds[n]] = NoOp],
         Doomed => Doomed',
         \/ toHost' = toHost
         \/ \E x \in Replies : toHost' = Append(toHost, x) /\ x.cmd # "request"
  PROVE  /\ QueueInv' /\ ThreadInv' /\ RequestInv'
         /\ \A c, m : Sent(c, m)' <=> Sent(c, m)
         /\ \A m \in Ops : Stream(m)' <=> Stream(m)
         /\ \A m \in Ops : Active(m)' => Active(m)
<1> USE DEF testVars, hostVars
<1>1. TypeOK /\ QueueInv /\ ThreadInv /\ RequestInv /\ kinds' = kinds
  BY DEF IInv, DeviceInv
<1>2. thread'[n] = p /\ \A m \in Ops : m # n => thread'[m] = thread[m]
  BY <1>1 DEF TypeOK
<1>3. QueueInv' /\ \A c, m : Sent(c, m)' <=> Sent(c, m)
  BY <1>1, <1>2, QueueStands
<1>4. \A m \in Ops : /\ Stream(m)' <=> Stream(m)
                     /\ Open(m)' <=> Open(m)
                     /\ Quits(kinds[m])' <=> Quits(kinds[m])
  BY DEF Stream, Open, Quits
<1>5. \A m \in Ops : Active(m)' => Active(m)
  BY <1>1, <1>2 DEF Active
<1>6. RequestInv'
  BY <1>1, <1>3, RequestKept
<1>7. \A m \in Ops : Active(m)' => threadOf'[kinds[m]] = m
  <2> SUFFICES ASSUME NEW m \in Ops, Active(m)' PROVE threadOf'[kinds[m]] = m
    OBVIOUS
  <2>1. threadOf[kinds[m]] = m /\ kinds[m] \in Streams
    <3>1. Active(m)
      BY <1>5
    <3>2. thread[m] # "none"
      BY <3>1 DEF Active
    <3> QED
      BY <1>1, <3>1, <3>2 DEF ThreadInv, QueueInv, Stream
  <2>2. CASE threadOf' = threadOf
    BY <2>1, <2>2
  <2>3. CASE p = "over" /\ Active(n) /\ threadOf' = [threadOf EXCEPT ![kinds[n]] = NoOp]
    <3>1. m # n
      BY <1>2, <2>3 DEF Active
    <3>2. n # NoOp /\ Stream(n) /\ (kinds[m] = kinds[n] => threadOf[kinds[n]] = m)
      BY <2>1, <1>1, Basics
    <3>3. kinds[m] # kinds[n]
      BY <2>3, <3>1, <3>2, <1>1 DEF ThreadInv
    <3> QED
      BY <2>1, <2>3, <3>3, <1>1 DEF TypeOK
  <2> QED
    BY <2>2, <2>3
<1>8. \A k \in Streams : threadOf'[k] # NoOp => Stream(threadOf[k])' /\ threadOf'[k] = threadOf[k] /\ kinds[threadOf[k]] = k
  <2> SUFFICES ASSUME NEW k \in Streams, threadOf'[k] # NoOp
               PROVE  Stream(threadOf[k])' /\ threadOf'[k] = threadOf[k] /\ kinds[threadOf[k]] = k
    OBVIOUS
  <2>1. threadOf'[k] = threadOf[k]
    BY <1>1 DEF TypeOK, Stream
  <2> QED
    BY <1>1, <2>1 DEF ThreadInv, Stream
<1>9. ASSUME NEW m \in Ops, Stream(m), ~Open(m)
      PROVE  \/ Sent("stop", m) \/ thread'[m] \in {"replied", "over"}
             \/ Quits(kinds[m]) /\ thread'[m] # "none"
             \/ kinds[m] = "playback" /\ Doomed'
  <2>1. \/ Sent("stop", m) \/ thread[m] \in {"replied", "over"}
        \/ Quits(kinds[m]) /\ thread[m] # "none"
        \/ kinds[m] = "playback" /\ Doomed
    BY <1>1, <1>9 DEF ThreadInv
  <2> QED
    BY <1>2, <2>1
<1>10. \A m \in Ops : Stream(m) /\ Open(m) => ~Sent("stop", m) /\ (Quits(kinds[m]) => thread'[m] = "none")
  BY <1>1, <1>2 DEF ThreadInv
<1>11. /\ listening => ~Quits("recording")'
       /\ listening => \A m \in Ops : Stream(m) /\ kinds[m] = "recording" => ~Sent("stop", m)
  BY <1>1 DEF ThreadInv, Quits
<1>12. ThreadInv'
  BY <1>1, <1>3, <1>4, <1>7, <1>8, <1>9, <1>10, <1>11 DEF ThreadInv, Quits
<1> QED
  BY <1>3, <1>4, <1>5, <1>6, <1>12
\* A playback's thread makes its track, unless it is already to quit.
LEMMA PlayerStartsStep ==
  ASSUME IInv, alive, NEW n \in Ops, PlayerStarts(n)
  PROVE  IInv'
<1>1. /\ UNCHANGED <<testVars, hostVars>> /\ toDevice' = toDevice /\ toHost' = toHost /\ alive' = alive
      /\ server' = server /\ threadOf' = threadOf /\ replied' = replied
      /\ released' = released \cup ({unit["playback"]} \ {NoOp})
      /\ unit' = [unit EXCEPT !["playback"] = n]
      /\ thread' = [thread EXCEPT ![n] = IF Quitting(n) THEN "over" ELSE "running"]
      /\ kinds' = kinds /\ handler' = handler /\ message' = message /\ listening' = listening
  BY DEF PlayerStarts, testVars, hostVars
<1>2. /\ Stream(n) /\ kinds[n] = "playback" /\ thread[n] = "starting" /\ Active(n)
      /\ TypeOK /\ QueueInv /\ ThreadInv /\ UnitInv /\ RequestInv
      /\ \A m \in Ops : Active(m) /\ kinds[m] = "playback" => m = n
  BY ThreadFacts DEF PlayerStarts, Streams
<1>3. Quitting(n) <=> Quits("playback")
  BY <1>2, Basics DEF Quitting, Quits, ThreadInv, TypeOK, Reading, Streams
<1>4. /\ thread' = [thread EXCEPT ![n] = IF Quits("playback") THEN "over" ELSE "running"]
      /\ thread[n] # "none" /\ thread'[n] \in {"running", "over"} /\ (thread'[n] = "running" <=> ~Quits("playback"))
      /\ \A m \in Ops : m # n => thread'[m] = thread[m]
  BY <1>1, <1>2, <1>3 DEF TypeOK
<1>5. /\ n \notin released /\ unit["playback"] # n /\ ~Doomed
  <2>1. n \notin released
    BY <1>2 DEF UnitInv
  <2>2. unit["playback"] # n
    BY <1>2, Basics DEF UnitInv, Streams
  <2>3. ~Doomed
    BY <1>2 DEF Doomed, Stream
  <2> QED
    BY <2>1, <2>2, <2>3
<1>6. /\ unit'["playback"] = n /\ unit'["recording"] = unit["recording"]
      /\ \A j \in released' : j \in released \/ (j = unit["playback"] /\ j # NoOp)
      /\ n \notin released'
  BY <1>1, <1>2, <1>5 DEF TypeOK, Streams
<1>7. TypeOK'
  <2>1. thread' \in [Ops -> {"none", "starting", "running", "marker", "replied", "over"}]
    BY <1>2, <1>4 DEF TypeOK
  <2>2. unit' \in [Streams -> {NoOp} \cup Ops] /\ released' \subseteq Ops
    BY <1>1, <1>2 DEF TypeOK, Streams
  <2> QED
    BY <1>1, <1>2, <2>1, <2>2, DeviceType DEF TypeOK
<1>8. /\ QueueInv' /\ ThreadInv' /\ RequestInv'
      /\ \A c, m : Sent(c, m)' <=> Sent(c, m)
      /\ \A m \in Ops : Active(m)' => Active(m)
  BY <1>1, <1>2, <1>4, <1>5, <1>7, ThreadMoves
<1>9. UnitInv'
  <2>1. \A k \in Streams : unit'[k] # NoOp =>
          Stream(unit[k])' /\ kinds'[unit'[k]] = k /\ thread'[unit'[k]] \notin {"none", "starting"}
    BY <1>1, <1>2, <1>4, <1>6, Basics DEF UnitInv, Streams, Stream, TypeOK
  <2>2. \A m \in Ops : m \in released' => thread'[m] \notin {"none", "starting"}
    BY <1>2, <1>4, <1>5, <1>6 DEF UnitInv, Streams
  <2>3. \A m \in Ops : Active(m)' /\ kinds'[m] = "playback" => m = n
    BY <1>1, <1>2, <1>8
  <2>4. Quits("playback")' <=> Quits("playback")
    BY <1>1 DEF Quits
  <2> QED
    BY <1>4, <1>6, <1>7, <2>1, <2>2, <2>3, <2>4 DEF UnitInv, TypeOK
<1>10. ~(listening /\ \E r \in Range(toHost) : Started(r) /\ r.kind = "playback")
  <2> SUFFICES ASSUME listening, NEW r \in Range(toHost), Started(r), r.kind = "playback" PROVE FALSE
    OBVIOUS
  <2>1. /\ Stream(r.op) /\ kinds[r.op] = "playback" /\ Open(r.op) /\ thread[r.op] \in {"replied", "over"}
        /\ r.op \in Ops
    BY <1>5, Basics DEF IInv, ReplyInv, GoodReply, Stream
  <2>2. thread[n] \in {"replied", "over"}
    BY <1>2, <1>5, <2>1, Alone
  <2> QED
    BY <1>2, <2>2
<1>11. \A m \in Ops : Stream(m) /\ Open(m) /\ thread'[m] \in {"replied", "over"} => thread[m] \in {"replied", "over"}
  BY <1>2, <1>4 DEF ThreadInv
<1> QED
  BY <1>1, <1>2, <1>4, <1>5, <1>7, <1>8, <1>9, <1>10, <1>11, DeviceStep

\* A track plays to its marker and is released.
LEMMA MarkerReachedStep ==
  ASSUME IInv, alive, NEW n \in Ops, MarkerReached(n)
  PROVE  IInv'
<1>1. /\ UNCHANGED <<testVars, hostVars>> /\ toDevice' = toDevice /\ toHost' = toHost /\ alive' = alive
      /\ server' = server /\ threadOf' = threadOf /\ unit' = unit /\ replied' = replied
      /\ released' = released \cup {n} /\ n \notin released
      /\ thread' = [thread EXCEPT ![n] = "marker"] /\ kinds' = kinds
  BY DEF MarkerReached, testVars, hostVars
<1>2. /\ Stream(n) /\ kinds[n] = "playback" /\ thread[n] = "running" /\ Active(n)
      /\ TypeOK /\ QueueInv /\ ThreadInv /\ UnitInv
      /\ \A m \in Ops : Active(m) /\ kinds[m] = "playback" => m = n
  BY ThreadFacts DEF MarkerReached, Streams
<1>3. thread'[n] = "marker" /\ \A m \in Ops : m # n => thread'[m] = thread[m]
  BY <1>1, <1>2 DEF TypeOK
<1>4. ~Quits("playback") /\ unit["playback"] = n
  BY <1>1, <1>2 DEF UnitInv
<1>5. ~Doomed
  BY <1>2 DEF Doomed, Stream
<1>6. TypeOK'
  <2>1. thread' \in [Ops -> {"none", "starting", "running", "marker", "replied", "over"}]
    BY <1>1, <1>2 DEF TypeOK
  <2> QED
    BY <1>1, <1>2, <2>1, DeviceType DEF TypeOK
<1>7. /\ QueueInv' /\ ThreadInv' /\ RequestInv'
      /\ \A c, m : Sent(c, m)' <=> Sent(c, m)
      /\ \A m \in Ops : Active(m)' => Active(m)
  BY <1>1, <1>2, <1>5, <1>6, ThreadMoves
<1>8. UnitInv'
  <2>1. \A k \in Streams : unit'[k] # NoOp =>
          Stream(unit[k])' /\ kinds'[unit'[k]] = k /\ thread'[unit'[k]] \notin {"none", "starting"}
    BY <1>1, <1>2, <1>3, Basics DEF UnitInv, Stream, TypeOK
  <2>2. \A m \in Ops : m \in released' => thread'[m] \notin {"none", "starting"}
    BY <1>1, <1>2, <1>3 DEF UnitInv
  <2>3. \A m \in Ops : Active(m)' /\ kinds'[m] = "playback" => m = n
    BY <1>1, <1>2, <1>7
  <2>4. ~Quits("playback")'
    BY <1>1, <1>4 DEF Quits
  <2> QED
    BY <1>1, <1>3, <1>4, <1>6, <2>1, <2>2, <2>3, <2>4 DEF UnitInv, TypeOK
<1>9. \A m \in Ops : thread'[m] \in {"replied", "over"} <=> thread[m] \in {"replied", "over"}
  BY <1>2, <1>3
<1> QED
  BY <1>1, <1>2, <1>5, <1>6, <1>7, <1>8, <1>9, DeviceStep

\* The playback's reply: the host waits for it, or has sent a stop that the
\* released track will make the client crash on.
LEMMA MarkerRepliesStep ==
  ASSUME IInv, alive, NEW n \in Ops, MarkerReplies(n)
  PROVE  IInv'
<1> DEFINE x == [cmd |-> "start", kind |-> "playback", op |-> n, ok |-> TRUE]
<1>1. /\ UNCHANGED <<testVars, hostVars>> /\ toDevice' = toDevice /\ toHost' = Append(toHost, x)
      /\ alive' = alive /\ server' = server /\ unit' = unit /\ released' = released
      /\ threadOf' = [threadOf EXCEPT !["playback"] = NoOp] /\ replied' = replied \cup {n}
      /\ thread' = [thread EXCEPT ![n] = "over"] /\ kinds' = kinds /\ handler' = handler
      /\ listening' = listening
  BY DEF MarkerReplies, Reply, testVars, hostVars
<1>2. /\ Stream(n) /\ kinds[n] = "playback" /\ thread[n] = "marker" /\ Active(n)
      /\ TypeOK /\ QueueInv /\ ThreadInv /\ UnitInv
      /\ \A m \in Ops : Active(m) /\ kinds[m] = "playback" => m = n
  BY ThreadFacts DEF MarkerReplies, Streams
<1>3. thread'[n] = "over" /\ \A m \in Ops : m # n => thread'[m] = thread[m]
  BY <1>1, <1>2 DEF TypeOK
<1>4. ~Quits("playback") /\ unit["playback"] = n /\ n \in released
  BY <1>2 DEF UnitInv
<1>5. x \in Replies /\ x.cmd = "start" /\ x.kind = "playback" /\ x.op = n
  BY DEF Replies, Kinds, Streams
<1>6. TypeOK'
  <2>1. thread' \in [Ops -> {"none", "starting", "running", "marker", "replied", "over"}]
    BY <1>1, <1>2 DEF TypeOK
  <2>2. toHost' \in Seq(Replies) /\ x \in Range(toHost')
    BY <1>1, <1>2, <1>5, RangeAppend DEF TypeOK
  <2>3. threadOf' \in [Streams -> {NoOp} \cup Ops] /\ replied' \subseteq Ops
    BY <1>1, <1>2 DEF TypeOK
  <2> QED
    BY <1>1, <1>2, <2>1, <2>2, <2>3, DeviceType DEF TypeOK
<1>7. \A c, m : Sent(c, m)' <=> Sent(c, m)
  <2>1. Queue' = Queue
    BY <1>1 DEF Queue, hostVars
  <2> QED
    BY <2>1 DEF Sent
<1>8. \A m \in DOMAIN kinds : kinds[m] = "playback" => thread'[m] \notin {"starting", "running"}
  <2> SUFFICES ASSUME NEW m \in DOMAIN kinds, kinds[m] = "playback", thread'[m] \in {"starting", "running"}
               PROVE  FALSE
    OBVIOUS
  <2>1. m \in Ops /\ m # n /\ thread[m] \in {"starting", "running"}
    BY <1>2, <1>3, Basics
  <2> QED
    BY <1>2, <2>1 DEF Active
<1>9. (Doomed => Doomed') /\ (Sent("stop", n) => Doomed')
  BY <1>1, <1>4, <1>7, <1>8 DEF Doomed
<1>10. /\ QueueInv' /\ ThreadInv' /\ RequestInv'
       /\ \A m \in Ops : Active(m)' => Active(m)
  <2> HIDE DEF x
  <2> QED
    BY <1>1, <1>2, <1>5, <1>6, <1>9, ThreadMoves
<1>11. UnitInv'
  <2>1. \A k \in Streams : unit'[k] # NoOp =>
          Stream(unit[k])' /\ kinds'[unit'[k]] = k /\ thread'[unit'[k]] \notin {"none", "starting"}
    BY <1>1, <1>2, <1>3, Basics DEF UnitInv, Stream, TypeOK
  <2>2. \A m \in Ops : m \in released' => thread'[m] \notin {"none", "starting"}
    BY <1>1, <1>2, <1>3 DEF UnitInv
  <2>3. \A m \in Ops : ~(Active(m)' /\ kinds'[m] = "playback")
    BY <1>1, <1>2, <1>3, <1>10 DEF Active
  <2> QED
    BY <1>1, <1>6, <2>1, <2>2, <2>3 DEF UnitInv, TypeOK
<1>12. GoodReply(x)'
  <2>1. Stream(n)' /\ (Open(n)' <=> Open(n))
    BY <1>1, <1>2 DEF Stream, Open
  <2>2. Open(n) \/ Doomed'
    <3>1. CASE ~Open(n)
      BY <1>2, <1>4, <1>9, <3>1 DEF ThreadInv
    <3> QED
      BY <3>1
  <2> QED
    BY <1>1, <1>2, <1>3, <1>4, <1>5, <2>1, <2>2 DEF GoodReply, Started
<1>13. x \in Range(toHost') /\ \A m \in Ops : thread[m] \in {"replied", "over"} => thread'[m] \in {"replied", "over"}
  BY <1>1, <1>2, <1>3, <1>5, RangeAppend DEF TypeOK
<1>14. \A m \in Ops : Stream(m) /\ Open(m) /\ thread'[m] \in {"replied", "over"} =>
         \/ thread[m] \in {"replied", "over"}
         \/ \E r \in Range(toHost') : r.kind = kinds[m] /\ r.cmd # "stop"
  BY <1>2, <1>3, <1>5, <1>13
<1> HIDE DEF x
<1> QED
  BY <1>1, <1>2, <1>5, <1>6, <1>7, <1>9, <1>10, <1>11, <1>12, <1>13, <1>14, DeviceStep

\* A stopped playback's thread ends, or crashes the client.
LEMMA PlayerStoppedStep ==
  ASSUME IInv, alive, NEW n \in Ops, PlayerStopped(n), ~Crash
  PROVE  IInv'
<1>1. /\ UNCHANGED <<testVars, hostVars>> /\ toDevice' = toDevice /\ toHost' = toHost /\ alive' = alive
      /\ server' = server /\ threadOf' = threadOf /\ unit' = unit /\ released' = released
      /\ replied' = replied /\ n \in released /\ thread' = [thread EXCEPT ![n] = "over"] /\ kinds' = kinds
  BY DEF PlayerStopped, testVars, hostVars
<1>2. /\ Stream(n) /\ kinds[n] = "playback" /\ thread[n] = "running" /\ Active(n)
      /\ TypeOK /\ QueueInv /\ ThreadInv /\ UnitInv
      /\ \A m \in Ops : Active(m) /\ kinds[m] = "playback" => m = n
  BY ThreadFacts DEF PlayerStopped, Streams
<1>3. thread'[n] = "over" /\ \A m \in Ops : m # n => thread'[m] = thread[m]
  BY <1>1, <1>2 DEF TypeOK
<1>4. ~Open(n)
  <2>1. Quits("playback")
    BY <1>1, <1>2 DEF UnitInv
  <2> QED
    BY <1>2, <2>1 DEF ThreadInv
<1>5. ~Doomed
  BY <1>2 DEF Doomed, Stream
<1>6. TypeOK'
  <2>1. thread' \in [Ops -> {"none", "starting", "running", "marker", "replied", "over"}]
    BY <1>1, <1>2 DEF TypeOK
  <2> QED
    BY <1>1, <1>2, <2>1, DeviceType DEF TypeOK
<1>7. /\ QueueInv' /\ ThreadInv' /\ RequestInv'
      /\ \A c, m : Sent(c, m)' <=> Sent(c, m)
      /\ \A m \in Ops : Active(m)' => Active(m)
  BY <1>1, <1>2, <1>5, <1>6, ThreadMoves
<1>8. UnitInv'
  <2>1. \A k \in Streams : unit'[k] # NoOp =>
          Stream(unit[k])' /\ kinds'[unit'[k]] = k /\ thread'[unit'[k]] \notin {"none", "starting"}
    BY <1>1, <1>2, <1>3, Basics DEF UnitInv, Stream, TypeOK
  <2>2. \A m \in Ops : m \in released' => thread'[m] \notin {"none", "starting"}
    BY <1>1, <1>2, <1>3 DEF UnitInv
  <2>3. \A m \in Ops : ~(Active(m)' /\ kinds'[m] = "playback")
    BY <1>1, <1>2, <1>3, <1>7 DEF Active
  <2> QED
    BY <1>1, <1>6, <2>1, <2>2, <2>3 DEF UnitInv, TypeOK
<1>9. \A m \in Ops : /\ thread[m] \in {"replied", "over"} => thread'[m] \in {"replied", "over"}
                     /\ Open(m) /\ thread'[m] \in {"replied", "over"} => thread[m] \in {"replied", "over"}
  BY <1>3, <1>4
<1> QED
  BY <1>1, <1>2, <1>5, <1>6, <1>7, <1>8, <1>9, DeviceStep

\* What a recording does changes nothing for the tracks of playbacks.
LEMMA RecorderUnits ==
  ASSUME IInv, TypeOK', alive, NEW n \in Ops, Stream(n), kinds[n] = "recording", thread[n] # "none",
         kinds' = kinds, server' = server, NEW p \in {"running", "replied", "over"},
         thread' = [thread EXCEPT ![n] = p],
         unit'["playback"] = unit["playback"],
         unit'["recording"] \in {NoOp, n, unit["recording"]},
         \A j \in released' : j \in released \/ j = unit["recording"], released \subseteq released',
         \A c, m : Sent(c, m)' <=> Sent(c, m)
  PROVE  UnitInv' /\ (Doomed => Doomed')
<1>1. UnitInv /\ TypeOK
  BY DEF IInv, DeviceInv
<1>2. thread'[n] = p /\ \A m \in Ops : m # n => thread'[m] = thread[m]
  BY <1>1 DEF TypeOK
<1>3. \A j \in Ops : thread[j] \notin {"none", "starting"} => thread'[j] \notin {"none", "starting"}
  BY <1>2
<1>4. \A k \in Streams : unit[k] # NoOp =>
        unit[k] \in Ops /\ Stream(unit[k]) /\ kinds[unit[k]] = k /\ thread'[unit[k]] \notin {"none", "starting"}
  BY <1>1, <1>3 DEF UnitInv, TypeOK
<1>5. \A k \in Streams : unit'[k] # NoOp =>
        Stream(unit'[k]) /\ kinds[unit'[k]] = k /\ thread'[unit'[k]] \notin {"none", "starting"}
  <2>1. CASE unit'["recording"] = n
    BY <1>2, <1>4, <2>1 DEF Streams
  <2>2. CASE unit'["recording"] # n
    BY <1>4, <2>2 DEF Streams
  <2> QED
    BY <2>1, <2>2
<1>6. \A m \in Ops : m \in released' => thread'[m] \notin {"none", "starting"}
  BY <1>1, <1>3, <1>4, Basics DEF UnitInv, Streams
<1>7. \A m \in Ops : kinds[m] = "playback" =>
        thread'[m] = thread[m] /\ (Active(m)' <=> Active(m)) /\ (m \in released' <=> m \in released)
  <2> SUFFICES ASSUME NEW m \in Ops, kinds[m] = "playback"
               PROVE  thread'[m] = thread[m] /\ (Active(m)' <=> Active(m)) /\ (m \in released' <=> m \in released)
    OBVIOUS
  <2>1. m # n /\ thread'[m] = thread[m]
    BY <1>2
  <2>2. m # unit["recording"]
    BY <1>4, Basics, <1>1 DEF Streams
  <2> QED
    BY <2>1, <2>2 DEF Active
<1>8. Quits("playback")' <=> Quits("playback")
  BY DEF Quits
<1>9. UnitInv'
  <2>1. \A k \in Streams : unit'[k] # NoOp =>
          Stream(unit[k])' /\ kinds'[unit'[k]] = k /\ thread'[unit'[k]] \notin {"none", "starting"}
    BY <1>5 DEF Stream
  <2>2. \A m \in released' : thread'[m] \notin {"none", "starting"}
    BY <1>6 DEF TypeOK
  <2>3. \A m \in Ops : Active(m)' /\ kinds'[m] = "playback" =>
          /\ thread'[m] = "running" => unit'["playback"] = m \/ Quits("playback")'
          /\ thread'[m] = "running" => (m \in released' <=> Quits("playback")')
          /\ thread'[m] = "marker" => unit'["playback"] = m /\ m \in released' /\ ~Quits("playback")'
    BY <1>1, <1>7, <1>8 DEF UnitInv
  <2> QED
    BY <2>1, <2>2, <2>3 DEF UnitInv
<1>10. Doomed => Doomed'
  BY <1>1, <1>7, Basics DEF Doomed
<1> QED
  BY <1>9, <1>10

\* A recording's thread makes its AudioRecord.
LEMMA RecorderStartsStep ==
  ASSUME IInv, alive, NEW n \in Ops, RecorderStarts(n)
  PROVE  IInv'
<1>1. /\ UNCHANGED <<testVars, hostVars>> /\ toDevice' = toDevice /\ toHost' = toHost /\ alive' = alive
      /\ server' = server /\ threadOf' = threadOf /\ released' = released /\ replied' = replied
      /\ unit' = [unit EXCEPT !["recording"] = n]
      /\ thread' = [thread EXCEPT ![n] = "running"] /\ kinds' = kinds /\ message' = message
  BY DEF RecorderStarts, testVars, hostVars
<1>2. /\ Stream(n) /\ kinds[n] = "recording" /\ thread[n] = "starting" /\ Active(n) /\ TypeOK
  BY ThreadFacts DEF RecorderStarts, Streams
<1>3. thread'[n] = "running" /\ \A m \in Ops : m # n => thread'[m] = thread[m]
  BY <1>1, <1>2 DEF TypeOK
<1>4. /\ unit' \in [Streams -> {NoOp} \cup Ops] /\ unit'["recording"] = n
      /\ unit'["playback"] = unit["playback"]
  BY <1>1, <1>2 DEF TypeOK, Streams
<1>5. TypeOK'
  <2>1. thread' \in [Ops -> {"none", "starting", "running", "marker", "replied", "over"}]
    BY <1>1, <1>2 DEF TypeOK
  <2> QED
    BY <1>1, <1>2, <1>4, <2>1, DeviceType DEF TypeOK
<1>6. \A c, m : Sent(c, m)' <=> Sent(c, m)
  BY <1>1 DEF Sent, Queue
<1>7. UnitInv' /\ (Doomed => Doomed')
  BY <1>1, <1>2, <1>4, <1>5, <1>6, RecorderUnits
<1>8. QueueInv' /\ ThreadInv' /\ RequestInv'
  BY <1>1, <1>2, <1>5, <1>7, ThreadMoves
<1>9. \A m \in Ops : thread'[m] \in {"replied", "over"} <=> thread[m] \in {"replied", "over"}
  BY <1>2, <1>3
<1> QED
  BY <1>1, <1>4, <1>5, <1>6, <1>7, <1>8, <1>9, DeviceStep

\* A recording's reply: a host that listens waits for it.
LEMMA RecordingEndsStep ==
  ASSUME IInv, alive, NEW n \in Ops, RecordingEnds(n), ~Crash
  PROVE  IInv'
<1>1. PICK ok \in BOOLEAN : Reply("start", "recording", n, ok)
  BY DEF RecordingEnds
<1> DEFINE x == [cmd |-> "start", kind |-> "recording", op |-> n, ok |-> ok]
<1>2. /\ UNCHANGED <<testVars, hostVars>> /\ toDevice' = toDevice /\ toHost' = Append(toHost, x)
      /\ alive' = alive /\ server' = server /\ threadOf' = threadOf /\ unit' = unit
      /\ released' = released /\ replied' = replied \cup {n} /\ message' = message
      /\ thread' = [thread EXCEPT ![n] = "replied"] /\ kinds' = kinds /\ handler' = handler
      /\ listening' = listening
  BY <1>1 DEF RecordingEnds, Reply, testVars, hostVars
<1>3. /\ Stream(n) /\ kinds[n] = "recording" /\ thread[n] = "running" /\ Active(n)
      /\ TypeOK /\ ThreadInv
  BY ThreadFacts DEF RecordingEnds, Streams
<1>4. thread'[n] = "replied" /\ \A m \in Ops : m # n => thread'[m] = thread[m]
  BY <1>2, <1>3 DEF TypeOK
<1>5. x \in Replies /\ x.cmd = "start" /\ x.kind = "recording" /\ x.op = n
  BY DEF Replies, Kinds, Streams
<1>6. toHost' \in Seq(Replies) /\ x \in Range(toHost')
  BY <1>2, <1>3, <1>5, RangeAppend DEF TypeOK
<1> HIDE DEF x
<1>7. TypeOK'
  <2>1. thread' \in [Ops -> {"none", "starting", "running", "marker", "replied", "over"}]
    BY <1>2, <1>3 DEF TypeOK
  <2> QED
    BY <1>2, <1>3, <1>6, <2>1, DeviceType DEF TypeOK
<1>8. \A c, m : Sent(c, m)' <=> Sent(c, m)
  BY <1>2 DEF Sent, Queue
<1>9. UnitInv' /\ (Doomed => Doomed')
  BY <1>2, <1>3, <1>7, <1>8, RecorderUnits
<1>10. QueueInv' /\ ThreadInv' /\ RequestInv'
  BY <1>2, <1>3, <1>5, <1>7, <1>9, ThreadMoves
<1>11. GoodReply(x)'
  <2>1. Stream(n)' /\ (Open(n)' <=> Open(n))
    BY <1>2, <1>3 DEF Stream, Open
  <2>2. listening => Open(n)
    BY <1>3 DEF ThreadInv
  <2> QED
    BY <1>2, <1>3, <1>4, <1>5, <2>1, <2>2 DEF GoodReply, Started
<1>12. \A m \in Ops : thread[m] \in {"replied", "over"} => thread'[m] \in {"replied", "over"}
  BY <1>4
<1>13. \A m \in Ops : Stream(m) /\ Open(m) /\ thread'[m] \in {"replied", "over"} =>
         \/ thread[m] \in {"replied", "over"}
         \/ \E r \in Range(toHost') : r.kind = kinds[m] /\ r.cmd # "stop"
  BY <1>3, <1>4, <1>5, <1>6
<1> QED
  BY <1>2, <1>3, <1>5, <1>7, <1>8, <1>9, <1>10, <1>11, <1>12, <1>13, DeviceStep

\* A recording's thread ends.
LEMMA RecorderEndsStep ==
  ASSUME IInv, alive, NEW n \in Ops, RecorderEnds(n), ~Crash
  PROVE  IInv'
<1>1. /\ UNCHANGED <<testVars, hostVars>> /\ toDevice' = toDevice /\ toHost' = toHost /\ alive' = alive
      /\ server' = server /\ threadOf' = threadOf /\ replied' = replied
      /\ unit["recording"] # NoOp
      /\ released' = released \cup {unit["recording"]}
      /\ unit' = [unit EXCEPT !["recording"] = NoOp]
      /\ thread' = [thread EXCEPT ![n] = "over"] /\ kinds' = kinds /\ message' = message
  BY DEF RecorderEnds, testVars, hostVars
<1>2. Stream(n) /\ kinds[n] = "recording" /\ thread[n] = "replied" /\ TypeOK
  BY ThreadFacts DEF RecorderEnds, Streams
<1>3. thread'[n] = "over" /\ \A m \in Ops : m # n => thread'[m] = thread[m]
  BY <1>1, <1>2 DEF TypeOK
<1>4. /\ unit' \in [Streams -> {NoOp} \cup Ops] /\ unit'["recording"] = NoOp
      /\ unit'["playback"] = unit["playback"] /\ released' \subseteq Ops
  BY <1>1, <1>2 DEF TypeOK, Streams
<1>5. TypeOK'
  <2>1. thread' \in [Ops -> {"none", "starting", "running", "marker", "replied", "over"}]
    BY <1>1, <1>2 DEF TypeOK
  <2> QED
    BY <1>1, <1>2, <1>4, <2>1, DeviceType DEF TypeOK
<1>6. \A c, m : Sent(c, m)' <=> Sent(c, m)
  BY <1>1 DEF Sent, Queue
<1>7. UnitInv' /\ (Doomed => Doomed')
  BY <1>1, <1>2, <1>4, <1>5, <1>6, RecorderUnits
<1>8. QueueInv' /\ ThreadInv' /\ RequestInv'
  BY <1>1, <1>2, <1>5, <1>7, ThreadMoves
<1>9. \A m \in Ops : thread'[m] \in {"replied", "over"} <=> thread[m] \in {"replied", "over"}
  BY <1>2, <1>3
<1> QED
  BY <1>1, <1>4, <1>5, <1>6, <1>7, <1>8, <1>9, DeviceStep

-----------------------------------------------------------------------------
(* The server's thread.                                                    *)

\* A request is replied to: it is that of the call the host is blocked in, and
\* there is no other.
LEMMA HandleRequestStep ==
  ASSUME IInv, alive, HandleRequest
  PROVE  IInv'
<1>0. PICK h : h = Head(toDevice)
  OBVIOUS
<1> DEFINE x == [cmd |-> "request", kind |-> h.kind, op |-> h.op, ok |-> TRUE]
<1>1. /\ UNCHANGED <<testVars, hostVars>> /\ toDevice # <<>> /\ h.cmd = "request"
      /\ toDevice' = Tail(toDevice) /\ toHost' = Append(toHost, x) /\ replied' = replied \cup {h.op}
      /\ alive' = alive /\ server' = server /\ thread' = thread /\ threadOf' = threadOf
      /\ unit' = unit /\ released' = released
      /\ kinds' = kinds /\ handler' = handler /\ message' = message /\ listening' = listening /\ call' = call
  BY <1>0 DEF HandleRequest, NextIs, Command, Reply, testVars, hostVars, threadVars
<1>2. TypeOK /\ QueueInv /\ ThreadInv /\ UnitInv /\ RequestInv /\ MessageInv
  BY DEF IInv, DeviceInv
<1>3. /\ QueueInv' /\ h \in Commands /\ toDevice' \in Seq(Commands) /\ h \in Range(Queue)
      /\ h.op \in DOMAIN kinds /\ h.kind = kinds[h.op]
      /\ \A c, n : Sent(c, n) <=> Sent(c, n)' \/ (c = h.cmd /\ n = h.op)
      /\ ~Sent(h.cmd, h.op)'
      /\ \A y \in Range(Queue') : y \in Range(Queue) /\ Before(h, y)
  BY <1>0, <1>1, <1>2, QueueTaken
<1>4. h.op \in Ops /\ h.kind \in Requests
  BY <1>1, <1>2, <1>3, Basics DEF QueueInv
<1>5. x \in Replies /\ x.cmd = "request" /\ x.kind = h.kind /\ x.op = h.op /\ x.ok = TRUE
  BY <1>4 DEF Replies, Kinds
<1>6. toHost \in Seq(Replies) /\ message \in {NoMessage} \cup Commands
  BY <1>2 DEF TypeOK
<1> HIDE DEF x
<1>7. /\ toHost' \in Seq(Replies)
      /\ \A y : y \in Range(toHost') <=> y \in Range(toHost) \/ y = x
  BY <1>1, <1>5, <1>6, RangeAppend
<1>8. TypeOK'
  <2>1. replied' \subseteq Ops
    BY <1>1, <1>2, <1>4 DEF TypeOK
  <2> QED
    BY <1>1, <1>2, <1>3, <1>7, <2>1, DeviceType DEF TypeOK
<1>9. \A n : Sent("start", n)' <=> Sent("start", n)
  BY <1>1, <1>3
<1>10. \A n : Sent("stop", n)' <=> Sent("stop", n)
  BY <1>1, <1>3
<1>11. Doomed' <=> Doomed
  BY <1>1, <1>10 DEF Doomed
<1>12. \A n \in Ops : /\ Stream(n)' <=> Stream(n)
                      /\ Open(n)' <=> Open(n)
                      /\ Active(n)' <=> Active(n)
  BY <1>1 DEF Stream, Open, Active
<1>13. ThreadInv'
  <2>1. \A k \in Streams : threadOf[k] # NoOp => Stream(threadOf[k])' /\ kinds[threadOf[k]] = k
    BY <1>1, <1>2 DEF ThreadInv, Stream
  <2> QED
    BY <1>1, <1>2, <1>10, <1>11, <1>12, <2>1 DEF ThreadInv, Quits
<1>14. UnitInv'
  <2>1. \A k \in Streams : unit[k] # NoOp => Stream(unit[k])'
    BY <1>1, <1>2 DEF UnitInv, Stream
  <2> QED
    BY <1>1, <1>2, <1>12, <2>1 DEF UnitInv, Quits
<1>15. RequestInv'
  <2> SUFFICES ASSUME listening PROVE RequestInv'
    BY <1>1 DEF RequestInv
  <2>1. In("requesting") /\ ~Posted /\ h.op = call.op
    BY <1>1, <1>2, <1>3, <1>4 DEF RequestInv
  <2>2. h.kind = call.kind
    BY <1>3, <2>1 DEF IInv, CallInv
  <2>3. message = NoMessage
    <3> SUFFICES ASSUME message # NoMessage PROVE FALSE
      OBVIOUS
    <3>1. message.cmd = "request" /\ message.op = h.op
      BY <1>2, <2>1 DEF MessageInv, In
    <3>2. message \in Range(Queue')
      <4>1. toDevice' \in Seq(Commands) /\ message \in Commands
        BY <1>3, <1>6
      <4>2. Queue' = Append(toDevice', message)
        BY <1>1 DEF Queue
      <4> QED
        BY <4>1, <4>2, RangeAppend
    <3> QED
      BY <1>1, <1>3, <3>1, <3>2 DEF Sent
  <2>4. \A r \in Range(toHost) : r.cmd # "request"
    <3>1. Sent("request", h.op)
      BY <1>1, <1>3
    <3> QED
      BY <1>2, <2>1, <3>1 DEF RequestInv
  <2>5. Distinct(toHost, "request")'
    BY <1>1, <1>2, <1>5, <1>6, <2>4, DistinctAppend DEF RequestInv
  <2>6. ~Sent("request", h.op)'
    BY <1>1, <1>3
  <2>7. \A r \in Range(toHost') : r.cmd = "request" => r = x
    BY <1>7, <2>4
  <2>8. \A n \in Ops : ~Sent("request", n)'
    BY <1>2, <1>3, <2>1, <2>6 DEF RequestInv
  <2> QED
    BY <1>1, <1>5, <2>1, <2>2, <2>3, <2>5, <2>6, <2>7, <2>8 DEF RequestInv, In, Posted
<1>16. GoodReply(x)' /\ ~Started(x)
  BY <1>4, <1>5 DEF GoodReply, Started
<1>17. x \in Range(toHost') /\ \A n : Sent("request", n) => Sent("request", n)' \/ n = h.op
  BY <1>3, <1>7
<1>18. \A n : Sent("request", n) /\ n \in DOMAIN kinds => Sent("request", n)'
                 \/ \E r \in Range(toHost') : r.kind = kinds[n] /\ r.cmd # "stop"
  BY <1>3, <1>5, <1>17
<1> QED
  BY <1>1, <1>2, <1>3, <1>5, <1>8, <1>11, <1>13, <1>14, <1>15, <1>16, <1>18, DeviceStep

\* A playback or recording is begun: there is no other.
LEMMA HandleStartStep ==
  ASSUME IInv, alive, HandleStart
  PROVE  IInv'
<1>0. PICK h : h = Head(toDevice)
  OBVIOUS
<1>1. /\ UNCHANGED <<testVars, hostVars>> /\ server = Reading /\ toDevice # <<>> /\ h.cmd = "start"
      /\ toDevice' = Tail(toDevice) /\ toHost' = toHost /\ replied' = replied
      /\ alive' = alive /\ server' = server /\ unit' = unit /\ released' = released
      /\ thread' = [thread EXCEPT ![h.op] = "starting"] /\ threadOf' = [threadOf EXCEPT ![h.kind] = h.op]
      /\ kinds' = kinds /\ handler' = handler /\ message' = message /\ listening' = listening
  BY <1>0 DEF HandleStart, NextIs, Command, testVars, hostVars
<1>2. TypeOK /\ QueueInv /\ ThreadInv /\ UnitInv /\ RequestInv
  BY DEF IInv, DeviceInv
<1>3. /\ h.op \in Ops /\ Stream(h.op) /\ h.kind = kinds[h.op] /\ thread[h.op] = "none"
      /\ \A m \in Ops : Stream(m) /\ kinds[m] = h.kind => ~Active(m)
      /\ h.kind = "playback" => ~Doomed
  BY <1>0, <1>1, StartsAlone
<1>4. /\ thread'[h.op] = "starting" /\ \A m \in Ops : m # h.op => thread'[m] = thread[m]
      /\ h.kind \in Streams /\ threadOf'[h.kind] = h.op
      /\ \A k \in Streams : k # h.kind => threadOf'[k] = threadOf[k]
  BY <1>1, <1>2, <1>3 DEF TypeOK, Stream
<1>5. /\ QueueInv' /\ toDevice' \in Seq(Commands)
      /\ \A c, n : Sent(c, n) <=> Sent(c, n)' \/ (c = h.cmd /\ n = h.op)
  <2>1. \A n \in Ops : thread'[n] = "none" <=> thread[n] = "none" /\ ~(h.cmd = "start" /\ n = h.op)
    BY <1>1, <1>3, <1>4
  <2> QED
    BY <1>0, <1>1, <1>2, <2>1, QueueTaken
<1>6. TypeOK'
  <2>1. thread' \in [Ops -> {"none", "starting", "running", "marker", "replied", "over"}]
    BY <1>1, <1>2 DEF TypeOK
  <2>2. threadOf' \in [Streams -> {NoOp} \cup Ops]
    BY <1>1, <1>2, <1>3, <1>4 DEF TypeOK
  <2> QED
    BY <1>1, <1>2, <1>5, <2>1, <2>2, DeviceType DEF TypeOK
<1>7. \A c, n : c # "start" => (Sent(c, n)' <=> Sent(c, n))
  BY <1>1, <1>5
<1>8. Doomed => Doomed'
  BY <1>1, <1>3, <1>4, <1>7, Basics, <1>2 DEF Doomed
<1>9. \A n \in Ops : /\ Stream(n)' <=> Stream(n)
                     /\ Open(n)' <=> Open(n)
                     /\ Active(n)' <=> Active(n) \/ n = h.op
  BY <1>1, <1>3, <1>4 DEF Stream, Open, Active
<1>10. \A k : ~Quits(k) /\ ~Quits(k)'
  BY <1>1 DEF Quits, Reading
<1>11. ThreadInv'
  <2>1. \A n \in Ops : Active(n)' => threadOf'[kinds[n]] = n
    <3> SUFFICES ASSUME NEW n \in Ops, Active(n), n # h.op PROVE threadOf'[kinds[n]] = n
      BY <1>3, <1>4, <1>9
    <3>1. Stream(n)
      BY <1>2 DEF QueueInv, Active
    <3> QED
      BY <1>2, <1>3, <1>4, <3>1 DEF ThreadInv, Stream
  <2>2. \A k \in Streams : threadOf'[k] # NoOp => Stream(threadOf'[k]) /\ kinds[threadOf'[k]] = k
    BY <1>2, <1>3, <1>4 DEF ThreadInv
  <2>3. \A k \in Streams : threadOf'[k] # NoOp => Stream(threadOf[k])' /\ kinds'[threadOf'[k]] = k
    BY <2>2, <1>1 DEF Stream
  <2>6. /\ \A n \in Ops : ~Quits(kinds[n]) /\ ~Quits(kinds[n])'
        /\ ~Quits("recording")'
    BY <1>10, <1>1 DEF Quits
  <2>4. ASSUME NEW n \in Ops, Stream(n), ~Open(n)
        PROVE  \/ Sent("stop", n) \/ thread'[n] \in {"replied", "over"}
               \/ kinds[n] = "playback" /\ Doomed'
    <3>1. \/ Sent("stop", n) \/ thread[n] \in {"replied", "over"}
          \/ kinds[n] = "playback" /\ Doomed
      BY <1>2, <2>4, <2>6 DEF ThreadInv
    <3> QED
      BY <1>3, <1>4, <1>8, <3>1
  <2>5. /\ \A n \in Ops : Stream(n) /\ Open(n) => ~Sent("stop", n)
        /\ listening => \A n \in Ops : Stream(n) /\ kinds[n] = "recording" => ~Sent("stop", n)
    BY <1>2 DEF ThreadInv
  <2> QED
    BY <1>1, <1>7, <1>9, <2>1, <2>3, <2>4, <2>5, <2>6 DEF ThreadInv
<1>12. UnitInv'
  <2>1. \A k \in Streams : unit[k] # NoOp =>
          Stream(unit[k])' /\ kinds[unit[k]] = k /\ thread'[unit[k]] \notin {"none", "starting"}
    <3> SUFFICES ASSUME NEW k \in Streams, unit[k] # NoOp
                 PROVE  Stream(unit[k])' /\ kinds[unit[k]] = k /\ thread'[unit[k]] \notin {"none", "starting"}
      OBVIOUS
    <3>1. Stream(unit[k]) /\ kinds[unit[k]] = k /\ thread[unit[k]] \notin {"none", "starting"} /\ unit[k] \in Ops
      BY <1>2 DEF UnitInv, TypeOK
    <3> QED
      BY <1>1, <1>3, <1>4, <3>1 DEF Stream
  <2>2. \A n \in released : thread'[n] \notin {"none", "starting"}
    BY <1>2, <1>3, <1>4 DEF UnitInv, TypeOK
  <2>3. \A n \in Ops : Active(n) /\ kinds[n] = "playback" =>
          /\ thread[n] = "running" => unit["playback"] = n
          /\ thread[n] = "running" => n \notin released
          /\ thread[n] = "marker" => unit["playback"] = n /\ n \in released
    BY <1>2, <1>10 DEF UnitInv
  <2>4. \A n \in Ops : Active(n)' /\ kinds[n] = "playback" =>
          /\ thread'[n] = "running" => unit["playback"] = n
          /\ thread'[n] = "running" => n \notin released
          /\ thread'[n] = "marker" => unit["playback"] = n /\ n \in released
    BY <1>3, <1>4, <1>9, <2>3
  <2> QED
    BY <1>1, <1>10, <2>1, <2>2, <2>4 DEF UnitInv, Quits
<1>13. RequestInv'
  BY <1>1, <1>2, <1>7, RequestKept
<1>14. \A n \in Ops : thread'[n] \in {"replied", "over"} <=> thread[n] \in {"replied", "over"}
  BY <1>3, <1>4
<1> QED
  BY <1>1, <1>5, <1>6, <1>7, <1>8, <1>11, <1>12, <1>13, <1>14, DeviceStep

\* A playback or recording is stopped, and its thread told to quit.
LEMMA HandleStopStep ==
  ASSUME IInv, alive, HandleStop, ~Crash
  PROVE  IInv'
<1>0. PICK h : h = Head(toDevice)
  OBVIOUS
<1>1. /\ UNCHANGED <<testVars, hostVars>> /\ server = Reading /\ toDevice # <<>> /\ h.cmd = "stop"
      /\ toDevice' = Tail(toDevice) /\ toHost' = toHost /\ replied' = replied
      /\ alive' = alive /\ thread' = thread /\ threadOf' = threadOf
      /\ unit[h.kind] \notin released /\ released' = released \cup ({unit[h.kind]} \ {NoOp})
      /\ unit' = [unit EXCEPT ![h.kind] = NoOp] /\ server' = [pc |-> "quit", kind |-> h.kind]
      /\ kinds' = kinds /\ handler' = handler /\ message' = message /\ listening' = listening
  BY <1>0 DEF HandleStop, NextIs, Command, testVars, hostVars
<1>2. TypeOK /\ QueueInv /\ ThreadInv /\ UnitInv /\ RequestInv
  BY DEF IInv, DeviceInv
<1>3. /\ QueueInv' /\ h \in Commands /\ toDevice' \in Seq(Commands) /\ h \in Range(Queue)
      /\ h.op \in DOMAIN kinds /\ h.kind = kinds[h.op]
      /\ \A c, n : Sent(c, n) <=> Sent(c, n)' \/ (c = h.cmd /\ n = h.op)
      /\ ~Sent(h.cmd, h.op)'
      /\ \A y \in Range(Queue') : y \in Range(Queue) /\ Before(h, y)
  BY <1>0, <1>1, <1>2, QueueTaken
<1>4. h.op \in Ops /\ Stream(h.op) /\ h.kind \in Streams /\ h.kind = kinds[h.op]
  <2>1. h.op \in Ops /\ h.kind \notin Requests /\ h.kind \in Kinds
    BY <1>1, <1>2, <1>3, Basics DEF QueueInv, Commands
  <2> QED
    BY <2>1, <1>3 DEF Kinds, Stream
<1>5. /\ \A n : Sent("stop", n) <=> Sent("stop", n)' \/ n = h.op
      /\ \A c, n : c # "stop" => (Sent(c, n)' <=> Sent(c, n))
      /\ ~Sent("stop", h.op)' /\ Sent("stop", h.op)
  BY <1>1, <1>3
<1>6. ~Open(h.op)
  BY <1>2, <1>4, <1>5 DEF ThreadInv
<1>7. thread[h.op] # "none"
  <2> SUFFICES ASSUME thread[h.op] = "none" PROVE FALSE
    OBVIOUS
  <2>1. Sent("start", h.op)'
    BY <1>2, <1>4, <1>5 DEF QueueInv
  <2>2. PICK y \in Range(Queue') : y.cmd = "start" /\ y.op = h.op
    BY <2>1 DEF Sent
  <2>3. y.kind = h.kind /\ Before(h, y)
    BY <1>2, <1>3, <2>2 DEF QueueInv
  <2>4. h.op \in Nat
    BY <1>4, <1>2, Basics
  <2> QED
    BY <1>1, <2>2, <2>3, <2>4 DEF Before
<1>8. h.kind = "playback" => ~Doomed
  BY <1>1 DEF Doomed
<1>9. /\ \A k \in Streams : Quits(k)' <=> k = h.kind
      /\ \A k : ~Quits(k)
  BY <1>1 DEF Quits, Reading
<1>10. /\ unit'[h.kind] = NoOp /\ \A k \in Streams : k # h.kind => unit'[k] = unit[k]
       /\ unit' \in [Streams -> {NoOp} \cup Ops]
       /\ released \subseteq released'
       /\ \A j \in released' : j \in released \/ (j = unit[h.kind] /\ j # NoOp)
       /\ unit[h.kind] # NoOp => unit[h.kind] \in released'
  BY <1>1, <1>2, <1>4 DEF TypeOK
<1>11. TypeOK'
  <2>1. server' \in [pc : {"quit"}, kind : Streams]
    BY <1>1, <1>4
  <2>2. released' \subseteq Ops
    BY <1>1, <1>2, <1>4 DEF TypeOK
  <2> QED
    BY <1>1, <1>2, <1>3, <1>10, <2>1, <2>2, DeviceType DEF TypeOK
<1>12. Doomed => Doomed'
  <2> SUFFICES ASSUME Doomed PROVE Doomed'
    OBVIOUS
  <2>1. PICK j \in released : unit["playback"] = j /\ Sent("stop", j)
    BY DEF Doomed
  <2>2. h.kind # "playback"
    BY <1>8
  <2>3. j # h.op
    BY <1>2, <1>4, <2>1, <2>2, Basics DEF UnitInv, Streams, TypeOK
  <2>4. j \in released' /\ unit'["playback"] = j /\ Sent("stop", j)'
    BY <1>5, <1>10, <2>1, <2>2, <2>3 DEF Streams
  <2> QED
    BY <1>1, <2>4 DEF Doomed
<1>13. \A n \in Ops : /\ Stream(n)' <=> Stream(n)
                      /\ Open(n)' <=> Open(n)
                      /\ Active(n)' <=> Active(n)
                      /\ Stream(n) => (Quits(kinds[n])' <=> kinds[n] = h.kind)
                      /\ ~Quits(kinds[n])
  <2>1. ASSUME NEW n \in Ops, Stream(n) PROVE Quits(kinds[n])' <=> kinds[n] = h.kind
    BY <1>1 DEF Quits
  <2> QED
    BY <1>1, <1>9, <2>1 DEF Stream, Open, Active
<1>14. ThreadInv'
  <2>1. \A k \in Streams : threadOf[k] # NoOp => Stream(threadOf[k])' /\ kinds[threadOf[k]] = k
    BY <1>1, <1>2 DEF ThreadInv, Stream
  <2>2. ASSUME NEW n \in Ops, Stream(n), ~Open(n)
        PROVE  \/ Sent("stop", n)' \/ thread[n] \in {"replied", "over"}
               \/ Quits(kinds[n])' /\ thread[n] # "none"
               \/ kinds[n] = "playback" /\ Doomed'
    <3>1. \/ Sent("stop", n) \/ thread[n] \in {"replied", "over"}
          \/ kinds[n] = "playback" /\ Doomed
      BY <1>2, <1>13, <2>2 DEF ThreadInv
    <3>2. CASE n = h.op
      BY <1>4, <1>7, <1>13, <3>2
    <3> QED
      BY <1>5, <1>12, <3>1, <3>2
  <2>3. ASSUME NEW n \in Ops, Stream(n), Open(n)
        PROVE  ~Sent("stop", n)' /\ (Quits(kinds[n])' => thread[n] = "none")
    <3>1. ~Sent("stop", n)'
      BY <1>2, <1>5, <2>3 DEF ThreadInv
    <3>2. ASSUME kinds[n] = h.kind, thread[n] # "none" PROVE FALSE
      <4>1. n <= h.op
        BY <1>2, <1>3, <3>2 DEF QueueInv
      <4>2. h.op <= n
        BY <1>3, <1>4, <2>3, <3>2 DEF IInv, CallInv, Open
      <4>3. n = h.op
        BY <4>1, <4>2, <1>4, <1>2, Basics
      <4> QED
        BY <4>3, <2>3, <1>6
    <3> QED
      BY <1>13, <2>3, <3>1, <3>2
  <2>4. listening => h.kind # "recording"
    BY <1>2, <1>4, <1>5 DEF ThreadInv
  <2>5. /\ listening => ~Quits("recording")'
        /\ listening => \A n \in Ops : Stream(n) /\ kinds[n] = "recording" => ~Sent("stop", n)'
    BY <1>2, <1>5, <1>9, <2>4 DEF ThreadInv, Streams
  <2> QED
    BY <1>1, <1>2, <1>13, <2>1, <2>2, <2>3, <2>5 DEF ThreadInv
<1>15. UnitInv'
  <2>1. ASSUME NEW k \in Streams, unit'[k] # NoOp
        PROVE  Stream(unit[k])' /\ kinds[unit'[k]] = k /\ thread[unit'[k]] \notin {"none", "starting"}
               /\ unit'[k] = unit[k]
    <3>1. unit'[k] = unit[k]
      BY <1>10, <2>1
    <3> QED
      BY <1>1, <1>2, <2>1, <3>1 DEF UnitInv, Stream
  <2>2. \A n \in released' : thread[n] \notin {"none", "starting"}
    BY <1>2, <1>4, <1>10 DEF UnitInv
  <2>3. ASSUME NEW n \in Ops, Active(n), kinds[n] = "playback"
        PROVE  /\ thread[n] = "running" => unit'["playback"] = n \/ Quits("playback")'
               /\ thread[n] = "running" => (n \in released' <=> Quits("playback")')
               /\ thread[n] = "marker" => unit'["playback"] = n /\ n \in released' /\ ~Quits("playback")'
    <3>1. /\ thread[n] = "running" => unit["playback"] = n
          /\ thread[n] = "running" => n \notin released
          /\ thread[n] = "marker" => unit["playback"] = n /\ n \in released
      BY <1>2, <1>9, <2>3 DEF UnitInv
    <3>2. CASE h.kind = "playback"
      <4>1. Quits("playback")' /\ thread[n] # "marker"
        BY <1>1, <1>9, <3>1, <3>2 DEF Streams
      <4> QED
        BY <1>10, <3>1, <3>2, <4>1, Basics, <1>2
    <3>3. CASE h.kind # "playback"
      <4>1. ~Quits("playback")' /\ unit'["playback"] = unit["playback"]
        BY <1>9, <1>10, <3>3 DEF Streams
      <4>2. n # unit[h.kind]
        BY <1>2, <1>4, <2>3, <3>3, Basics DEF UnitInv
      <4>3. n \in released' <=> n \in released
        BY <1>10, <4>2
      <4> QED
        BY <3>1, <4>1, <4>3
    <3> QED
      BY <3>2, <3>3
  <2> QED
    BY <1>1, <1>13, <2>1, <2>2, <2>3 DEF UnitInv
<1>16. RequestInv'
  BY <1>1, <1>2, <1>5, RequestKept
<1>17. ASSUME ~Doomed, listening, NEW r \in Range(toHost), Started(r), r.kind = "playback"
       PROVE  unit'["playback"] = unit["playback"]
  <2>1. unit["playback"] = r.op /\ r.op \in released
    BY <1>17 DEF IInv, ReplyInv, GoodReply
  <2> QED
    BY <1>1, <1>10, <2>1 DEF Streams
<1> QED
  BY <1>1, <1>3, <1>5, <1>10, <1>11, <1>12, <1>14, <1>15, <1>16, <1>17, DeviceStep

\* The server's thread has joined the thread it told to quit.
LEMMA QuitLoopStep ==
  ASSUME IInv, alive, QuitLoop, ~Crash
  PROVE  IInv'
<1>0. PICK k, n : k = server.kind /\ n = threadOf[server.kind]
  OBVIOUS
<1> DEFINE x == [cmd |-> "stop", kind |-> k, op |-> n, ok |-> TRUE]
<1>1. /\ UNCHANGED <<testVars, hostVars>> /\ server.pc = "quit" /\ (n = NoOp \/ thread[n] = "over")
      /\ toDevice' = toDevice /\ toHost' = Append(toHost, x) /\ replied' = replied
      /\ alive' = alive /\ thread' = thread /\ threadOf' = [threadOf EXCEPT ![k] = NoOp]
      /\ unit' = unit /\ released' = released /\ server' = Reading
      /\ kinds' = kinds /\ handler' = handler /\ message' = message /\ listening' = listening
  BY <1>0 DEF QuitLoop, Reply, testVars, hostVars
<1>2. TypeOK /\ QueueInv /\ ThreadInv /\ UnitInv /\ RequestInv
  BY DEF IInv, DeviceInv
<1>3. k \in Streams /\ n \in {NoOp} \cup Ops
  BY <1>0, <1>1, <1>2 DEF TypeOK, Reading
<1>4. x \in Replies /\ x.cmd = "stop" /\ x.ok = TRUE
  BY <1>3 DEF Replies, Kinds
<1> HIDE DEF x
<1>5. /\ threadOf'[k] = NoOp /\ \A j \in Streams : j # k => threadOf'[j] = threadOf[j]
      /\ threadOf' \in [Streams -> {NoOp} \cup Ops]
  BY <1>1, <1>2, <1>3 DEF TypeOK
<1>6. TypeOK'
  <2>1. toHost' \in Seq(Replies)
    BY <1>1, <1>2, <1>4, RangeAppend DEF TypeOK
  <2> QED
    BY <1>1, <1>2, <1>5, <2>1, DeviceType DEF TypeOK
<1>7. QueueInv' /\ \A c, m : Sent(c, m)' <=> Sent(c, m)
  BY <1>1, <1>2, QueueStands
<1>8. Doomed' <=> Doomed
  BY <1>1, <1>7 DEF Doomed
<1>9. \A m \in Ops : /\ Stream(m)' <=> Stream(m)
                     /\ Open(m)' <=> Open(m)
                     /\ Active(m)' <=> Active(m)
                     /\ ~Quits(kinds[m])'
                     /\ Quits(kinds[m]) <=> kinds[m] = k
  BY <1>0, <1>1 DEF Stream, Open, Active, Quits, Reading
<1>10. \A m \in Ops : kinds[m] = k => ~Active(m)
  <2> SUFFICES ASSUME NEW m \in Ops, kinds[m] = k, Active(m) PROVE FALSE
    OBVIOUS
  <2>1. m = n
    BY <1>0, <1>2 DEF ThreadInv
  <2> QED
    BY <1>1, <1>2, <2>1, Basics DEF Active
<1>11. ~Quits("recording")' /\ ~Quits("playback")' /\ (Quits("playback") <=> k = "playback")
  BY <1>0, <1>1 DEF Quits, Reading
<1>12. ThreadInv'
  <2>1. \A m \in Ops : Active(m) => threadOf'[kinds[m]] = m
    <3> SUFFICES ASSUME NEW m \in Ops, Active(m) PROVE threadOf'[kinds[m]] = m
      OBVIOUS
    <3>1. kinds[m] # k /\ kinds[m] \in Streams
      BY <1>2, <1>10 DEF QueueInv, Active, Stream
    <3> QED
      BY <1>2, <1>5, <3>1 DEF ThreadInv
  <2>2. \A j \in Streams : threadOf'[j] # NoOp => Stream(threadOf[j])' /\ kinds[threadOf'[j]] = j /\ threadOf'[j] = threadOf[j]
    BY <1>1, <1>2, <1>5 DEF ThreadInv, Stream
  <2>3. ASSUME NEW m \in Ops, Stream(m), ~Open(m)
        PROVE  \/ Sent("stop", m) \/ thread[m] \in {"replied", "over"}
               \/ kinds[m] = "playback" /\ Doomed
    <3>1. \/ Sent("stop", m) \/ thread[m] \in {"replied", "over"}
          \/ Quits(kinds[m]) /\ thread[m] # "none"
          \/ kinds[m] = "playback" /\ Doomed
      BY <1>2, <2>3 DEF ThreadInv
    <3>2. CASE Quits(kinds[m]) /\ thread[m] # "none"
      BY <1>2, <1>9, <1>10, <2>3, <3>2 DEF Active, Stream, TypeOK
    <3> QED
      BY <3>1, <3>2
  <2>4. /\ \A m \in Ops : Stream(m) /\ Open(m) => ~Sent("stop", m)
        /\ listening => \A m \in Ops : Stream(m) /\ kinds[m] = "recording" => ~Sent("stop", m)
    BY <1>2 DEF ThreadInv
  <2> QED
    BY <1>1, <1>7, <1>8, <1>9, <1>11, <2>1, <2>2, <2>3, <2>4 DEF ThreadInv
<1>13. UnitInv'
  <2>1. \A j \in Streams : unit[j] # NoOp => Stream(unit[j])'
    BY <1>1, <1>2 DEF UnitInv, Stream
  <2>2. \A m \in Ops : Active(m) /\ kinds[m] = "playback" => ~Quits("playback")
    BY <1>10, <1>11
  <2> QED
    BY <1>1, <1>2, <1>9, <1>11, <2>1, <2>2 DEF UnitInv
<1>14. RequestInv'
  BY <1>1, <1>2, <1>4, <1>7, RequestKept
<1>15. GoodReply(x)' /\ ~Started(x)
  BY <1>4 DEF GoodReply, Started
<1> QED
  BY <1>1, <1>4, <1>6, <1>7, <1>8, <1>12, <1>13, <1>14, <1>15, DeviceStep

\* Every step of the device keeps the invariant.
LEMMA DeviceSteps ==
  ASSUME IInv, ServerStep \/ \E n \in Ops : ThreadStep(n)
  PROVE  IInv'
<1>1. ASSUME ServerStep PROVE IInv'
  BY <1>1, CrashStep, HandleRequestStep, HandleStartStep, HandleStopStep, QuitLoopStep DEF ServerStep
<1>2. ASSUME NEW n \in Ops, ThreadStep(n) PROVE IInv'
  BY <1>2, CrashStep, PlayerStartsStep, MarkerReachedStep, MarkerRepliesStep, PlayerStoppedStep,
     RecorderStartsStep, RecordingEndsStep, RecorderEndsStep DEF ThreadStep
<1> QED
  BY <1>1, <1>2

-----------------------------------------------------------------------------
(* Steps of the host.                                                      *)

\* They leave the device alone: what is said of it depends on the handlers of
\* playbacks and recordings only.
LEMMA HostFrame ==
  ASSUME IInv, UNCHANGED deviceVars, kinds' = kinds, toHost' = toHost, listening' => listening,
         alive => Queue' = Queue,
         \A k \in Kinds : handler'[k].active = handler[k].active /\ handler'[k].param = handler[k].param,
         \A k \in Requests : handler'[k].notify => handler[k].notify
  PROVE  /\ DeviceInv' /\ DueInv' /\ Distinct(toHost, "start")'
         /\ \A r \in Range(toHost) : GoodReply(r)'
<1>1. /\ alive' = alive /\ server' = server /\ thread' = thread /\ threadOf' = threadOf
      /\ unit' = unit /\ released' = released /\ replied' = replied
  BY DEF deviceVars, threadVars
<1>2. TypeOK
  BY DEF IInv
<1>3. alive => \A c, n : Sent(c, n)' <=> Sent(c, n)
  BY DEF Sent
<1>4. alive => (Doomed' <=> Doomed)
  BY <1>1, <1>3 DEF Doomed
<1>5. \A n \in Ops : /\ Stream(n)' <=> Stream(n)
                     /\ Stream(n) => (Open(n)' <=> Open(n))
                     /\ Active(n)' <=> Active(n)
                     /\ Quits(kinds[n])' <=> Quits(kinds[n])
  BY <1>1 DEF Stream, Open, Active, Quits, Kinds
<1>6. DeviceInv'
  <2> SUFFICES ASSUME alive PROVE QueueInv' /\ ThreadInv' /\ UnitInv'
    BY <1>1 DEF DeviceInv
  <2>1. QueueInv /\ ThreadInv /\ UnitInv
    BY DEF IInv, DeviceInv
  <2>2. QueueInv'
    BY <1>1, <1>3, <1>5, <2>1 DEF QueueInv
  <2>3. \A k \in Streams : threadOf[k] # NoOp => Stream(threadOf[k])'
    BY <1>1, <2>1 DEF ThreadInv, Stream
  <2>4. \A k \in Streams : unit[k] # NoOp => Stream(unit[k])'
    BY <1>1, <2>1 DEF UnitInv, Stream
  <2>5. Quits("recording")' <=> Quits("recording")
    BY <1>1 DEF Quits
  <2>6. ThreadInv'
    BY <1>1, <1>3, <1>4, <1>5, <2>1, <2>3, <2>5 DEF ThreadInv
  <2>7. Quits("playback")' <=> Quits("playback")
    BY <1>1 DEF Quits
  <2>8. UnitInv'
    BY <1>1, <1>5, <2>1, <2>4, <2>7 DEF UnitInv
  <2> QED
    BY <2>2, <2>6, <2>8
<1>7. ASSUME NEW r \in Range(toHost) PROVE GoodReply(r)'
  <2>1. GoodReply(r)
    BY DEF IInv, ReplyInv
  <2>2. CASE ~Started(r)
    BY <2>1, <2>2 DEF GoodReply, Started
  <2>3. CASE Started(r)
    <3>1. Stream(r.op) /\ r.op \in Ops
      BY <1>2, <2>1, <2>3, Basics DEF GoodReply, Stream
    <3>2. Stream(r.op)' /\ (Open(r.op)' <=> Open(r.op))
      BY <1>5, <3>1
    <3> QED
      BY <1>1, <1>4, <2>1, <2>3, <3>2 DEF GoodReply, Started
  <2> QED
    BY <2>2, <2>3
<1>8. DueInv'
  <2> SUFFICES ASSUME alive, listening PROVE DueInv'
    BY <1>1 DEF DueInv
  <2>1. \A k \in Requests : /\ handler'[k].param = handler[k].param
                            /\ Sent("request", handler[k].param)' <=> Sent("request", handler[k].param)
    BY <1>3 DEF Kinds, Sent
  <2> QED
    BY <1>1, <1>5, <2>1 DEF IInv, DueInv, Sent
<1>9. Distinct(toHost, "start")'
  BY DEF IInv, ReplyInv, Distinct
<1> QED
  BY <1>6, <1>7, <1>8, <1>9

\* Only a call that is blocked has a command in the looper's queue, a post, or
\* a handler that will notify it.
LEMMA Unblocked ==
  ASSUME IInv, In("none") \/ In("stop")
  PROVE  /\ message = NoMessage
         /\ \A k \in Handlers : handler[k].posts = 0
         /\ \A k \in Handlers : handler[k].notify => k \in Kinds /\ Silent(k)
         /\ listening => \A r \in Range(toHost) : r.cmd # "request"
         /\ listening /\ alive => \A n \in Ops : ~Sent("request", n)
<1>1. message = NoMessage
  BY DEF IInv, MessageInv, In
<1>2. \A k \in Handlers : handler[k].posts = 0
  <2>1. \A k \in Handlers : handler[k].posts \in Nat
    BY DEF IInv, TypeOK, CommandHandlers
  <2> QED
    BY <2>1 DEF IInv, PostInv, PostsAwaited, In
<1>3. \A k \in Handlers : handler[k].notify => k \in Kinds /\ Silent(k)
  BY DEF IInv, PostInv, In
<1>4. /\ listening => \A r \in Range(toHost) : r.cmd # "request"
      /\ listening /\ alive => \A n \in Ops : ~Sent("request", n)
  BY DEF IInv, RequestInv, In
<1> QED
  BY <1>1, <1>2, <1>3, <1>4

\* A call takes its post: there is no other, and nothing else is under way.
LEMMA TakenPost ==
  ASSUME IInv, Posted, handler' = Taken
  PROVE  /\ message = NoMessage /\ handler' \in [Handlers -> CommandHandlers]
         /\ \A k \in Handlers : /\ handler'[k].active = handler[k].active
                                /\ handler'[k].param = handler[k].param
                                /\ handler'[k].notify = handler[k].notify
                                /\ handler'[k].posts = 0
         /\ \A k \in Handlers : handler[k].notify => k \in Kinds /\ Silent(k)
         /\ listening => \A r \in Range(toHost) : r.cmd # "request"
         /\ listening /\ alive => \A n \in Ops : ~Sent("request", n)
<1>1. TypeOK /\ call.kind \in Handlers /\ handler \in [Handlers -> CommandHandlers]
  BY DEF IInv, TypeOK
<1>2. handler[call.kind].posts = 1 /\ \A k \in Handlers \ {call.kind} : handler[k].posts = 0
  <2>1. \A k \in Handlers : handler[k].posts \in Nat
    BY <1>1 DEF CommandHandlers
  <2> QED
    BY <1>1, <2>1 DEF IInv, PostInv, PostsAwaited, Posted
<1>3. handler' = [handler EXCEPT ![call.kind] = [@ EXCEPT !.posts = 0]]
  BY <1>1, <1>2 DEF Taken
<1>4. [handler[call.kind] EXCEPT !.posts = 0] \in CommandHandlers
  BY <1>1 DEF CommandHandlers
<1>5. handler' \in [Handlers -> CommandHandlers]
  BY <1>1, <1>3, <1>4
<1>6. \A k \in Handlers : k # call.kind => handler'[k] = handler[k]
  BY <1>1, <1>3
<1>7. handler'[call.kind] = [handler[call.kind] EXCEPT !.posts = 0]
  BY <1>1, <1>3
<1>8. /\ handler'[call.kind].active = handler[call.kind].active
      /\ handler'[call.kind].param = handler[call.kind].param
      /\ handler'[call.kind].notify = handler[call.kind].notify
      /\ handler'[call.kind].posts = 0
  BY <1>1, <1>7 DEF CommandHandlers
<1>9. \A k \in Handlers : /\ handler'[k].active = handler[k].active
                          /\ handler'[k].param = handler[k].param
                          /\ handler'[k].notify = handler[k].notify
                          /\ handler'[k].posts = 0
  BY <1>2, <1>6, <1>8
<1>10. message = NoMessage
  BY <1>2 DEF IInv, MessageInv
<1>11. \A k \in Handlers : handler[k].notify => k \in Kinds /\ Silent(k)
  BY <1>2 DEF IInv, PostInv
<1>12. /\ listening => \A r \in Range(toHost) : r.cmd # "request"
       /\ listening /\ alive => \A n \in Ops : ~Sent("request", n)
  BY DEF IInv, RequestInv
<1> QED
  BY <1>5, <1>9, <1>10, <1>11, <1>12

\* A call that sends nothing goes on or returns.
LEMMA CallStep ==
  ASSUME IInv, TypeOK',
         UNCHANGED <<kinds, message, listening, data, toDevice, toHost, deviceVars>>, message = NoMessage,
         \A k \in Handlers : /\ handler'[k].active = handler[k].active
                             /\ handler'[k].param = handler[k].param
                             /\ handler'[k].posts = 0,
         \A k \in Handlers : handler'[k].notify =>
           (k \in Kinds /\ Silent(k)) \/ (call'.kind = k /\ call'.pc = "completing"),
         \A k \in Requests : handler'[k].notify => handler[k].notify,
         \A k \in Streams : handler'[k].notify => handler[k].active,
         call'.pc \in {"none", "completing", "stop"},
         call'.pc = "completing" => handler'[call'.kind].notify,
         call'.pc # "none" => call'.op \in running' /\ kinds[call'.op] = call'.kind,
         \A n \in running' : n \in DOMAIN kinds /\ kinds[n] \in Streams /\ handler[kinds[n]].param = n,
         call'.pc = "stop" /\ call'.kind = "recording" /\ handler["recording"].active => Silent("recording"),
         listening => \A r \in Range(toHost) : r.cmd # "request",
         listening /\ alive => \A n \in Ops : ~Sent("request", n),
         \A n \in running' : kinds[n] = "recording" /\ ~handler["recording"].active => n \in replied,
         \A n \in Ops : \/ outcome'[n] = outcome[n]
                        \/ n \in DOMAIN kinds /\ outcome'[n] = "true" /\ (kinds[n] = "recording" => n \in replied)
                        \/ n \in DOMAIN kinds /\ outcome'[n] = "false" /\ (~listening \/ ~alive)
  PROVE  IInv'
<1>1. /\ kinds' = kinds /\ message' = message /\ listening' = listening /\ data' = data
      /\ toDevice' = toDevice /\ toHost' = toHost /\ alive' = alive /\ replied' = replied
  BY DEF deviceVars
<1>2. Queue' = Queue
  BY <1>1 DEF Queue
<1>3. /\ DeviceInv' /\ DueInv' /\ Distinct(toHost, "start")'
      /\ \A r \in Range(toHost) : GoodReply(r)'
  BY <1>1, <1>2, HostFrame DEF Handlers
<1>4. \A k : Silent(k)' <=> Silent(k)
  BY <1>1 DEF Silent
<1>5. CallInv'
  <2>1. \A n \in DOMAIN kinds : n <= handler'[kinds[n]].param
    BY Basics DEF IInv, CallInv, Handlers
  <2>2. \A k \in Kinds : handler'[k].param # NoOp \/ handler'[k].active =>
          handler'[k].param \in DOMAIN kinds /\ kinds[handler'[k].param] = k
    BY DEF IInv, CallInv, Handlers
  <2>3. \A n \in running' : kinds[n] \in Streams /\ handler'[kinds[n]].param = n
    BY DEF Handlers, Kinds
  <2> QED
    BY <1>1, <2>1, <2>2, <2>3 DEF CallInv, In
<1>6. MessageInv'
  BY <1>1 DEF MessageInv
<1>7. PostInv'
  <2>1. \A k \in Handlers : ~(handler'[k].posts > 0)
    OBVIOUS
  <2>2. call'.kind \in Handlers
    BY DEF TypeOK
  <2> QED
    BY <1>1, <1>4, <2>1, <2>2 DEF PostInv, PostsAwaited, In, Posted, Handlers, Kinds
<1>8. ReplyInv'
  <2>1. call'.pc = "stop" /\ call'.kind = "recording" /\ handler'["recording"].active => Silent("recording")'
    BY <1>4 DEF Handlers, Kinds, Streams
  <2>2. (\A r \in Range(toHost) : GoodReply(r))'
    BY <1>1, <1>3
  <2> QED
    BY <1>3, <2>1, <2>2 DEF ReplyInv, In
<1>9. RequestInv'
  <2>1. listening /\ alive => \A n \in Ops : ~Sent("request", n)'
    BY <1>2 DEF Sent
  <2> QED
    BY <1>1, <2>1 DEF IInv, RequestInv, Distinct
<1>10. RecordedInv' /\ RecordingIsOwn' /\ TimesOutOnlyDeaf'
  <2>1. TypeOK
    BY DEF IInv
  <2>2. \A n \in Ops \ DOMAIN kinds : outcome'[n] = "none" /\ data'[n] = NoOp
    BY <1>1 DEF IInv, RecordedInv
  <2>3. handler'["recording"].active = handler["recording"].active
    BY DEF Handlers, Kinds, Streams
  <2>4. RecordedInv'
    BY <1>1, <2>2, <2>3 DEF RecordedInv, In
  <2>5. RecordingIsOwn'
    BY <1>1, <2>1, Basics DEF IInv, RecordingIsOwn, Successful
  <2>6. TimesOutOnlyDeaf'
    BY <1>1 DEF IInv, TimesOutOnlyDeaf
  <2> QED
    BY <2>4, <2>5, <2>6
<1> QED
  BY <1>3, <1>5, <1>6, <1>7, <1>8, <1>9, <1>10 DEF IInv

\* Its type invariant.
LEMMA CallType ==
  ASSUME TypeOK, UNCHANGED <<kinds, message, listening, data, toDevice, toHost, deviceVars>>,
         call' \in [pc : {"none", "requesting", "starting", "completing", "stop", "stopping"},
                    kind : Handlers, op : {NoOp} \cup Ops],
         handler' \in [Handlers -> CommandHandlers], running' \subseteq DOMAIN kinds,
         registered' \in BOOLEAN, outcome' \in [Ops -> {"none", "true", "false"}]
  PROVE  TypeOK'
BY DEF TypeOK, deviceVars, threadVars

\* What is known of the tasks that run.
LEMMA RunningTasks ==
  ASSUME IInv
  PROVE  /\ \A n \in running : /\ n \in DOMAIN kinds /\ n \in Ops
                               /\ kinds[n] \in Streams /\ kinds[n] \in Handlers
                               /\ handler[kinds[n]].param = n
         /\ ~In("stopping") => \A n \in running :
              kinds[n] = "recording" /\ ~handler["recording"].active => n \in replied
<1>1. running \subseteq DOMAIN kinds /\ TypeOK
  BY DEF IInv, TypeOK
<1> QED
  BY <1>1, Basics DEF IInv, CallInv, RecordedInv, Handlers, Kinds, In

\* The reply to a request has come.
LEMMA RequestReturnsStep ==
  ASSUME IInv, RequestReturns
  PROVE  IInv'
<1>1. /\ call.pc = "requesting" /\ Posted /\ handler' = Taken /\ call' = Idle
      /\ registered' = (registered \/ call.kind = "download")
      /\ outcome' = [outcome EXCEPT ![call.op] = IF handler[call.kind].result THEN "true" ELSE "false"]
      /\ UNCHANGED <<kinds, message, listening, data, toDevice, toHost, deviceVars>>
      /\ running' = running
  BY DEF RequestReturns, In
<1>2. /\ message = NoMessage /\ handler' \in [Handlers -> CommandHandlers]
      /\ \A k \in Handlers : /\ handler'[k].active = handler[k].active
                             /\ handler'[k].param = handler[k].param
                             /\ handler'[k].notify = handler[k].notify
                             /\ handler'[k].posts = 0
      /\ \A k \in Handlers : handler[k].notify => k \in Kinds /\ Silent(k)
      /\ listening => \A r \in Range(toHost) : r.cmd # "request"
      /\ listening /\ alive => \A n \in Ops : ~Sent("request", n)
  BY <1>1, TakenPost
<1>3. TypeOK /\ handler[call.kind].result /\ call.op \in DOMAIN kinds /\ kinds[call.op] \in Requests
  BY <1>1 DEF IInv, PostInv, CallInv, In
<1>4. call.op \in Ops /\ outcome' = [outcome EXCEPT ![call.op] = "true"]
  BY <1>1, <1>3, Basics
<1>5. call'.pc = "none" /\ call' \in [pc : {"none", "requesting", "starting", "completing", "stop", "stopping"},
                                      kind : Handlers, op : {NoOp} \cup Ops]
  BY <1>1 DEF Idle, Handlers
<1>6. TypeOK'
  <2>1. registered' \in BOOLEAN
    BY <1>1
  <2>2. outcome' \in [Ops -> {"none", "true", "false"}] /\ running' \subseteq DOMAIN kinds
    BY <1>1, <1>3, <1>4 DEF TypeOK
  <2> QED
    BY <1>1, <1>2, <1>3, <1>5, <2>1, <2>2, CallType
<1>7. \A n \in Ops : \/ outcome'[n] = outcome[n]
                     \/ n \in DOMAIN kinds /\ outcome'[n] = "true" /\ (kinds[n] = "recording" => n \in replied)
  BY <1>3, <1>4 DEF TypeOK, Requests
<1>8. \A k \in Streams : handler[k].notify => handler[k].active
  BY DEF IInv, PostInv
<1>9. \A k \in Kinds : k \in Handlers
  BY DEF Handlers
<1> QED
  BY <1>1, <1>2, <1>5, <1>6, <1>7, <1>8, <1>9, RunningTasks, CallStep DEF In, Kinds

\* A task's start command was sent, or not.
LEMMA StartReturnsStep ==
  ASSUME IInv, StartReturns
  PROVE  IInv'
<1>1. /\ call.pc = "starting" /\ Posted /\ handler' = Taken /\ call' = Idle
      /\ running' = (IF handler[call.kind].result THEN running \cup {call.op} ELSE running)
      /\ UNCHANGED <<kinds, message, listening, data, toDevice, toHost, deviceVars>>
      /\ registered' = registered /\ outcome' = outcome
  BY DEF StartReturns, In
<1>2. /\ message = NoMessage /\ handler' \in [Handlers -> CommandHandlers]
      /\ \A k \in Handlers : /\ handler'[k].active = handler[k].active
                             /\ handler'[k].param = handler[k].param
                             /\ handler'[k].notify = handler[k].notify
                             /\ handler'[k].posts = 0
      /\ \A k \in Handlers : handler[k].notify => k \in Kinds /\ Silent(k)
      /\ listening => \A r \in Range(toHost) : r.cmd # "request"
      /\ listening /\ alive => \A n \in Ops : ~Sent("request", n)
  BY <1>1, TakenPost
<1>3. /\ TypeOK /\ call.op \in DOMAIN kinds /\ kinds[call.op] = call.kind /\ call.kind \in Streams
      /\ handler[call.kind].param = call.op
      /\ kinds[call.op] = "recording" /\ ~handler["recording"].active => call.op \in replied
  BY <1>1 DEF IInv, CallInv, RecordedInv, In
<1>4. call'.pc = "none" /\ call' \in [pc : {"none", "requesting", "starting", "completing", "stop", "stopping"},
                                      kind : Handlers, op : {NoOp} \cup Ops]
  BY <1>1 DEF Idle, Handlers
<1>5. /\ running' \subseteq DOMAIN kinds
      /\ \A n \in running' : n \in DOMAIN kinds /\ kinds[n] \in Streams /\ handler[kinds[n]].param = n
      /\ \A n \in running' : kinds[n] = "recording" /\ ~handler["recording"].active => n \in replied
  BY <1>1, <1>3, RunningTasks DEF In
<1>6. TypeOK'
  <2>1. registered' \in BOOLEAN /\ outcome' \in [Ops -> {"none", "true", "false"}]
    BY <1>1, <1>3 DEF TypeOK
  <2> QED
    BY <1>1, <1>2, <1>3, <1>4, <1>5, <2>1, CallType
<1>7. \A k \in Streams : handler[k].notify => handler[k].active
  BY DEF IInv, PostInv
<1>8. \A k \in Kinds : k \in Handlers
  BY DEF Handlers
<1> QED
  BY <1>1, <1>2, <1>4, <1>5, <1>6, <1>7, <1>8, CallStep DEF Kinds

\* A task has been waited for.
LEMMA WaitReturnsStep ==
  ASSUME IInv, WaitReturns
  PROVE  IInv'
<1>1. /\ call.pc = "completing" /\ Posted /\ handler' = Taken
      /\ call' = [pc |-> "stop", kind |-> call.kind, op |-> call.op]
      /\ outcome' = [outcome EXCEPT ![call.op] = "true"] /\ running' = running
      /\ UNCHANGED <<kinds, message, listening, data, toDevice, toHost, deviceVars>>
      /\ registered' = registered
  BY DEF WaitReturns, In, Goto
<1>2. /\ message = NoMessage /\ handler' \in [Handlers -> CommandHandlers]
      /\ \A k \in Handlers : /\ handler'[k].active = handler[k].active
                             /\ handler'[k].param = handler[k].param
                             /\ handler'[k].notify = handler[k].notify
                             /\ handler'[k].posts = 0
      /\ \A k \in Handlers : handler[k].notify => k \in Kinds /\ Silent(k)
      /\ listening => \A r \in Range(toHost) : r.cmd # "request"
      /\ listening /\ alive => \A n \in Ops : ~Sent("request", n)
  BY <1>1, TakenPost
<1>3. /\ TypeOK /\ call.op \in running /\ kinds[call.op] = call.kind /\ ~handler[call.kind].active
  BY <1>1 DEF IInv, CallInv, PostInv, In
<1>4. /\ \A n \in running : n \in DOMAIN kinds /\ kinds[n] \in Streams /\ handler[kinds[n]].param = n
      /\ \A n \in running : kinds[n] = "recording" /\ ~handler["recording"].active => n \in replied
      /\ call.op \in Ops /\ call.op \in DOMAIN kinds /\ call.kind \in Handlers
  BY <1>1, <1>3, RunningTasks DEF In
<1>5. /\ call'.pc = "stop" /\ call'.kind = call.kind /\ call'.op = call.op
      /\ call' \in [pc : {"none", "requesting", "starting", "completing", "stop", "stopping"},
                    kind : Handlers, op : {NoOp} \cup Ops]
  BY <1>1, <1>4
<1>6. TypeOK'
  <2>1. registered' \in BOOLEAN /\ outcome' \in [Ops -> {"none", "true", "false"}] /\ running' \subseteq DOMAIN kinds
    BY <1>1, <1>3, <1>4 DEF TypeOK
  <2> QED
    BY <1>1, <1>2, <1>3, <1>5, <2>1, CallType
<1>7. \A n \in Ops : \/ outcome'[n] = outcome[n]
                     \/ n \in DOMAIN kinds /\ outcome'[n] = "true" /\ (kinds[n] = "recording" => n \in replied)
  BY <1>1, <1>3, <1>4 DEF TypeOK
<1>8. \A k \in Streams : handler[k].notify => handler[k].active
  BY DEF IInv, PostInv
<1>9. \A k \in Kinds : k \in Handlers
  BY DEF Handlers
<1> QED
  BY <1>1, <1>2, <1>3, <1>4, <1>5, <1>6, <1>7, <1>8, <1>9, CallStep DEF Kinds

\* The command to stop was sent.
LEMMA StopReturnsStep ==
  ASSUME IInv, StopReturns
  PROVE  IInv'
<1>1. /\ call.pc = "stopping" /\ Posted /\ handler' = Taken /\ call' = Idle
      /\ running' = running \ {call.op}
      /\ UNCHANGED <<kinds, message, listening, data, toDevice, toHost, deviceVars>>
      /\ registered' = registered /\ outcome' = outcome
  BY DEF StopReturns, In
<1>2. /\ message = NoMessage /\ handler' \in [Handlers -> CommandHandlers]
      /\ \A k \in Handlers : /\ handler'[k].active = handler[k].active
                             /\ handler'[k].param = handler[k].param
                             /\ handler'[k].notify = handler[k].notify
                             /\ handler'[k].posts = 0
      /\ \A k \in Handlers : handler[k].notify => k \in Kinds /\ Silent(k)
      /\ listening => \A r \in Range(toHost) : r.cmd # "request"
      /\ listening /\ alive => \A n \in Ops : ~Sent("request", n)
  BY <1>1, TakenPost
<1>3. /\ TypeOK /\ running \subseteq DOMAIN kinds
      /\ \A n \in running \ {call.op} : kinds[n] = "recording" /\ ~handler["recording"].active => n \in replied
  BY <1>1 DEF IInv, TypeOK, RecordedInv, In
<1>4. call'.pc = "none" /\ call' \in [pc : {"none", "requesting", "starting", "completing", "stop", "stopping"},
                                      kind : Handlers, op : {NoOp} \cup Ops]
  BY <1>1 DEF Idle, Handlers
<1>5. TypeOK'
  <2>1. registered' \in BOOLEAN /\ outcome' \in [Ops -> {"none", "true", "false"}] /\ running' \subseteq DOMAIN kinds
    BY <1>1, <1>3 DEF TypeOK
  <2> QED
    BY <1>1, <1>2, <1>3, <1>4, <2>1, CallType
<1>6. \A k \in Streams : handler[k].notify => handler[k].active
  BY DEF IInv, PostInv
<1>7. \A k \in Kinds : k \in Handlers
  BY DEF Handlers
<1> QED
  BY <1>1, <1>2, <1>3, <1>4, <1>5, <1>6, <1>7, RunningTasks, CallStep DEF Kinds

\* A task is waited for, unless its reply has come.
LEMMA CompleteStep ==
  ASSUME IInv, NEW n \in Ops, Complete(n)
  PROVE  IInv'
<1>1. /\ call.pc = "none" /\ n \in running /\ running' = running
      /\ UNCHANGED <<kinds, message, listening, data, toDevice, toHost, deviceVars>>
      /\ registered' = registered
  BY DEF Complete, In
<1>2. /\ message = NoMessage
      /\ \A k \in Handlers : handler[k].posts = 0
      /\ \A k \in Handlers : handler[k].notify => k \in Kinds /\ Silent(k)
      /\ listening => \A r \in Range(toHost) : r.cmd # "request"
      /\ listening /\ alive => \A m \in Ops : ~Sent("request", m)
  BY <1>1, Unblocked DEF In
<1>3. /\ \A m \in running : m \in DOMAIN kinds /\ kinds[m] \in Streams /\ handler[kinds[m]].param = m
      /\ \A m \in running : kinds[m] = "recording" /\ ~handler["recording"].active => m \in replied
      /\ n \in DOMAIN kinds /\ kinds[n] \in Handlers /\ kinds[n] \in Streams
  BY <1>1, RunningTasks DEF In
<1>4. TypeOK
  BY DEF IInv
<1>5. \A k \in Streams : handler[k].notify => handler[k].active
  BY DEF IInv, PostInv
<1>6. \A k \in Kinds : k \in Handlers
  BY DEF Handlers
<1>7. CASE /\ handler[kinds[n]].active
           /\ handler' = [handler EXCEPT ![kinds[n]].notify = TRUE]
           /\ Goto("completing", kinds[n], n)
           /\ outcome' = outcome
  <2>1. /\ call'.pc = "completing" /\ call'.kind = kinds[n] /\ call'.op = n
        /\ call' \in [pc : {"none", "requesting", "starting", "completing", "stop", "stopping"},
                      kind : Handlers, op : {NoOp} \cup Ops]
    BY <1>3, <1>7 DEF Goto
  <2>2. [handler[kinds[n]] EXCEPT !.notify = TRUE] \in CommandHandlers
    <3>1. handler[kinds[n]] \in CommandHandlers
      BY <1>3, <1>4 DEF TypeOK
    <3> QED
      BY <3>1 DEF CommandHandlers
  <2>3. handler' \in [Handlers -> CommandHandlers]
    BY <1>3, <1>4, <1>7, <2>2 DEF TypeOK
  <2>4. \A k \in Handlers : /\ handler'[k].active = handler[k].active
                            /\ handler'[k].param = handler[k].param
                            /\ handler'[k].posts = handler[k].posts
                            /\ handler'[k].notify = (IF k = kinds[n] THEN TRUE ELSE handler[k].notify)
    BY <1>3, <1>4, <1>7 DEF TypeOK, CommandHandlers
  <2>5. TypeOK'
    <3>1. registered' \in BOOLEAN /\ outcome' \in [Ops -> {"none", "true", "false"}] /\ running' \subseteq DOMAIN kinds
      BY <1>1, <1>4, <1>7 DEF TypeOK
    <3> QED
      BY <1>1, <1>4, <2>1, <2>3, <3>1, CallType
  <2>6. /\ \A k \in Streams : handler'[k].notify => handler[k].active
        /\ \A k \in Requests : handler'[k].notify => handler[k].notify
        /\ handler'[call'.kind].notify
    BY <1>3, <1>5, <1>6, <1>7, <2>1, <2>4 DEF Kinds, Streams, Requests
  <2>7. /\ \A k \in Handlers : /\ handler'[k].active = handler[k].active
                               /\ handler'[k].param = handler[k].param
                               /\ handler'[k].posts = 0
        /\ \A k \in Handlers : handler'[k].notify =>
             (k \in Kinds /\ Silent(k)) \/ (call'.kind = k /\ call'.pc = "completing")
    BY <1>2, <2>1, <2>4
  <2> QED
    BY <1>1, <1>2, <1>3, <1>7, <2>1, <2>5, <2>6, <2>7, CallStep
<1>8. CASE /\ ~handler[kinds[n]].active
           /\ Goto("stop", kinds[n], n)
           /\ outcome' = [outcome EXCEPT ![n] = "true"]
           /\ handler' = handler
  <2>1. /\ call'.pc = "stop" /\ call'.kind = kinds[n] /\ call'.op = n
        /\ call' \in [pc : {"none", "requesting", "starting", "completing", "stop", "stopping"},
                      kind : Handlers, op : {NoOp} \cup Ops]
    BY <1>3, <1>8 DEF Goto
  <2>2. TypeOK'
    <3>1. /\ registered' \in BOOLEAN /\ outcome' \in [Ops -> {"none", "true", "false"}]
          /\ running' \subseteq DOMAIN kinds /\ handler' \in [Handlers -> CommandHandlers]
      BY <1>1, <1>4, <1>8 DEF TypeOK
    <3> QED
      BY <1>1, <1>4, <2>1, <3>1, CallType
  <2>3. \A m \in Ops : \/ outcome'[m] = outcome[m]
                       \/ m \in DOMAIN kinds /\ outcome'[m] = "true" /\ (kinds[m] = "recording" => m \in replied)
    BY <1>1, <1>3, <1>4, <1>8 DEF TypeOK
  <2> QED
    BY <1>1, <1>2, <1>3, <1>5, <1>6, <1>8, <2>1, <2>2, <2>3, CallStep DEF Kinds
<1> QED
  BY <1>7, <1>8 DEF Complete

\* A playback is stopped without having been waited for.
LEMMA CompleteUnawaitedStep ==
  ASSUME IInv, NEW n \in Ops, CompleteUnawaited(n)
  PROVE  IInv'
<1>1. /\ call.pc = "none" /\ n \in running /\ kinds[n] = "playback" /\ running' = running
      /\ call' = [pc |-> "stop", kind |-> "playback", op |-> n]
      /\ UNCHANGED <<kinds, message, listening, data, toDevice, toHost, deviceVars>>
      /\ registered' = registered /\ outcome' = outcome /\ handler' = handler
  BY DEF CompleteUnawaited, In, Goto, hostVars
<1>2. /\ message = NoMessage
      /\ \A k \in Handlers : handler[k].posts = 0
      /\ \A k \in Handlers : handler[k].notify => k \in Kinds /\ Silent(k)
      /\ listening => \A r \in Range(toHost) : r.cmd # "request"
      /\ listening /\ alive => \A m \in Ops : ~Sent("request", m)
  BY <1>1, Unblocked DEF In
<1>3. /\ \A m \in running : m \in DOMAIN kinds /\ kinds[m] \in Streams /\ handler[kinds[m]].param = m
      /\ \A m \in running : kinds[m] = "recording" /\ ~handler["recording"].active => m \in replied
      /\ kinds[n] \in Handlers
  BY <1>1, RunningTasks DEF In
<1>4. TypeOK
  BY DEF IInv
<1>5. \A k \in Streams : handler[k].notify => handler[k].active
  BY DEF IInv, PostInv
<1>6. /\ call'.pc = "stop" /\ call'.kind = "playback" /\ call'.op = n
      /\ call' \in [pc : {"none", "requesting", "starting", "completing", "stop", "stopping"},
                    kind : Handlers, op : {NoOp} \cup Ops]
  BY <1>1, <1>3
<1>7. TypeOK'
  <2>1. /\ registered' \in BOOLEAN /\ outcome' \in [Ops -> {"none", "true", "false"}]
        /\ running' \subseteq DOMAIN kinds /\ handler' \in [Handlers -> CommandHandlers]
    BY <1>1, <1>4 DEF TypeOK
  <2> QED
    BY <1>1, <1>4, <1>6, <2>1, CallType
<1> QED
  BY <1>1, <1>2, <1>3, <1>5, <1>6, <1>7, CallStep

\* A wait ends without a post.  With replies in time, none is due: so the host
\* does not listen, or the client has crashed and left no reply.
LEMMA TimesOutStep ==
  ASSUME IInv, ~LateReplies, TimesOut
  PROVE  IInv'
<1>1. /\ call.pc = "requesting" \/ call.pc = "completing"
      /\ ~Posted /\ message = NoMessage /\ ~ReplyDue(call.kind)
      /\ outcome' = [outcome EXCEPT ![call.op] = "false"] /\ running' = running
      /\ UNCHANGED <<kinds, message, listening, data, toDevice, toHost, deviceVars>>
      /\ registered' = registered /\ handler' = handler
      /\ call' = IF call.pc = "requesting" THEN Idle ELSE [pc |-> "stop", kind |-> call.kind, op |-> call.op]
  BY DEF TimesOut, In, Goto, hostVars
<1>2. TypeOK /\ call.op \in DOMAIN kinds /\ kinds[call.op] = call.kind /\ handler[call.kind].param = call.op
  BY <1>1, RunningTasks DEF IInv, CallInv, In
<1>3. call.op \in Ops /\ call.kind \in Kinds /\ call.kind \in Handlers /\ handler[call.kind].notify
  BY <1>1, <1>2, Basics DEF IInv, PostInv, In, Handlers
<1>4. ~listening \/ ~alive
  <2> SUFFICES ASSUME listening, alive PROVE FALSE
    OBVIOUS
  <2>1. \A r \in Range(toHost) : r.kind = call.kind => r.cmd = "stop"
    BY <1>1 DEF ReplyDue
  <2>2. /\ \A c : Sent(c, call.op) => c = "stop"
        /\ thread[call.op] \notin {"starting", "running", "marker"}
    <3>1. ASSUME NEW c, Sent(c, call.op), c # "stop" PROVE FALSE
      <4>1. PICK m \in Range(toDevice) : m.op = call.op /\ m.cmd = c
        BY <1>1, <3>1 DEF Sent, Queue
      <4>2. m \in Range(Append(toDevice, message))
        <5>1. toDevice \in Seq({NoMessage} \cup Commands) /\ message \in {NoMessage} \cup Commands
          BY <1>2 DEF TypeOK
        <5> QED
          BY <4>1, <5>1, RangeAppend
      <4> QED
        BY <1>1, <1>2, <3>1, <4>1, <4>2 DEF ReplyDue
    <3> QED
      BY <1>1, <1>2, <3>1 DEF ReplyDue
  <2>3. CASE call.pc = "requesting"
    <3>1. call.kind \in Requests
      BY <2>3 DEF IInv, CallInv, In
    <3>2. Sent("request", handler[call.kind].param)
      BY <1>3, <2>1, <3>1 DEF IInv, DueInv
    <3> QED
      BY <1>2, <2>2, <3>2
  <2>4. CASE call.pc = "completing"
    <3>1. call.op \in running
      BY <2>4 DEF IInv, CallInv, In
    <3>2. Stream(call.op) /\ Open(call.op)
      BY <1>2, <1>3, <3>1, RunningTasks DEF IInv, PostInv, Stream, Open
    <3>3. thread[call.op] # "none"
      BY <1>3, <2>2, <3>2 DEF IInv, DeviceInv, QueueInv
    <3>4. thread[call.op] \in {"replied", "over"}
      BY <1>2, <1>3, <2>2, <3>3 DEF TypeOK
    <3> QED
      BY <1>2, <1>3, <2>1, <3>2, <3>4 DEF IInv, DueInv
  <2> QED
    BY <1>1, <2>3, <2>4
<1>5. Silent(call.kind)
  BY <1>1, <1>4 DEF ReplyDue, Silent
<1>6. \A k \in Handlers : handler[k].posts = 0
  <2>1. \A k \in Handlers : handler[k].posts \in Nat
    BY <1>2 DEF TypeOK, CommandHandlers
  <2> QED
    BY <1>1, <2>1 DEF IInv, PostInv, PostsAwaited, Posted
<1>7. \A k \in Handlers : handler[k].notify => k \in Kinds /\ Silent(k)
  BY <1>3, <1>5 DEF IInv, PostInv
<1>8. listening => \A r \in Range(toHost) : r.cmd # "request"
  BY <1>1, <1>4 DEF IInv, RequestInv, ReplyDue
<1>9. /\ call' \in [pc : {"none", "requesting", "starting", "completing", "stop", "stopping"},
                    kind : Handlers, op : {NoOp} \cup Ops]
      /\ call'.pc \in {"none", "stop"}
      /\ call'.pc = "stop" => call'.kind = call.kind /\ call'.op = call.op /\ call.pc = "completing"
  BY <1>1, <1>3 DEF Idle, Handlers
<1>10. TypeOK'
  <2>1. /\ registered' \in BOOLEAN /\ outcome' \in [Ops -> {"none", "true", "false"}]
        /\ running' \subseteq DOMAIN kinds /\ handler' \in [Handlers -> CommandHandlers]
    BY <1>1, <1>2 DEF TypeOK
  <2> QED
    BY <1>1, <1>2, <1>9, <2>1, CallType
<1>11. \A n \in Ops : \/ outcome'[n] = outcome[n]
                      \/ n \in DOMAIN kinds /\ outcome'[n] = "false" /\ (~listening \/ ~alive)
  BY <1>1, <1>2, <1>4 DEF TypeOK
<1>12. /\ \A m \in running : m \in DOMAIN kinds /\ kinds[m] \in Streams /\ handler[kinds[m]].param = m
       /\ \A m \in running : kinds[m] = "recording" /\ ~handler["recording"].active => m \in replied
       /\ call.pc = "completing" => call.op \in running
  BY <1>1, RunningTasks DEF IInv, CallInv, In
<1>13. \A k \in Streams : handler[k].notify => handler[k].active
  BY DEF IInv, PostInv
<1> QED
  BY <1>1, <1>2, <1>4, <1>5, <1>6, <1>7, <1>8, <1>9, <1>10, <1>11, <1>12, <1>13, CallStep

\* A stop that finds the task complete sends nothing.
LEMMA DoStopReturnsStep ==
  ASSUME IInv, DoStop, ~handler[call.kind].active
  PROVE  IInv'
<1>1. /\ call.pc = "stop" /\ call' = Idle /\ running' = running \ {call.op}
      /\ UNCHANGED <<kinds, message, listening, data, toDevice, toHost, deviceVars>>
      /\ registered' = registered /\ outcome' = outcome /\ handler' = handler
  BY DEF DoStop, In
<1>2. /\ message = NoMessage
      /\ \A k \in Handlers : handler[k].posts = 0
      /\ \A k \in Handlers : handler[k].notify => k \in Kinds /\ Silent(k)
      /\ listening => \A r \in Range(toHost) : r.cmd # "request"
      /\ listening /\ alive => \A m \in Ops : ~Sent("request", m)
  BY <1>1, Unblocked DEF In
<1>3. /\ \A m \in running : m \in DOMAIN kinds /\ kinds[m] \in Streams /\ handler[kinds[m]].param = m
      /\ \A m \in running : kinds[m] = "recording" /\ ~handler["recording"].active => m \in replied
  BY <1>1, RunningTasks DEF In
<1>4. TypeOK
  BY DEF IInv
<1>5. \A k \in Streams : handler[k].notify => handler[k].active
  BY DEF IInv, PostInv
<1>6. call'.pc = "none" /\ call' \in [pc : {"none", "requesting", "starting", "completing", "stop", "stopping"},
                                      kind : Handlers, op : {NoOp} \cup Ops]
  BY <1>1 DEF Idle, Handlers
<1>7. TypeOK'
  <2>1. /\ registered' \in BOOLEAN /\ outcome' \in [Ops -> {"none", "true", "false"}]
        /\ running' \subseteq DOMAIN kinds /\ handler' \in [Handlers -> CommandHandlers]
    BY <1>1, <1>4 DEF TypeOK
  <2> QED
    BY <1>1, <1>4, <1>6, <2>1, CallType
<1> QED
  BY <1>1, <1>2, <1>3, <1>5, <1>6, <1>7, CallStep

-----------------------------------------------------------------------------
(* Calls that send a command.                                              *)

\* A task that is not complete is stopped: its stop comes after its start and
\* after all that was sent before.
LEMMA DoStopSendsStep ==
  ASSUME IInv, DoStop, handler[call.kind].active
  PROVE  IInv'
<1>0. PICK k, n : k = call.kind /\ n = call.op
  OBVIOUS
<1> DEFINE m == [cmd |-> "stop", kind |-> k, op |-> n]
<1>1. /\ call.pc = "stop" /\ call' = [pc |-> "stopping", kind |-> "stop", op |-> n]
      /\ handler' = [handler EXCEPT ![k].active = FALSE, ![k].notify = FALSE, !["stop"] = NewHandler]
      /\ message' = m /\ running' = running /\ kinds' = kinds /\ registered' = registered
      /\ outcome' = outcome /\ listening' = listening /\ data' = data /\ toDevice' = toDevice
      /\ toHost' = toHost /\ handler[k].active
      /\ alive' = alive /\ server' = server /\ thread' = thread /\ threadOf' = threadOf
      /\ unit' = unit /\ released' = released /\ replied' = replied
  BY <1>0 DEF DoStop, In, Goto, SendCommand, deviceVars, threadVars
<1>2. TypeOK
  BY DEF IInv
<1>3. /\ n \in running /\ n \in DOMAIN kinds /\ n \in Ops /\ kinds[n] = k /\ k \in Streams
      /\ k \in Handlers /\ k \in Kinds /\ k # "stop" /\ handler[k].param = n /\ Stream(n) /\ Open(n)
      /\ \A j \in running : kinds[j] = k => j = n
  BY <1>0, <1>1, RunningTasks DEF IInv, CallInv, In, Stream, Open, Kinds, Handlers, Streams
<1>4. m \in Commands /\ m.cmd = "stop" /\ m.kind = k /\ m.op = n
  BY <1>3 DEF Commands
<1> HIDE DEF m
<1>5. /\ message = NoMessage
      /\ \A j \in Handlers : handler[j].posts = 0
      /\ \A j \in Handlers : handler[j].notify => j \in Kinds /\ Silent(j)
      /\ listening => \A r \in Range(toHost) : r.cmd # "request"
      /\ listening /\ alive => \A j \in Ops : ~Sent("request", j)
  BY <1>1, Unblocked DEF In
<1>6. /\ Queue' = Append(Queue, m) /\ Queue \in Seq(Commands)
      /\ \A x : x \in Range(Queue') <=> x \in Range(Queue) \/ x = m
      /\ \A c, j : Sent(c, j)' <=> Sent(c, j) \/ (c = m.cmd /\ j = m.op)
  BY <1>1, <1>2, <1>4, <1>5, QueueSends
<1>7. /\ \A j : Sent("stop", j)' <=> Sent("stop", j) \/ j = n
      /\ \A c, j : c # "stop" => (Sent(c, j)' <=> Sent(c, j))
  BY <1>4, <1>6
<1>8. /\ handler'["stop"] = NewHandler
      /\ handler'[k] = [handler[k] EXCEPT !.active = FALSE, !.notify = FALSE]
      /\ \A j \in Handlers : j # k /\ j # "stop" => handler'[j] = handler[j]
      /\ DOMAIN handler' = Handlers
  BY <1>1, <1>2, <1>3 DEF TypeOK, Handlers
<1>9. /\ handler[k] \in CommandHandlers /\ handler'[k] \in CommandHandlers
      /\ ~handler'[k].active /\ ~handler'[k].notify /\ handler'[k].posts = 0 /\ handler'[k].param = n
  <2>1. handler[k] \in CommandHandlers
    BY <1>2, <1>3 DEF TypeOK
  <2>2. \A f \in CommandHandlers :
          LET g == [f EXCEPT !.active = FALSE, !.notify = FALSE] IN
          g \in CommandHandlers /\ ~g.active /\ ~g.notify /\ g.posts = f.posts /\ g.param = f.param
    BY DEF CommandHandlers
  <2>3. handler[k].posts = 0 /\ handler[k].param = n
    BY <1>3, <1>5
  <2> QED
    BY <2>1, <2>2, <2>3, <1>8
<1>10. /\ handler'["stop"] \in CommandHandlers /\ ~handler'["stop"].notify /\ handler'["stop"].posts = 0
  BY <1>8 DEF NewHandler, CommandHandlers
<1>11. handler' \in [Handlers -> CommandHandlers]
  <2> DEFINE f == [handler EXCEPT ![k] = [@ EXCEPT !.active = FALSE, !.notify = FALSE]]
  <2>1. handler \in [Handlers -> CommandHandlers]
    BY <1>2 DEF TypeOK
  <2>2. f \in [Handlers -> CommandHandlers]
    BY <1>3, <1>8, <1>9, <2>1
  <2>3. handler' = [f EXCEPT !["stop"] = NewHandler]
    BY <1>1, <1>3, <2>1
  <2>4. NewHandler \in CommandHandlers
    BY <1>8, <1>10
  <2> HIDE DEF f
  <2> QED
    BY <2>2, <2>3, <2>4
<1>12. call'.pc = "stopping" /\ call'.kind = "stop" /\ call'.op = n
       /\ call' \in [pc : {"none", "requesting", "starting", "completing", "stop", "stopping"},
                     kind : Handlers, op : {NoOp} \cup Ops]
  BY <1>1, <1>3 DEF Handlers
<1>13. TypeOK'
  <2>1. message' \in {NoMessage} \cup Commands
    BY <1>1, <1>4
  <2> QED
    BY <1>1, <1>2, <1>11, <1>12, <2>1 DEF TypeOK
<1>14. CallInv'
  <2>1. \A j \in Kinds : handler'[j].param = handler[j].param /\ (handler'[j].active => handler[j].active)
    BY <1>3, <1>8, <1>9 DEF Handlers, Kinds, Streams, Requests
  <2>2. \A j \in DOMAIN kinds : j <= handler'[kinds[j]].param
    BY <2>1, <1>2, Basics DEF IInv, CallInv
  <2>3. \A j \in Kinds : handler'[j].param # NoOp \/ handler'[j].active =>
          handler'[j].param \in DOMAIN kinds /\ kinds[handler'[j].param] = j
    BY <2>1 DEF IInv, CallInv
  <2>4. \A j \in running : kinds[j] \in Streams /\ handler'[kinds[j]].param = j
    BY <2>1, RunningTasks DEF Kinds
  <2> QED
    BY <1>1, <1>3, <1>12, <2>2, <2>3, <2>4 DEF CallInv, In
<1>15. MessageInv'
  BY <1>1, <1>3, <1>4, <1>10, <1>12 DEF MessageInv, In
<1>16. \A j : Silent(j)' <=> Silent(j)
  BY <1>1 DEF Silent
<1>17. PostInv'
  <2>1. \A j \in Handlers : handler'[j].posts = 0
    BY <1>5, <1>8, <1>9, <1>10
  <2>2. \A j \in Handlers : handler'[j].notify => j \in Kinds /\ Silent(j)' /\ j # k /\ j # "stop"
    BY <1>5, <1>8, <1>9, <1>10, <1>16
  <2>3. \A j \in Streams : handler'[j].notify => handler'[j].active
    BY <1>8, <2>2 DEF IInv, PostInv, Handlers, Kinds, Streams
  <2> QED
    BY <1>12, <2>1, <2>2, <2>3 DEF PostInv, PostsAwaited, In
<1>18. \A j \in Ops : /\ Stream(j)' <=> Stream(j)
                      /\ Active(j)' <=> Active(j)
                      /\ Stream(j) /\ j # n => (Open(j)' <=> Open(j))
                      /\ ~Open(n)'
                      /\ Quits(kinds[j])' <=> Quits(kinds[j])
  <2>1. ASSUME NEW j \in Ops, Stream(j), j # n PROVE Open(j)' <=> Open(j)
    <3>1. CASE kinds[j] = k
      BY <1>1, <1>3, <1>9, <2>1, <3>1 DEF Open
    <3>2. CASE kinds[j] # k
      <4>1. handler'[kinds[j]] = handler[kinds[j]]
        BY <1>8, <2>1, <3>2 DEF Stream, Streams, Handlers, Kinds
      <4> QED
        BY <1>1, <4>1 DEF Open
    <3> QED
      BY <3>1, <3>2
  <2>2. ~Open(n)'
    BY <1>1, <1>3, <1>9 DEF Open
  <2> QED
    BY <1>1, <2>1, <2>2 DEF Stream, Active, Quits
<1>19. alive => (Doomed => Doomed')
  BY <1>1, <1>7 DEF Doomed
<1>20. ASSUME alive PROVE QueueInv' /\ ThreadInv' /\ UnitInv'
  <2>1. QueueInv /\ ThreadInv /\ UnitInv
    BY <1>20 DEF IInv, DeviceInv
  <2>2. \A y \in Range(Queue) : Before(y, m)
    <3> SUFFICES ASSUME NEW y \in Range(Queue), y.kind = k
                 PROVE  y.op < n \/ (y.op = n /\ y.cmd = "start")
      BY <1>4 DEF Before
    <3>1. y.op \in DOMAIN kinds /\ kinds[y.op] = k /\ y.cmd # "request"
      BY <1>3, <2>1 DEF QueueInv, Streams, Requests
    <3>2. y.op <= n
      BY <1>3, <3>1 DEF IInv, CallInv
    <3>3. y.cmd \in {"start", "stop"}
      <4>1. y \in Commands
        BY <1>6 DEF Range
      <4> QED
        BY <3>1, <4>1 DEF Commands
    <3>4. y.op = n => y.cmd # "stop"
      BY <1>3, <2>1 DEF ThreadInv, Sent
    <3> QED
      BY <3>1, <3>2, <3>3, <3>4, <1>2, <1>3, Basics
  <2>3. Ordered(Queue)'
    <3>1. Ordered(Append(Queue, m))
      BY <1>4, <1>6, <2>1, <2>2, OrderAppend DEF QueueInv
    <3> QED
      BY <1>6, <3>1 DEF Ordered
  <2>4. \A x \in Range(Queue') :
          /\ x.op \in DOMAIN kinds /\ x.kind = kinds[x.op]
          /\ x.cmd = "request" <=> x.kind \in Requests
    BY <1>3, <1>4, <1>6, <2>1 DEF QueueInv, Streams, Requests
  <2>5. ASSUME NEW j \in Ops, NEW x \in Range(Queue'), thread[j] # "none", x.kind = kinds[j]
        PROVE  j <= x.op
    <3>1. CASE x \in Range(Queue)
      BY <2>1, <2>5, <3>1 DEF QueueInv
    <3>2. CASE x = m
      <4>1. Stream(j) /\ kinds[j] = k
        BY <1>4, <2>1, <2>5, <3>2 DEF QueueInv
      <4> QED
        BY <1>3, <1>4, <3>2, <4>1 DEF IInv, CallInv, Stream
    <3> QED
      BY <1>6, <2>5, <3>1, <3>2
  <2>6. QueueInv'
    BY <1>1, <1>7, <1>18, <2>1, <2>3, <2>4, <2>5 DEF QueueInv
  <2>7. \A j \in Streams : threadOf[j] # NoOp => Stream(threadOf[j])'
    BY <1>1, <2>1 DEF ThreadInv, Stream
  <2>8. ASSUME NEW j \in Ops, Stream(j), ~Open(j)'
        PROVE  \/ Sent("stop", j)' \/ thread[j] \in {"replied", "over"}
               \/ Quits(kinds[j]) /\ thread[j] # "none"
               \/ kinds[j] = "playback" /\ Doomed'
    <3>1. CASE j = n
      BY <1>7, <3>1
    <3>2. CASE j # n
      <4>1. \/ Sent("stop", j) \/ thread[j] \in {"replied", "over"}
            \/ Quits(kinds[j]) /\ thread[j] # "none"
            \/ kinds[j] = "playback" /\ Doomed
        BY <1>18, <2>1, <2>8, <3>2 DEF ThreadInv
      <4> QED
        BY <1>7, <1>19, <1>20, <4>1
    <3> QED
      BY <3>1, <3>2
  <2>9. \A j \in Ops : Stream(j) /\ Open(j)' => ~Sent("stop", j)' /\ (Quits(kinds[j]) => thread[j] = "none")
    BY <1>7, <1>18, <2>1 DEF ThreadInv
  <2>10. listening => k # "recording"
    BY <1>0, <1>1, <1>20 DEF IInv, ReplyInv, In, Silent
  <2>11. listening => \A j \in Ops : Stream(j) /\ kinds[j] = "recording" => ~Sent("stop", j)'
    BY <1>3, <1>7, <2>1, <2>10 DEF ThreadInv
  <2>12. ThreadInv'
    <3>1. Quits("recording")' <=> Quits("recording")
      BY <1>1 DEF Quits
    <3> QED
      BY <1>1, <1>18, <2>1, <2>7, <2>8, <2>9, <2>11, <3>1 DEF ThreadInv
  <2>13. UnitInv'
    <3>1. Quits("playback")' <=> Quits("playback")
      BY <1>1 DEF Quits
    <3>2. \A j \in Streams : unit[j] # NoOp => Stream(unit[j])'
      BY <1>1, <2>1 DEF UnitInv, Stream
    <3> QED
      BY <1>1, <1>18, <2>1, <3>1, <3>2 DEF UnitInv
  <2> QED
    BY <2>6, <2>12, <2>13
<1>21. ASSUME NEW r \in Range(toHost) PROVE GoodReply(r)'
  <2>1. GoodReply(r)
    BY DEF IInv, ReplyInv
  <2>2. CASE ~Started(r)
    BY <2>1, <2>2 DEF GoodReply, Started
  <2>3. CASE Started(r)
    <3>1. /\ Stream(r.op) /\ r.kind = kinds[r.op] /\ r.op \in Ops
          /\ thread[r.op] \in {"replied", "over"} /\ r.op \in replied
      BY <1>2, <2>1, <2>3, Basics DEF GoodReply, Stream
    <3>2. Stream(r.op)'
      BY <1>18, <3>1
    <3>3. ASSUME listening, r.kind = "recording" PROVE Open(r.op)'
      <4>1. Open(r.op)
        BY <2>1, <2>3, <3>3 DEF GoodReply
      <4>2. k # "recording"
        <5>1. ~Silent("recording")
          BY <2>3, <3>3 DEF Silent, Started
        <5> QED
          BY <1>0, <1>1, <5>1 DEF IInv, ReplyInv, In
      <4> QED
        BY <1>3, <1>18, <3>1, <3>3, <4>1, <4>2
    <3>4. ASSUME listening, alive, r.kind = "playback"
          PROVE  Doomed' \/ (Open(r.op)' /\ unit["playback"] = r.op /\ r.op \in released)
      <4>1. CASE Doomed
        BY <1>19, <3>4, <4>1
      <4>2. CASE ~Doomed
        <5>1. Open(r.op) /\ unit["playback"] = r.op /\ r.op \in released
          BY <2>1, <2>3, <3>4, <4>2 DEF GoodReply
        <5>2. CASE r.op # n
          BY <1>18, <3>1, <5>1, <5>2
        <5>3. CASE r.op = n
          <6>1. \A j \in DOMAIN kinds : kinds[j] = "playback" => thread[j] \notin {"starting", "running"}
            <7> SUFFICES ASSUME NEW j \in DOMAIN kinds, kinds[j] = "playback", j # n
                         PROVE  thread[j] \in {"replied", "over"}
              BY <3>1, <5>3
            <7>1. j \in Ops /\ Stream(j)
              BY <1>2, Basics DEF Stream, Streams
            <7> QED
              BY <1>3, <3>1, <3>4, <4>2, <5>3, <7>1, Alone
          <6> QED
            BY <1>1, <1>7, <5>1, <5>3, <6>1 DEF Doomed
        <5> QED
          BY <5>2, <5>3
      <4> QED
        BY <4>1, <4>2
    <3> QED
      BY <1>1, <2>3, <3>1, <3>2, <3>3, <3>4 DEF GoodReply, Started
  <2> QED
    BY <2>2, <2>3
<1>22. ReplyInv'
  <2>1. (\A r \in Range(toHost) : GoodReply(r))'
    BY <1>1, <1>21
  <2> QED
    BY <1>1, <1>12, <2>1 DEF IInv, ReplyInv, In, Distinct
<1>23. RequestInv'
  BY <1>1, <1>5, <1>7 DEF IInv, RequestInv, Distinct
<1>24. DueInv'
  <2> SUFFICES ASSUME alive, listening PROVE DueInv'
    BY <1>1 DEF DueInv
  <2>1. \A j \in Requests : /\ handler'[j] = handler[j]
                            /\ Sent("request", handler[j].param)' <=> Sent("request", handler[j].param)
    <3>1. \A j \in Requests : handler'[j] = handler[j]
      BY <1>3, <1>8 DEF Handlers, Kinds, Streams, Requests
    <3> QED
      BY <1>6, <1>4, <3>1 DEF Sent
  <2>2. \A j \in Ops : Stream(j)' /\ Open(j)' => Stream(j) /\ Open(j)
    BY <1>18
  <2> QED
    BY <1>1, <2>1, <2>2 DEF IInv, DueInv, Sent
<1>25. RecordedInv'
  <2>1. ASSUME NEW j \in running, kinds[j] = "recording", ~handler'["recording"].active, j # n
        PROVE  j \in replied
    <3>1. kinds[j] # k
      BY <1>3, <2>1
    <3>2. handler'["recording"] = handler["recording"]
      BY <1>8, <2>1, <3>1 DEF Handlers, Kinds, Streams
    <3> QED
      BY <1>1, <2>1, <3>2, RunningTasks DEF In
  <2>2. \A j \in Ops \ DOMAIN kinds : outcome[j] = "none" /\ data[j] = NoOp
    BY DEF IInv, RecordedInv
  <2> QED
    BY <1>1, <1>12, <2>1, <2>2 DEF RecordedInv, In
<1>26. RecordingIsOwn' /\ TimesOutOnlyDeaf'
  BY <1>1 DEF IInv, RecordingIsOwn, TimesOutOnlyDeaf, Successful
<1> QED
  BY <1>1, <1>13, <1>14, <1>15, <1>17, <1>20, <1>22, <1>23, <1>24, <1>25, <1>26 DEF IInv, DeviceInv

\* A new operation is the last, and nothing is known of it yet.
LEMMA Begun ==
  ASSUME IInv, Free, NEW k \in Kinds, kinds' = Append(kinds, k)
  PROVE  /\ New \in Ops /\ New \notin DOMAIN kinds /\ DOMAIN kinds' = DOMAIN kinds \cup {New}
         /\ kinds'[New] = k /\ \A n \in DOMAIN kinds : kinds'[n] = kinds[n] /\ n <= New /\ n < New
         /\ kinds' \in Seq(Kinds) /\ Len(kinds') <= MaxOps
         /\ outcome[New] = "none" /\ data[New] = NoOp
         /\ \A n \in DOMAIN kinds : n \in Ops
<1>1. kinds \in Seq(Kinds) /\ Len(kinds) < MaxOps /\ MaxOps \in Nat /\ Len(kinds) \in Nat
  BY AudioAssumption DEF IInv, TypeOK, Free
<1>2. New \in Ops /\ New \notin DOMAIN kinds /\ DOMAIN kinds = 1 .. Len(kinds)
  BY <1>1 DEF New, Ops
<1>3. kinds' \in Seq(Kinds) /\ Len(kinds') = Len(kinds) + 1 /\ DOMAIN kinds' = 1 .. (Len(kinds) + 1)
  BY <1>1
<1>4. kinds'[New] = k /\ \A n \in 1 .. Len(kinds) : kinds'[n] = kinds[n]
  BY <1>1 DEF New
<1>5. outcome[New] = "none" /\ data[New] = NoOp
  BY <1>2 DEF IInv, RecordedInv
<1>6. \A n \in 1 .. Len(kinds) : n <= New /\ n < New /\ n \in Ops
  BY <1>1 DEF New, Ops
<1>7. 1 .. (Len(kinds) + 1) = 1 .. Len(kinds) \cup {New}
  BY <1>1 DEF New
<1> QED
  BY <1>1, <1>2, <1>3, <1>4, <1>5, <1>6, <1>7

\* While the thread of the test case is free nothing is under way for what it
\* begins now.
LEMMA BegunFresh ==
  ASSUME IInv, Free, alive
  PROVE  ~Stream(New) /\ (New \in Ops => thread[New] = "none") /\ \A c : ~Sent(c, New)
<1>1. New \notin DOMAIN kinds
  BY DEF IInv, TypeOK, New
<1>2. ~Stream(New)
  BY <1>1 DEF Stream
<1>3. \A c : ~Sent(c, New)
  BY <1>1 DEF Sent, IInv, DeviceInv, QueueInv
<1> QED
  BY <1>2, <1>3 DEF IInv, DeviceInv, QueueInv

\* A request is sent.
LEMMA RequestStep ==
  ASSUME IInv, NEW k \in Requests, Request(k)
  PROVE  IInv'
<1>0. PICK n : n = New
  OBVIOUS
<1> DEFINE m == [cmd |-> "request", kind |-> k, op |-> n]
<1>1. /\ Free /\ call.pc = "none" /\ call' = [pc |-> "requesting", kind |-> k, op |-> n]
      /\ handler' = [handler EXCEPT ![k].notify = TRUE, ![k].param = n]
      /\ message' = m /\ kinds' = Append(kinds, k) /\ running' = running /\ registered' = registered
      /\ outcome' = outcome /\ listening' = listening /\ data' = data /\ toDevice' = toDevice
      /\ toHost' = toHost
      /\ alive' = alive /\ server' = server /\ thread' = thread /\ threadOf' = threadOf
      /\ unit' = unit /\ released' = released /\ replied' = replied
  BY <1>0 DEF Request, In, Free, Goto, SendCommand, deviceVars, threadVars
<1>2. TypeOK /\ k \in Kinds /\ k \in Handlers /\ k \notin Streams
  BY DEF IInv, Kinds, Handlers, Requests, Streams
<1>3. /\ n \in Ops /\ n \notin DOMAIN kinds /\ DOMAIN kinds' = DOMAIN kinds \cup {n}
      /\ kinds'[n] = k /\ \A j \in DOMAIN kinds : kinds'[j] = kinds[j] /\ j <= n /\ j < n
      /\ kinds' \in Seq(Kinds) /\ Len(kinds') <= MaxOps
      /\ outcome[n] = "none" /\ data[n] = NoOp
      /\ \A j \in DOMAIN kinds : j \in Ops
  BY <1>0, <1>1, <1>2, Begun
<1>4. m \in Commands /\ m.cmd = "request" /\ m.kind = k /\ m.op = n
  BY <1>2, <1>3 DEF Commands
<1> HIDE DEF m
<1>5. /\ message = NoMessage
      /\ \A j \in Handlers : handler[j].posts = 0
      /\ \A j \in Handlers : handler[j].notify => j \in Kinds /\ Silent(j)
      /\ listening => \A r \in Range(toHost) : r.cmd # "request"
      /\ listening /\ alive => \A j \in Ops : ~Sent("request", j)
  BY <1>1, Unblocked DEF In
<1>6. /\ Queue' = Append(Queue, m) /\ Queue \in Seq(Commands)
      /\ \A x : x \in Range(Queue') <=> x \in Range(Queue) \/ x = m
      /\ \A c, j : Sent(c, j)' <=> Sent(c, j) \/ (c = m.cmd /\ j = m.op)
  BY <1>1, <1>2, <1>4, <1>5, QueueSends
<1>7. /\ \A c, j : c # "request" => (Sent(c, j)' <=> Sent(c, j))
      /\ \A j : Sent("request", j)' <=> Sent("request", j) \/ j = n
  BY <1>4, <1>6
<1>8. /\ handler' \in [Handlers -> CommandHandlers]
      /\ \A j \in Handlers : j # k => handler'[j] = handler[j]
      /\ handler'[k].active = handler[k].active /\ handler'[k].posts = 0
      /\ handler'[k].notify /\ handler'[k].param = n
  <2>1. handler \in [Handlers -> CommandHandlers] /\ handler[k] \in CommandHandlers
    BY <1>2 DEF TypeOK
  <2>2. \A f \in CommandHandlers :
          LET g == [f EXCEPT !.notify = TRUE, !.param = n] IN
          g \in CommandHandlers /\ g.active = f.active /\ g.posts = f.posts /\ g.notify /\ g.param = n
    BY <1>3 DEF CommandHandlers
  <2>3. handler' = [handler EXCEPT ![k] = [@ EXCEPT !.notify = TRUE, !.param = n]]
    BY <1>1, <1>2, <2>1
  <2>4. handler[k].posts = 0
    BY <1>2, <1>5
  <2> QED
    BY <1>2, <2>1, <2>2, <2>3, <2>4
<1>9. call'.pc = "requesting" /\ call'.kind = k /\ call'.op = n
      /\ call' \in [pc : {"none", "requesting", "starting", "completing", "stop", "stopping"},
                    kind : Handlers, op : {NoOp} \cup Ops]
  BY <1>1, <1>2, <1>3
<1>10. TypeOK'
  <2>1. message' \in {NoMessage} \cup Commands /\ running' \subseteq DOMAIN kinds'
    BY <1>1, <1>2, <1>3, <1>4 DEF TypeOK
  <2> QED
    BY <1>1, <1>2, <1>3, <1>8, <1>9, <2>1 DEF TypeOK
<1>11. \A j \in Streams : handler'[j] = handler[j]
  BY <1>2, <1>8 DEF Handlers, Kinds
<1>12. CallInv'
  <2>1. ASSUME NEW j \in DOMAIN kinds' PROVE j <= handler'[kinds'[j]].param
    <3>1. CASE kinds'[j] = k
      BY <1>3, <1>8, <3>1, <2>1, Basics, <1>2
    <3>2. CASE kinds'[j] # k
      <4>1. j \in DOMAIN kinds /\ kinds'[j] = kinds[j] /\ kinds[j] \in Handlers
        BY <1>2, <1>3, <2>1, <3>2, Basics DEF Handlers
      <4> QED
        BY <1>8, <3>2, <4>1 DEF IInv, CallInv
    <3> QED
      BY <3>1, <3>2
  <2>2. ASSUME NEW j \in Kinds, handler'[j].param # NoOp \/ handler'[j].active
        PROVE  handler'[j].param \in DOMAIN kinds' /\ kinds'[handler'[j].param] = j
    <3>1. CASE j = k
      BY <1>3, <1>8, <3>1
    <3>2. CASE j # k
      <4>1. handler'[j] = handler[j]
        BY <1>8, <3>2 DEF Handlers
      <4> QED
        BY <1>3, <2>2, <4>1 DEF IInv, CallInv
    <3> QED
      BY <3>1, <3>2
  <2>3. \A j \in running : kinds'[j] \in Streams /\ handler'[kinds'[j]].param = j
    BY <1>3, <1>11, RunningTasks
  <2> QED
    BY <1>1, <1>3, <1>8, <1>9, <2>1, <2>2, <2>3 DEF CallInv, In
<1>13. MessageInv'
  BY <1>1, <1>3, <1>4, <1>8, <1>9 DEF MessageInv, In
<1>14. \A j : Silent(j)' <=> Silent(j)
  BY <1>1 DEF Silent
<1>15. PostInv'
  <2>1. \A j \in Handlers : handler'[j].posts = 0
    BY <1>5, <1>8
  <2>2. \A j \in Handlers : handler'[j].notify => (j \in Kinds /\ Silent(j)') \/ j = k
    BY <1>5, <1>8, <1>14
  <2>3. \A j \in Streams : handler'[j].notify => handler'[j].active
    BY <1>11 DEF IInv, PostInv
  <2> QED
    BY <1>2, <1>8, <1>9, <2>1, <2>2, <2>3 DEF PostInv, PostsAwaited, In, Posted
<1>16. \A j \in Ops : /\ Stream(j)' <=> Stream(j)
                      /\ Stream(j) => kinds'[j] = kinds[j] /\ (Open(j)' <=> Open(j))
  <2>1. \A j \in Ops : Stream(j)' <=> Stream(j)
    BY <1>2, <1>3 DEF Stream
  <2> QED
    BY <1>3, <1>11, <2>1 DEF Stream, Open
<1>17. ASSUME alive PROVE Doomed' <=> Doomed
  BY <1>1, <1>2, <1>3, <1>7 DEF Doomed, Streams
<1>18. ASSUME alive PROVE QueueInv' /\ ThreadInv' /\ UnitInv'
  <2>1. QueueInv /\ ThreadInv /\ UnitInv
    BY <1>18 DEF IInv, DeviceInv
  <2>2. \A y \in Range(Queue) : Before(y, m)
    <3> SUFFICES ASSUME NEW y \in Range(Queue) PROVE y.op < n
      BY <1>4 DEF Before
    <3> QED
      BY <1>3, <2>1 DEF QueueInv
  <2>3. Ordered(Queue)'
    <3>1. Ordered(Append(Queue, m))
      BY <1>4, <1>6, <2>1, <2>2, OrderAppend DEF QueueInv
    <3> QED
      BY <1>6, <3>1 DEF Ordered
  <2>4. \A x \in Range(Queue') :
          /\ x.op \in DOMAIN kinds' /\ x.kind = kinds'[x.op]
          /\ x.cmd = "request" <=> x.kind \in Requests
    BY <1>3, <1>4, <1>6, <2>1 DEF QueueInv
  <2>5. \A j \in Ops : thread[j] # "none" => Stream(j) /\ kinds'[j] = kinds[j] /\ kinds[j] \in Streams
    BY <1>16, <2>1 DEF QueueInv, Stream
  <2>6. ASSUME NEW j \in Ops, NEW x \in Range(Queue'), thread[j] # "none", x.kind = kinds'[j]
        PROVE  j <= x.op
    <3>1. x \in Range(Queue) /\ x.kind = kinds[j]
      BY <1>2, <1>4, <1>6, <2>5, <2>6
    <3> QED
      BY <2>1, <2>6, <3>1 DEF QueueInv
  <2>7. QueueInv'
    BY <1>1, <1>7, <1>16, <2>1, <2>3, <2>4, <2>6 DEF QueueInv
  <2>8. \A j \in Ops : /\ Active(j)' <=> Active(j)
                       /\ Active(j) => kinds'[j] = kinds[j]
                       /\ Stream(j) => (Quits(kinds[j])' <=> Quits(kinds[j]))
    BY <1>1, <1>3, <1>16, <2>5 DEF Active, Stream, Quits
  <2>9. /\ \A j \in Streams : threadOf[j] # NoOp => Stream(threadOf[j])' /\ kinds'[threadOf[j]] = j
        /\ \A j \in Streams : unit[j] # NoOp => Stream(unit[j])' /\ kinds'[unit[j]] = j
    BY <1>1, <1>3, <2>1 DEF ThreadInv, UnitInv, Stream
  <2>11. (Quits("recording")' <=> Quits("recording")) /\ (Quits("playback")' <=> Quits("playback"))
    BY <1>1 DEF Quits
  <2>12. ThreadInv'
    <3>1. \A j \in Ops : Active(j)' => threadOf[kinds'[j]] = j
      BY <2>1, <2>8 DEF ThreadInv
    <3>2. ASSUME NEW j \in Ops, Stream(j)', ~Open(j)'
          PROVE  \/ Sent("stop", j)' \/ thread[j] \in {"replied", "over"}
                 \/ Quits(kinds[j])' /\ thread[j] # "none"
                 \/ kinds'[j] = "playback" /\ Doomed'
      <4>1. Stream(j) /\ ~Open(j) /\ kinds'[j] = kinds[j]
        BY <1>16, <3>2
      <4>2. \/ Sent("stop", j) \/ thread[j] \in {"replied", "over"}
            \/ Quits(kinds[j]) /\ thread[j] # "none"
            \/ kinds[j] = "playback" /\ Doomed
        BY <2>1, <4>1 DEF ThreadInv
      <4> QED
        BY <1>7, <1>17, <1>18, <2>8, <4>1, <4>2
    <3>3. \A j \in Ops : Stream(j)' /\ Open(j)' => ~Sent("stop", j)' /\ (Quits(kinds[j])' => thread[j] = "none")
      BY <1>7, <1>16, <2>1, <2>8 DEF ThreadInv
    <3>4. listening => \A j \in Ops : Stream(j)' /\ kinds'[j] = "recording" => ~Sent("stop", j)'
      BY <1>7, <1>16, <2>1 DEF ThreadInv
    <3> QED
      BY <1>1, <2>1, <2>9, <2>11, <3>1, <3>2, <3>3, <3>4 DEF ThreadInv
  <2>13. UnitInv'
    BY <1>1, <2>1, <2>8, <2>9, <2>11 DEF UnitInv
  <2> QED
    BY <2>7, <2>12, <2>13
<1>19. ASSUME NEW r \in Range(toHost) PROVE GoodReply(r)'
  <2>1. GoodReply(r)
    BY DEF IInv, ReplyInv
  <2>2. CASE ~Started(r)
    BY <2>1, <2>2 DEF GoodReply, Started
  <2>3. CASE Started(r)
    <3>1. Stream(r.op) /\ r.op \in Ops
      BY <1>2, <2>1, <2>3, Basics DEF GoodReply, Stream
    <3>2. Stream(r.op)' /\ kinds'[r.op] = kinds[r.op] /\ (Open(r.op)' <=> Open(r.op))
      BY <1>16, <3>1
    <3> QED
      BY <1>1, <1>17, <2>1, <2>3, <3>2 DEF GoodReply, Started
  <2> QED
    BY <2>2, <2>3
<1>20. ReplyInv'
  <2>1. (\A r \in Range(toHost) : GoodReply(r))'
    BY <1>1, <1>19
  <2> QED
    BY <1>1, <1>9, <2>1 DEF IInv, ReplyInv, In, Distinct
<1>21. RequestInv'
  BY <1>1, <1>5, <1>7, <1>8, <1>9 DEF IInv, RequestInv, Distinct, In, Posted
<1>22. DueInv'
  <2> SUFFICES ASSUME alive, listening PROVE DueInv'
    BY <1>1 DEF DueInv
  <2>1. ASSUME NEW j \in Requests, handler'[j].notify
        PROVE  Sent("request", handler[j].param)' \/ \E r \in Range(toHost) : r.kind = j /\ r.cmd # "stop"
    <3>0. \A p : p = handler'[j].param => (Sent("request", handler[j].param)' <=> Sent("request", p)')
      BY DEF Sent
    <3>1. CASE j = k
      BY <1>7, <1>8, <3>0, <3>1
    <3>2. CASE j # k
      <4>1. handler'[j] = handler[j]
        BY <1>8, <3>2 DEF Handlers, Kinds
      <4>2. \/ Sent("request", handler[j].param)
            \/ \E r \in Range(toHost) : r.kind = j /\ r.cmd # "stop"
        BY <2>1, <4>1 DEF IInv, DueInv
      <4> QED
        BY <1>7, <3>0, <4>1, <4>2
    <3> QED
      BY <3>1, <3>2
  <2>2. \A j \in Ops : Stream(j)' /\ Open(j)' => Stream(j) /\ Open(j) /\ kinds'[j] = kinds[j]
    BY <1>16
  <2> QED
    BY <1>1, <2>1, <2>2 DEF IInv, DueInv
<1>23. RecordedInv'
  <2>1. \A j \in Ops \ DOMAIN kinds' : outcome[j] = "none" /\ data[j] = NoOp
    BY <1>3 DEF IInv, RecordedInv
  <2>2. \A j \in running : j \in DOMAIN kinds
             /\ (kinds'[j] = "recording" /\ ~handler'["recording"].active => j \in replied)
    BY <1>1, <1>3, <1>11, RunningTasks DEF In, Streams
  <2> QED
    BY <1>1, <1>9, <2>1, <2>2 DEF RecordedInv, In
<1>24. RecordingIsOwn' /\ TimesOutOnlyDeaf'
  BY <1>1, <1>3 DEF IInv, RecordingIsOwn, TimesOutOnlyDeaf, Successful
<1> QED
  BY <1>1, <1>10, <1>12, <1>13, <1>15, <1>18, <1>20, <1>21, <1>22, <1>23, <1>24 DEF IInv, DeviceInv

\* A playback or a recording is begun.
LEMMA StartStep ==
  ASSUME IInv, NEW k \in Streams, Start(k)
  PROVE  IInv'
<1>0. PICK n : n = New
  OBVIOUS
<1> DEFINE m == [cmd |-> "start", kind |-> k, op |-> n]
<1>1. /\ Free /\ call.pc = "none" /\ call' = [pc |-> "starting", kind |-> k, op |-> n]
      /\ handler' = [handler EXCEPT ![k].active = TRUE, ![k].param = n]
      /\ ~handler[k].active /\ (\A j \in running : kinds[j] # k)
      /\ message' = m /\ kinds' = Append(kinds, k) /\ running' = running /\ registered' = registered
      /\ outcome' = outcome /\ listening' = listening /\ data' = data /\ toDevice' = toDevice
      /\ toHost' = toHost
      /\ alive' = alive /\ server' = server /\ thread' = thread /\ threadOf' = threadOf
      /\ unit' = unit /\ released' = released /\ replied' = replied
  BY <1>0 DEF Start, In, Free, Goto, SendCommand, deviceVars, threadVars
<1>2. TypeOK /\ k \in Kinds /\ k \in Handlers /\ k \notin Requests
  BY DEF IInv, Kinds, Handlers, Requests, Streams
<1>3. /\ n \in Ops /\ n \notin DOMAIN kinds /\ DOMAIN kinds' = DOMAIN kinds \cup {n}
      /\ kinds'[n] = k /\ \A j \in DOMAIN kinds : kinds'[j] = kinds[j] /\ j <= n /\ j < n
      /\ kinds' \in Seq(Kinds) /\ Len(kinds') <= MaxOps
      /\ outcome[n] = "none" /\ data[n] = NoOp
      /\ \A j \in DOMAIN kinds : j \in Ops
  BY <1>0, <1>1, <1>2, Begun
<1>4. m \in Commands /\ m.cmd = "start" /\ m.kind = k /\ m.op = n
  BY <1>2, <1>3 DEF Commands
<1> HIDE DEF m
<1>5. /\ message = NoMessage
      /\ \A j \in Handlers : handler[j].posts = 0
      /\ \A j \in Handlers : handler[j].notify => j \in Kinds /\ Silent(j)
      /\ listening => \A r \in Range(toHost) : r.cmd # "request"
      /\ listening /\ alive => \A j \in Ops : ~Sent("request", j)
  BY <1>1, Unblocked DEF In
<1>6. /\ Queue' = Append(Queue, m) /\ Queue \in Seq(Commands)
      /\ \A x : x \in Range(Queue') <=> x \in Range(Queue) \/ x = m
      /\ \A c, j : Sent(c, j)' <=> Sent(c, j) \/ (c = m.cmd /\ j = m.op)
  BY <1>1, <1>2, <1>4, <1>5, QueueSends
<1>7. /\ \A c, j : c # "start" => (Sent(c, j)' <=> Sent(c, j))
      /\ \A j : Sent("start", j)' <=> Sent("start", j) \/ j = n
  BY <1>4, <1>6
<1>8. /\ handler' \in [Handlers -> CommandHandlers]
      /\ \A j \in Handlers : j # k => handler'[j] = handler[j]
      /\ handler'[k].notify = handler[k].notify /\ handler'[k].posts = 0
      /\ handler'[k].active /\ handler'[k].param = n
  <2>1. handler \in [Handlers -> CommandHandlers] /\ handler[k] \in CommandHandlers
    BY <1>2 DEF TypeOK
  <2>2. \A f \in CommandHandlers :
          LET g == [f EXCEPT !.active = TRUE, !.param = n] IN
          g \in CommandHandlers /\ g.notify = f.notify /\ g.posts = f.posts /\ g.active /\ g.param = n
    BY <1>3 DEF CommandHandlers
  <2>3. handler' = [handler EXCEPT ![k] = [@ EXCEPT !.active = TRUE, !.param = n]]
    BY <1>1, <1>2, <2>1
  <2>4. handler[k].posts = 0
    BY <1>2, <1>5
  <2> QED
    BY <1>2, <2>1, <2>2, <2>3, <2>4
<1>9. call'.pc = "starting" /\ call'.kind = k /\ call'.op = n
      /\ call' \in [pc : {"none", "requesting", "starting", "completing", "stop", "stopping"},
                    kind : Handlers, op : {NoOp} \cup Ops]
  BY <1>1, <1>2, <1>3
<1>10. TypeOK'
  <2>1. message' \in {NoMessage} \cup Commands /\ running' \subseteq DOMAIN kinds'
    BY <1>1, <1>2, <1>3, <1>4 DEF TypeOK
  <2> QED
    BY <1>1, <1>2, <1>3, <1>8, <1>9, <2>1 DEF TypeOK
<1>11. \A j \in Requests : handler'[j] = handler[j]
  BY <1>2, <1>8 DEF Handlers, Kinds
<1>12. CallInv'
  <2>1. ASSUME NEW j \in DOMAIN kinds' PROVE j <= handler'[kinds'[j]].param
    <3>1. CASE kinds'[j] = k
      BY <1>3, <1>8, <3>1, <2>1, Basics, <1>2
    <3>2. CASE kinds'[j] # k
      <4>1. j \in DOMAIN kinds /\ kinds'[j] = kinds[j] /\ kinds[j] \in Handlers
        BY <1>2, <1>3, <2>1, <3>2, Basics DEF Handlers
      <4> QED
        BY <1>8, <3>2, <4>1 DEF IInv, CallInv
    <3> QED
      BY <3>1, <3>2
  <2>2. ASSUME NEW j \in Kinds, handler'[j].param # NoOp \/ handler'[j].active
        PROVE  handler'[j].param \in DOMAIN kinds' /\ kinds'[handler'[j].param] = j
    <3>1. CASE j = k
      BY <1>3, <1>8, <3>1
    <3>2. CASE j # k
      <4>1. handler'[j] = handler[j]
        BY <1>8, <3>2 DEF Handlers
      <4> QED
        BY <1>3, <2>2, <4>1 DEF IInv, CallInv
    <3> QED
      BY <3>1, <3>2
  <2>3. \A j \in running : kinds'[j] \in Streams /\ handler'[kinds'[j]].param = j
    BY <1>1, <1>3, <1>8, RunningTasks
  <2> QED
    BY <1>1, <1>3, <1>8, <1>9, <2>1, <2>2, <2>3 DEF CallInv, In
<1>13. MessageInv'
  BY <1>1, <1>3, <1>4, <1>8, <1>9 DEF MessageInv, In
<1>14. \A j : Silent(j)' <=> Silent(j)
  BY <1>1 DEF Silent
<1>15. PostInv'
  <2>1. \A j \in Handlers : handler'[j].posts = 0
    BY <1>5, <1>8
  <2>2. \A j \in Handlers : handler'[j].notify => j \in Kinds /\ Silent(j)'
    BY <1>2, <1>5, <1>8, <1>14
  <2>3. \A j \in Streams : handler'[j].notify => handler'[j].active
    BY <1>8 DEF IInv, PostInv, Handlers, Kinds
  <2> QED
    BY <1>9, <2>1, <2>2, <2>3 DEF PostInv, PostsAwaited, In
<1>16. /\ \A j \in Ops : /\ j # n => (Stream(j)' <=> Stream(j))
                         /\ Stream(j) => kinds'[j] = kinds[j] /\ (Open(j)' <=> Open(j) /\ kinds[j] # k)
                         /\ Stream(j) => ((~Open(j))' => ~Open(j))
       /\ Stream(n)' /\ Open(n)' /\ ~Stream(n)
  <2>1. /\ \A j \in Ops : j # n => (Stream(j)' <=> Stream(j))
        /\ Stream(n)' /\ ~Stream(n)
    BY <1>3 DEF Stream
  <2>2. Open(n)'
    BY <1>3, <1>8 DEF Open
  <2>3. ASSUME NEW j \in Ops, Stream(j)
        PROVE  kinds'[j] = kinds[j] /\ (Open(j)' <=> Open(j) /\ kinds[j] # k) /\ ((~Open(j))' => ~Open(j))
    <3>1. kinds'[j] = kinds[j] /\ j # n
      BY <1>3, <2>3 DEF Stream
    <3>2. CASE kinds[j] = k
      BY <1>1, <1>8, <3>1, <3>2 DEF Open
    <3>3. CASE kinds[j] # k
      <4>1. handler'[kinds[j]] = handler[kinds[j]]
        BY <1>8, <2>3, <3>3 DEF Stream, Handlers, Kinds
      <4> QED
        BY <3>1, <3>3, <4>1 DEF Open
    <3> QED
      BY <3>2, <3>3
  <2> QED
    BY <2>1, <2>2, <2>3
<1>17. ASSUME alive PROVE /\ thread[n] = "none" /\ \A c : ~Sent(c, n)
                          /\ Doomed => Doomed'
  <2>1. thread[n] = "none" /\ \A c : ~Sent(c, n)
    BY <1>0, <1>1, <1>3, <1>17, BegunFresh
  <2>2. Doomed => Doomed'
    BY <1>1, <1>3, <1>7, <2>1 DEF Doomed
  <2> QED
    BY <2>1, <2>2
<1>18. ASSUME alive PROVE QueueInv' /\ ThreadInv' /\ UnitInv'
  <2>1. QueueInv /\ ThreadInv /\ UnitInv
    BY <1>18 DEF IInv, DeviceInv
  <2>2. \A y \in Range(Queue) : Before(y, m)
    <3> SUFFICES ASSUME NEW y \in Range(Queue) PROVE y.op < n
      BY <1>4 DEF Before
    <3> QED
      BY <1>3, <2>1 DEF QueueInv
  <2>3. Ordered(Queue)'
    <3>1. Ordered(Append(Queue, m))
      BY <1>4, <1>6, <2>1, <2>2, OrderAppend DEF QueueInv
    <3> QED
      BY <1>6, <3>1 DEF Ordered
  <2>4. \A x \in Range(Queue') :
          /\ x.op \in DOMAIN kinds' /\ x.kind = kinds'[x.op]
          /\ x.cmd = "request" <=> x.kind \in Requests
    BY <1>2, <1>3, <1>4, <1>6, <2>1 DEF QueueInv
  <2>5. \A j \in Ops : thread[j] # "none" => Stream(j) /\ j # n /\ kinds'[j] = kinds[j] /\ j \in DOMAIN kinds
    BY <1>16, <2>1 DEF QueueInv, Stream
  <2>6. ASSUME NEW j \in Ops, NEW x \in Range(Queue'), thread[j] # "none", x.kind = kinds'[j]
        PROVE  j <= x.op
    <3>1. CASE x = m
      BY <1>3, <1>4, <2>5, <2>6, <3>1
    <3>2. CASE x \in Range(Queue)
      BY <2>1, <2>5, <2>6, <3>2 DEF QueueInv
    <3> QED
      BY <1>6, <2>6, <3>1, <3>2
  <2>7. QueueInv'
    <3>1. \A j \in Ops : Stream(j)' /\ thread[j] = "none" <=> Sent("start", j)'
      BY <1>7, <1>16, <1>17, <1>18, <2>1 DEF QueueInv
    <3>2. \A j \in Ops : ~Stream(j)' => thread[j] = "none"
      BY <1>16, <2>1 DEF QueueInv
    <3> QED
      BY <1>1, <2>3, <2>4, <2>6, <3>1, <3>2 DEF QueueInv
  <2>8. \A j \in Ops : /\ Active(j)' <=> Active(j)
                       /\ Active(j) => kinds'[j] = kinds[j]
                       /\ Stream(j) => (Quits(kinds[j])' <=> Quits(kinds[j]))
    BY <1>1, <1>3, <1>16, <2>5 DEF Active, Stream, Quits
  <2>9. /\ \A j \in Streams : threadOf[j] # NoOp => Stream(threadOf[j])' /\ kinds'[threadOf[j]] = j
        /\ \A j \in Streams : unit[j] # NoOp => Stream(unit[j])' /\ kinds'[unit[j]] = j
    BY <1>1, <1>3, <2>1 DEF ThreadInv, UnitInv, Stream
  <2>11. (Quits("recording")' <=> Quits("recording")) /\ (Quits("playback")' <=> Quits("playback"))
    BY <1>1 DEF Quits
  <2>12. ThreadInv'
    <3>1. \A j \in Ops : Active(j)' => threadOf[kinds'[j]] = j
      BY <2>1, <2>8 DEF ThreadInv
    <3>2. ASSUME NEW j \in Ops, Stream(j)', ~Open(j)'
          PROVE  \/ Sent("stop", j)' \/ thread[j] \in {"replied", "over"}
                 \/ Quits(kinds[j])' /\ thread[j] # "none"
                 \/ kinds'[j] = "playback" /\ Doomed'
      <4>1. Stream(j) /\ ~Open(j) /\ kinds'[j] = kinds[j]
        BY <1>16, <3>2
      <4>2. \/ Sent("stop", j) \/ thread[j] \in {"replied", "over"}
            \/ Quits(kinds[j]) /\ thread[j] # "none"
            \/ kinds[j] = "playback" /\ Doomed
        BY <2>1, <4>1 DEF ThreadInv
      <4> QED
        BY <1>7, <1>17, <1>18, <2>8, <4>1, <4>2
    <3>3. ASSUME NEW j \in Ops, Stream(j)', Open(j)'
          PROVE  ~Sent("stop", j)' /\ (Quits(kinds[j])' => thread[j] = "none")
      <4>1. CASE j = n
        BY <1>7, <1>17, <1>18, <4>1
      <4>2. CASE j # n
        <5>1. Stream(j) /\ Open(j)
          BY <1>16, <3>3, <4>2
        <5> QED
          BY <1>7, <2>1, <2>8, <5>1 DEF ThreadInv
      <4> QED
        BY <4>1, <4>2
    <3>4. listening => \A j \in Ops : Stream(j)' /\ kinds'[j] = "recording" => ~Sent("stop", j)'
      BY <1>7, <1>16, <1>17, <1>18, <2>1 DEF ThreadInv
    <3> QED
      BY <1>1, <2>1, <2>9, <2>11, <3>1, <3>2, <3>3, <3>4 DEF ThreadInv
  <2>13. UnitInv'
    BY <1>1, <2>1, <2>8, <2>9, <2>11 DEF UnitInv
  <2> QED
    BY <2>7, <2>12, <2>13
<1>19. ASSUME NEW r \in Range(toHost) PROVE GoodReply(r)'
  <2>1. GoodReply(r)
    BY DEF IInv, ReplyInv
  <2>2. CASE ~Started(r)
    BY <2>1, <2>2 DEF GoodReply, Started
  <2>3. CASE Started(r)
    <3>1. Stream(r.op) /\ r.op \in Ops /\ r.kind = kinds[r.op]
      BY <1>2, <2>1, <2>3, Basics DEF GoodReply, Stream
    <3>2. Stream(r.op)' /\ kinds'[r.op] = kinds[r.op] /\ r.op # n
      BY <1>16, <3>1
    <3>3. Open(r.op) => Open(r.op)'
      <4>1. CASE kinds[r.op] = k
        BY <1>1, <4>1 DEF Open
      <4>2. CASE kinds[r.op] # k
        BY <1>16, <3>1, <4>2
      <4> QED
        BY <4>1, <4>2
    <3> QED
      BY <1>1, <1>17, <2>1, <2>3, <3>2, <3>3 DEF GoodReply, Started
  <2> QED
    BY <2>2, <2>3
<1>20. ReplyInv'
  <2>1. (\A r \in Range(toHost) : GoodReply(r))'
    BY <1>1, <1>19
  <2> QED
    BY <1>1, <1>9, <2>1 DEF IInv, ReplyInv, In, Distinct
<1>21. RequestInv'
  BY <1>1, <1>5, <1>7 DEF IInv, RequestInv, Distinct
<1>22. DueInv'
  <2> SUFFICES ASSUME alive, listening PROVE DueInv'
    BY <1>1 DEF DueInv
  <2>1. ASSUME NEW j \in Requests, handler'[j].notify
        PROVE  Sent("request", handler[j].param)' \/ \E r \in Range(toHost) : r.kind = j /\ r.cmd # "stop"
    <3>0. \A p : p = handler'[j].param => (Sent("request", handler[j].param)' <=> Sent("request", p)')
      BY DEF Sent
    <3>1. \/ Sent("request", handler[j].param)
          \/ \E r \in Range(toHost) : r.kind = j /\ r.cmd # "stop"
      BY <1>11, <2>1 DEF IInv, DueInv
    <3> QED
      BY <1>7, <1>11, <3>0, <3>1
  <2>2. ASSUME NEW j \in Ops, Stream(j)', Open(j)', thread[j] \in {"replied", "over"}
        PROVE  Stream(j) /\ Open(j) /\ kinds'[j] = kinds[j]
    <3>1. j # n
      BY <1>17, <2>2
    <3> QED
      BY <1>16, <2>2, <3>1
  <2> QED
    BY <1>1, <2>1, <2>2 DEF IInv, DueInv
<1>23. RecordedInv'
  <2>1. \A j \in Ops \ DOMAIN kinds' : outcome[j] = "none" /\ data[j] = NoOp
    BY <1>3 DEF IInv, RecordedInv
  <2>2. \A j \in running : j \in DOMAIN kinds
             /\ (kinds'[j] = "recording" /\ ~handler'["recording"].active => j \in replied)
    <3> SUFFICES ASSUME NEW j \in running
                 PROVE  j \in DOMAIN kinds
                        /\ (kinds'[j] = "recording" /\ ~handler'["recording"].active => j \in replied)
      OBVIOUS
    <3>1. j \in DOMAIN kinds /\ kinds'[j] = kinds[j] /\ kinds[j] # k
      BY <1>1, <1>3, RunningTasks
    <3>2. k # "recording" => handler'["recording"] = handler["recording"]
      BY <1>8 DEF Handlers, Kinds, Streams
    <3> QED
      BY <1>1, <3>1, <3>2, RunningTasks DEF In
  <2>3. kinds'[n] = "recording" => handler'["recording"].active
    BY <1>3, <1>8
  <2> QED
    BY <1>1, <1>9, <2>1, <2>2, <2>3 DEF RecordedInv, In
<1>24. RecordingIsOwn' /\ TimesOutOnlyDeaf'
  BY <1>1, <1>3 DEF IInv, RecordingIsOwn, TimesOutOnlyDeaf, Successful
<1> QED
  BY <1>1, <1>10, <1>12, <1>13, <1>15, <1>18, <1>20, <1>21, <1>22, <1>23, <1>24 DEF IInv, DeviceInv

-----------------------------------------------------------------------------
(* The looper's thread.                                                    *)

\* A command goes to the socket; the call that is blocked gets its post, or has
\* still to wait for the reply.
LEMMA HandleMessageStep ==
  ASSUME IInv, HandleMessage
  PROVE  IInv'
<1> PICK k : k = IF message.cmd = "stop" THEN "stop" ELSE message.kind
  OBVIOUS
<1>0. PICK ok \in BOOLEAN :
        handler' = [handler EXCEPT ![k].result = ok,
                                   ![k].posts = IF k \in Requests THEN @ ELSE @ + 1]
  BY DEF HandleMessage
<1>1. /\ message # NoMessage /\ message' = NoMessage
      /\ toDevice' = (IF alive THEN Append(toDevice, message) ELSE toDevice)
      /\ call' = call /\ kinds' = kinds /\ running' = running /\ registered' = registered
      /\ outcome' = outcome /\ listening' = listening /\ data' = data /\ toHost' = toHost
      /\ UNCHANGED deviceVars /\ alive' = alive /\ replied' = replied
  BY DEF HandleMessage, testVars, deviceVars
<1>2. TypeOK
  BY DEF IInv
<1>3. /\ k = call.kind /\ k \in Handlers /\ handler[k].posts = 0
      /\ \/ call.pc = "requesting" /\ k \in Requests
         \/ call.pc \in {"starting", "stopping"} /\ k \notin Requests
  <2>1. /\ message.op = call.op /\ message.kind = kinds[call.op] /\ handler[call.kind].posts = 0
        /\ \/ message.cmd = "request" /\ call.pc = "requesting"
           \/ message.cmd = "start" /\ call.pc = "starting"
           \/ message.cmd = "stop" /\ call.pc = "stopping"
    BY <1>1 DEF IInv, MessageInv, In
  <2>2. CASE message.cmd = "request" /\ call.pc = "requesting"
    BY <2>1, <2>2 DEF IInv, CallInv, In, Handlers, Kinds
  <2>3. CASE message.cmd = "start" /\ call.pc = "starting"
    BY <2>1, <2>3 DEF IInv, CallInv, In, Handlers, Kinds, Streams, Requests
  <2>4. CASE message.cmd = "stop" /\ call.pc = "stopping"
    BY <2>1, <2>4 DEF IInv, CallInv, In, Handlers, Requests
  <2> QED
    BY <2>1, <2>2, <2>3, <2>4
<1>4. /\ handler' \in [Handlers -> CommandHandlers]
      /\ \A j \in Handlers : j # k => handler'[j] = handler[j]
      /\ handler'[k].active = handler[k].active /\ handler'[k].notify = handler[k].notify
      /\ handler'[k].param = handler[k].param
      /\ handler'[k].posts = IF k \in Requests THEN 0 ELSE 1
  <2>1. handler \in [Handlers -> CommandHandlers] /\ handler[k] \in CommandHandlers
    BY <1>2, <1>3 DEF TypeOK
  <2> DEFINE p == IF k \in Requests THEN 0 ELSE 1
  <2>2. \A f \in CommandHandlers :
          LET g == [f EXCEPT !.result = ok, !.posts = p] IN
          g \in CommandHandlers /\ g.active = f.active /\ g.posts = p /\ g.notify = f.notify /\ g.param = f.param
    BY DEF CommandHandlers
  <2>3. handler' = [handler EXCEPT ![k] = [@ EXCEPT !.result = ok, !.posts = p]]
    <3>1. p = IF k \in Requests THEN handler[k].posts ELSE handler[k].posts + 1
      BY <1>3
    <3>2. handler' = [handler EXCEPT ![k] =
                        [@ EXCEPT !.result = ok,
                                  !.posts = IF k \in Requests THEN handler[k].posts ELSE handler[k].posts + 1]]
      BY <1>0, <1>3, <2>1 DEF CommandHandlers
    <3> QED
      BY <3>1, <3>2
  <2> HIDE DEF p
  <2>4. handler'[k] = [handler[k] EXCEPT !.result = ok, !.posts = p] /\ DOMAIN handler' = Handlers
    BY <1>3, <2>1, <2>3
  <2>5. handler'[k] \in CommandHandlers
    BY <2>1, <2>2, <2>4
  <2>6. handler' \in [Handlers -> CommandHandlers]
    BY <1>3, <2>1, <2>3, <2>4, <2>5
  <2> QED
    BY <1>3, <2>1, <2>2, <2>3, <2>4, <2>6 DEF p
<1>5. TypeOK'
  <2>1. toDevice' \in Seq(Commands)
    <3>1. toDevice \in Seq(Commands) /\ message \in Commands
      BY <1>1, <1>2 DEF TypeOK
    <3> QED
      BY <1>1, <3>1
  <2> QED
    BY <1>1, <1>2, <1>4, <2>1 DEF TypeOK, deviceVars, threadVars
<1>6. \A j \in Handlers : /\ handler'[j].active = handler[j].active
                          /\ handler'[j].param = handler[j].param
                          /\ handler'[j].notify = handler[j].notify
  BY <1>4
<1>7. \A j \in Kinds : j \in Handlers
  BY DEF Handlers
<1>8. /\ DeviceInv' /\ DueInv' /\ Distinct(toHost, "start")'
      /\ \A r \in Range(toHost) : GoodReply(r)'
  <2>1. alive => Queue' = Queue
    BY <1>1, <1>2, QueueMoves
  <2> QED
    BY <1>1, <1>6, <1>7, <2>1, HostFrame DEF Kinds
<1>9. CallInv'
  <2>1. \A j \in DOMAIN kinds : j <= handler'[kinds[j]].param
    BY <1>2, <1>6, <1>7, Basics DEF IInv, CallInv
  <2>2. \A j \in running : kinds[j] \in Streams /\ handler'[kinds[j]].param = j
    BY <1>6, RunningTasks
  <2>3. \A j \in Kinds : handler'[j].param # NoOp \/ handler'[j].active =>
          handler'[j].param \in DOMAIN kinds /\ kinds[handler'[j].param] = j
    BY <1>6, <1>7 DEF IInv, CallInv
  <2> QED
    BY <1>1, <1>3, <1>6, <2>1, <2>2, <2>3 DEF IInv, CallInv, In
<1>10. MessageInv'
  BY <1>1 DEF MessageInv
<1>11. \A j : Silent(j)' <=> Silent(j)
  BY <1>1 DEF Silent
<1>12. \A j \in Handlers : j # k => handler[j].posts = 0
  <2>1. \A j \in Handlers : handler[j].posts \in Nat
    BY <1>2 DEF TypeOK, CommandHandlers
  <2> QED
    BY <1>3, <2>1 DEF IInv, PostInv, PostsAwaited
<1>13. PostInv'
  <2>1. PostsAwaited'
    BY <1>1, <1>3, <1>4, <1>12 DEF PostsAwaited
  <2>2. \A j \in Handlers : handler'[j].notify =>
          \/ j \in Kinds /\ Silent(j)'
          \/ call.kind = j /\ call.pc \in {"requesting", "completing"} /\ handler'[j].posts = 0
    BY <1>3, <1>4, <1>11 DEF IInv, PostInv, In
  <2>3. \A j \in Streams : handler'[j].notify => handler'[j].active
    BY <1>6, <1>7 DEF IInv, PostInv, Kinds
  <2>4. call.pc = "requesting" => handler'[call.kind].notify /\ handler'[call.kind].posts = 0
    BY <1>3, <1>4 DEF IInv, PostInv, In, Posted
  <2> QED
    BY <1>1, <1>3, <2>1, <2>2, <2>3, <2>4 DEF PostInv, In, Posted
<1>14. ReplyInv'
  <2>1. (\A r \in Range(toHost) : GoodReply(r))'
    BY <1>1, <1>8
  <2>2. ~In("stop")'
    BY <1>1, <1>3 DEF In
  <2> QED
    BY <1>8, <2>1, <2>2 DEF ReplyInv
<1>15. RequestInv'
  <2>1. listening => \A r \in Range(toHost) : r.cmd # "request"
    BY <1>1 DEF IInv, RequestInv
  <2>2. alive => \A c, j : Sent(c, j)' <=> Sent(c, j)
    <3>1. alive => Queue' = Queue
      BY <1>1, <1>2, QueueMoves
    <3> QED
      BY <3>1 DEF Sent
  <2>3. Posted' => Posted \/ call.pc # "requesting"
    BY <1>1, <1>3, <1>4 DEF Posted
  <2> QED
    BY <1>1, <2>1, <2>2, <2>3 DEF IInv, RequestInv, Distinct, In
<1>16. RecordedInv' /\ RecordingIsOwn' /\ TimesOutOnlyDeaf'
  <2>1. handler'["recording"].active = handler["recording"].active
    BY <1>6 DEF Handlers, Kinds, Streams
  <2> QED
    BY <1>1, <2>1 DEF IInv, RecordedInv, RecordingIsOwn, TimesOutOnlyDeaf, In, Successful
<1> QED
  BY <1>5, <1>8, <1>9, <1>10, <1>13, <1>14, <1>15, <1>16 DEF IInv

\* The connection turns out to be closed.
LEMMA SeeClosedStep ==
  ASSUME IInv, SeeClosed
  PROVE  IInv'
<1>1. /\ listening' = FALSE /\ message' = message /\ handler' = handler /\ toDevice' = toDevice
      /\ call' = call /\ kinds' = kinds /\ running' = running /\ registered' = registered
      /\ outcome' = outcome /\ data' = data /\ toHost' = toHost
      /\ UNCHANGED deviceVars /\ alive' = alive /\ replied' = replied
  BY DEF SeeClosed, testVars, deviceVars
<1>2. TypeOK'
  BY <1>1 DEF IInv, TypeOK, deviceVars, threadVars
<1>3. Queue' = Queue
  BY <1>1 DEF Queue
<1>4. /\ DeviceInv' /\ DueInv' /\ Distinct(toHost, "start")'
      /\ \A r \in Range(toHost) : GoodReply(r)'
  BY <1>1, <1>3, HostFrame
<1>5. CallInv' /\ MessageInv'
  BY <1>1 DEF IInv, CallInv, MessageInv, In
<1>6. \A j : Silent(j)'
  BY <1>1 DEF Silent
<1>7. PostInv'
  BY <1>1, <1>6 DEF IInv, PostInv, PostsAwaited, In, Posted
<1>8. ReplyInv'
  <2>1. (\A r \in Range(toHost) : GoodReply(r))'
    BY <1>1, <1>4
  <2> QED
    BY <1>4, <1>6, <2>1 DEF ReplyInv
<1>9. RequestInv' /\ RecordedInv' /\ RecordingIsOwn' /\ TimesOutOnlyDeaf'
  BY <1>1 DEF IInv, RequestInv, RecordedInv, RecordingIsOwn, TimesOutOnlyDeaf, In, Successful
<1> QED
  BY <1>2, <1>4, <1>5, <1>7, <1>8, <1>9 DEF IInv

\* While the device does nothing, its invariant holds if the host stops waiting
\* only for operations that are over or that the client will crash on.
LEMMA DeviceStands ==
  ASSUME IInv, UNCHANGED deviceVars, kinds' = kinds, message' = message, toDevice' = toDevice,
         listening' => listening,
         \A n \in Ops : Stream(n) => (Open(n)' => Open(n)),
         alive => \A n \in Ops : Stream(n) /\ Open(n) =>
           Open(n)' \/ thread[n] \in {"replied", "over"} \/ (kinds[n] = "playback" /\ Doomed)
  PROVE  /\ DeviceInv' /\ (Doomed' <=> Doomed)
         /\ \A c, n : Sent(c, n)' <=> Sent(c, n)
<1>1. /\ alive' = alive /\ server' = server /\ thread' = thread /\ threadOf' = threadOf
      /\ unit' = unit /\ released' = released /\ replied' = replied
  BY DEF deviceVars, threadVars
<1>2. Queue' = Queue
  BY DEF Queue
<1>3. \A c, n : Sent(c, n)' <=> Sent(c, n)
  BY <1>2 DEF Sent
<1>4. Doomed' <=> Doomed
  BY <1>1, <1>3 DEF Doomed
<1>5. \A n \in Ops : /\ Stream(n)' <=> Stream(n)
                     /\ Active(n)' <=> Active(n)
                     /\ Quits(kinds[n])' <=> Quits(kinds[n])
  BY <1>1 DEF Stream, Active, Quits
<1>6. DeviceInv'
  <2> SUFFICES ASSUME alive PROVE QueueInv' /\ ThreadInv' /\ UnitInv'
    BY <1>1 DEF DeviceInv
  <2>1. QueueInv /\ ThreadInv /\ UnitInv
    BY DEF IInv, DeviceInv
  <2>2. QueueInv'
    BY <1>1, <1>2, <1>3, <1>5, <2>1 DEF QueueInv
  <2>3. \A k \in Streams : threadOf[k] # NoOp => Stream(threadOf[k])'
    BY <1>1, <2>1 DEF ThreadInv, Stream
  <2>4. \A k \in Streams : unit[k] # NoOp => Stream(unit[k])'
    BY <1>1, <2>1 DEF UnitInv, Stream
  <2>5. Quits("recording")' <=> Quits("recording")
    BY <1>1 DEF Quits
  <2>6. ASSUME NEW n \in Ops, Stream(n), ~Open(n)'
        PROVE  \/ Sent("stop", n) \/ thread[n] \in {"replied", "over"}
               \/ Quits(kinds[n]) /\ thread[n] # "none"
               \/ kinds[n] = "playback" /\ Doomed
    BY <2>1, <2>6 DEF ThreadInv
  <2>7. ThreadInv'
    BY <1>1, <1>3, <1>4, <1>5, <2>1, <2>3, <2>5, <2>6 DEF ThreadInv
  <2>8. Quits("playback")' <=> Quits("playback")
    BY <1>1 DEF Quits
  <2>9. UnitInv'
    BY <1>1, <1>5, <2>1, <2>4, <2>8 DEF UnitInv
  <2> QED
    BY <2>2, <2>7, <2>9
<1> QED
  BY <1>3, <1>4, <1>6

\* The handler of a reply: what it is set for, and that it is notified.
LEMMA PacketTaken ==
  ASSUME IInv, HandlePacket, NEW r, r = Head(toHost)
  PROVE  /\ r \in Replies /\ r \in Range(toHost) /\ GoodReply(r) /\ toHost' \in Seq(Replies)
         /\ \A y : y \in Range(toHost) <=> y = r \/ y \in Range(toHost')
         /\ Distinct(toHost, "start")' /\ Distinct(toHost, "request")'
         /\ \A y \in Range(toHost') : y.cmd = r.cmd /\ r.cmd # "stop" => y.op # r.op
         /\ handler' \in [Handlers -> CommandHandlers]
         /\ \A j \in Handlers :
              \/ handler'[j] = handler[j] /\ (j # r.kind \/ r.cmd = "stop")
              \/ /\ j = r.kind /\ r.cmd # "stop"
                 /\ ~handler'[j].active /\ ~handler'[j].notify
                 /\ handler[j].notify => handler'[j].result = r.ok /\ handler'[j].posts = handler[j].posts + 1
                 /\ ~handler[j].notify => handler'[j].result = handler[j].result /\ handler'[j].posts = handler[j].posts
         /\ \A j \in Handlers : handler'[j].param = handler[j].param
<1>1. /\ TypeOK /\ toHost \in Seq(Replies) /\ toHost # <<>> /\ toHost' = Tail(toHost) /\ listening
      /\ handler' = IF r.cmd = "stop" THEN handler ELSE [handler EXCEPT ![r.kind] = Notified(@, r.ok)]
  BY DEF HandlePacket, IInv, TypeOK
<1>2. /\ r \in Replies /\ r \in Range(toHost) /\ toHost' \in Seq(Replies)
      /\ \A y : y \in Range(toHost) <=> y = r \/ y \in Range(toHost')
  BY <1>1, RangeTail
<1>3. GoodReply(r) /\ Distinct(toHost, "start") /\ Distinct(toHost, "request")
  BY <1>1, <1>2 DEF IInv, ReplyInv, RequestInv
<1>4. /\ Distinct(Tail(toHost), "start") /\ Distinct(Tail(toHost), "request")
      /\ \A y \in Range(Tail(toHost)) : r.cmd \in {"start", "request"} /\ y.cmd = r.cmd => y.op # r.op
  BY <1>1, <1>3, DistinctTail
<1>5. Distinct(toHost, "start")' /\ Distinct(toHost, "request")'
  BY <1>1, <1>4 DEF Distinct
<1>6. r.cmd \in {"request", "start", "stop"} /\ r.kind \in Handlers /\ r.ok \in BOOLEAN
  BY <1>2 DEF Replies, Handlers
<1>7. handler \in [Handlers -> CommandHandlers]
  BY <1>1 DEF TypeOK
<1>8. \A f \in CommandHandlers :
        LET g == Notified(f, r.ok) IN
        /\ g \in CommandHandlers /\ ~g.active /\ ~g.notify /\ g.param = f.param
        /\ f.notify => g.result = r.ok /\ g.posts = f.posts + 1
        /\ ~f.notify => g.result = f.result /\ g.posts = f.posts
  <2> SUFFICES ASSUME NEW f \in CommandHandlers, NEW g, g = Notified(f, r.ok)
               PROVE  /\ g \in CommandHandlers /\ ~g.active /\ ~g.notify /\ g.param = f.param
                      /\ f.notify => g.result = r.ok /\ g.posts = f.posts + 1
                      /\ ~f.notify => g.result = f.result /\ g.posts = f.posts
    OBVIOUS
  <2>1. CASE f.notify
    <3>1. g = [f EXCEPT !.active = FALSE, !.notify = FALSE, !.result = r.ok, !.posts = f.posts + 1]
      BY <2>1 DEF Notified, CommandHandlers
    <3>2. f.posts + 1 \in Nat
      BY DEF CommandHandlers
    <3> QED
      BY <1>6, <2>1, <3>1, <3>2 DEF CommandHandlers
  <2>2. CASE ~f.notify
    <3>1. g = [f EXCEPT !.active = FALSE, !.notify = FALSE]
      BY <2>2 DEF Notified, CommandHandlers
    <3> QED
      BY <2>2, <3>1 DEF CommandHandlers
  <2> QED
    BY <2>1, <2>2
<1>9. \A j \in Handlers : handler[j] \in CommandHandlers
  BY <1>7
<1>10. CASE r.cmd = "stop"
  BY <1>1, <1>2, <1>3, <1>4, <1>5, <1>7, <1>10
<1>11. CASE r.cmd # "stop"
  <2>1. handler' = [handler EXCEPT ![r.kind] = Notified(@, r.ok)]
    BY <1>1, <1>11
  <2>2. /\ handler'[r.kind] = Notified(handler[r.kind], r.ok)
        /\ \A j \in Handlers : j # r.kind => handler'[j] = handler[j]
    BY <1>6, <1>7, <2>1
  <2>3. handler[r.kind] \in CommandHandlers /\ Notified(handler[r.kind], r.ok) \in CommandHandlers
    BY <1>6, <1>8, <1>9
  <2>4. handler' \in [Handlers -> CommandHandlers]
    BY <1>6, <1>7, <2>1, <2>3
  <2>5. /\ ~handler'[r.kind].active /\ ~handler'[r.kind].notify
        /\ handler'[r.kind].param = handler[r.kind].param
        /\ handler[r.kind].notify =>
             handler'[r.kind].result = r.ok /\ handler'[r.kind].posts = handler[r.kind].posts + 1
        /\ ~handler[r.kind].notify =>
             handler'[r.kind].result = handler[r.kind].result /\ handler'[r.kind].posts = handler[r.kind].posts
    BY <1>8, <2>2, <2>3
  <2>6. \A y \in Range(toHost') : y.cmd = r.cmd => y.op # r.op
    BY <1>1, <1>4, <1>6, <1>11
  <2>7. \A j \in Handlers :
          /\ \/ handler'[j] = handler[j] /\ j # r.kind
             \/ /\ j = r.kind
                /\ ~handler'[j].active /\ ~handler'[j].notify
                /\ handler[j].notify => handler'[j].result = r.ok /\ handler'[j].posts = handler[j].posts + 1
                /\ ~handler[j].notify => handler'[j].result = handler[j].result /\ handler'[j].posts = handler[j].posts
          /\ handler'[j].param = handler[j].param
    <3> SUFFICES ASSUME NEW j \in Handlers
                 PROVE  /\ \/ handler'[j] = handler[j] /\ j # r.kind
                           \/ /\ j = r.kind
                              /\ ~handler'[j].active /\ ~handler'[j].notify
                              /\ handler[j].notify =>
                                   handler'[j].result = r.ok /\ handler'[j].posts = handler[j].posts + 1
                              /\ ~handler[j].notify =>
                                   handler'[j].result = handler[j].result /\ handler'[j].posts = handler[j].posts
                        /\ handler'[j].param = handler[j].param
      OBVIOUS
    <3>1. CASE j = r.kind
      BY <2>5, <3>1
    <3>2. CASE j # r.kind
      BY <2>2, <3>2
    <3> QED
      BY <3>1, <3>2
  <2> QED
    BY <1>2, <1>3, <1>5, <1>11, <2>4, <2>6, <2>7
<1> QED
  BY <1>10, <1>11

\* A reply ends what its handler is set for, and wakes the call that waits for
\* it: though it does not say whose it is, it is not taken for another's.
LEMMA HandlePacketStep ==
  ASSUME IInv, HandlePacket
  PROVE  IInv'
<1> PICK r : r = Head(toHost)
  OBVIOUS
<1> DEFINE k == r.kind
           hit == r.cmd # "stop"
<1>1. /\ listening /\ listening' = r.ok /\ message' = message /\ toDevice' = toDevice
      /\ data' = (IF r.cmd = "start" /\ r.kind = "recording" /\ r.ok
                  THEN [data EXCEPT ![handler[r.kind].param] = r.op] ELSE data)
      /\ call' = call /\ kinds' = kinds /\ running' = running /\ registered' = registered
      /\ outcome' = outcome /\ UNCHANGED deviceVars /\ alive' = alive /\ replied' = replied
      /\ thread' = thread /\ unit' = unit /\ released' = released
  BY DEF HandlePacket, testVars, deviceVars, threadVars
<1>2. /\ r \in Replies /\ r \in Range(toHost) /\ GoodReply(r) /\ toHost' \in Seq(Replies)
      /\ \A y : y \in Range(toHost) <=> y = r \/ y \in Range(toHost')
      /\ Distinct(toHost, "start")' /\ Distinct(toHost, "request")'
      /\ \A y \in Range(toHost') : y.cmd = r.cmd /\ hit => y.op # r.op
      /\ handler' \in [Handlers -> CommandHandlers]
  BY PacketTaken
<1>3. /\ \A j \in Handlers :
           \/ handler'[j] = handler[j] /\ (j # k \/ ~hit)
           \/ /\ j = k /\ hit
              /\ ~handler'[j].active /\ ~handler'[j].notify
              /\ handler[j].notify => handler'[j].result = r.ok /\ handler'[j].posts = handler[j].posts + 1
              /\ ~handler[j].notify => handler'[j].result = handler[j].result /\ handler'[j].posts = handler[j].posts
      /\ \A j \in Handlers : handler'[j].param = handler[j].param
  BY PacketTaken
<1>4. /\ TypeOK /\ r.cmd \in {"request", "start", "stop"} /\ k \in Kinds /\ k \in Handlers
      /\ r.ok \in BOOLEAN /\ hit \in BOOLEAN
      /\ \A j \in Kinds : j \in Handlers
      /\ \A j \in Handlers : handler[j].posts \in Nat
  BY <1>2 DEF Replies, Handlers, IInv, TypeOK, CommandHandlers
<1>5. hit /\ k \in Streams =>
        /\ Started(r) /\ Stream(r.op) /\ r.op \in Ops /\ r.op \in DOMAIN kinds /\ kinds[r.op] = k
        /\ r.op \in replied /\ thread[r.op] \in {"replied", "over"}
        /\ k = "recording" => Open(r.op)
        /\ k = "playback" /\ alive => Doomed \/ Open(r.op)
  BY <1>1, <1>2, <1>4, Basics DEF GoodReply, Started, Streams, Requests, Stream
<1>6. hit /\ k \in Requests =>
        /\ r.cmd = "request" /\ r.ok /\ call.pc = "requesting" /\ ~Posted /\ message = NoMessage
        /\ r.op = call.op /\ k = call.kind
        /\ alive => ~Sent("request", r.op)
  <2> SUFFICES ASSUME hit, k \in Requests
               PROVE  /\ r.cmd = "request" /\ r.ok /\ call.pc = "requesting" /\ ~Posted /\ message = NoMessage
                      /\ r.op = call.op /\ k = call.kind
                      /\ alive => ~Sent("request", r.op)
    OBVIOUS
  <2>1. r.cmd = "request" /\ r.ok
    BY <1>2, <1>4 DEF GoodReply, Started, Stream, Streams, Requests
  <2> QED
    BY <1>1, <1>2, <2>1 DEF IInv, RequestInv, In
<1> HIDE DEF hit
<1>7. \A j \in Handlers : handler'[j].active => handler[j].active /\ (j # k \/ ~hit)
  BY <1>3
<1>8. \A j \in Handlers : handler'[j].notify => handler'[j] = handler[j] /\ (j # k \/ ~hit)
  BY <1>3
<1>9. \A j \in Kinds : Silent(j) => Silent(j)'
  BY <1>1, <1>2 DEF Silent
<1>10. hit /\ handler[k].notify =>
         /\ call.kind = k /\ call.pc \in {"requesting", "completing"}
         /\ handler[k].posts = 0 /\ handler'[k].posts = 1
  <2>1. hit => ~Silent(k)
    BY <1>1, <1>2 DEF Silent, hit
  <2>2. hit /\ handler[k].notify => handler'[k].posts = handler[k].posts + 1
    BY <1>3, <1>4
  <2> QED
    BY <1>4, <2>1, <2>2 DEF IInv, PostInv, In
<1> HIDE DEF k
<1>11. TypeOK'
  <2>1. data' \in [Ops -> {NoOp} \cup Ops]
    <3>1. CASE r.cmd = "start" /\ r.kind = "recording" /\ r.ok
      <4>1. r.op \in Ops
        BY <1>5, <3>1 DEF k, hit, Streams
      <4> QED
        BY <1>1, <1>4, <3>1, <4>1 DEF TypeOK
    <3>2. CASE ~(r.cmd = "start" /\ r.kind = "recording" /\ r.ok)
      BY <1>1, <1>4, <3>2 DEF TypeOK
    <3> QED
      BY <3>1, <3>2
  <2> QED
    BY <1>1, <1>2, <1>4, <2>1 DEF TypeOK, deviceVars, threadVars
<1>12. CallInv'
  <2>1. \A j \in DOMAIN kinds : j <= handler'[kinds[j]].param
    BY <1>3, <1>4, Basics DEF IInv, CallInv
  <2>2. \A j \in running : kinds[j] \in Streams /\ handler'[kinds[j]].param = j
    BY <1>3, RunningTasks
  <2>3. \A j \in Kinds : handler'[j].param # NoOp \/ handler'[j].active =>
          handler'[j].param \in DOMAIN kinds /\ kinds[handler'[j].param] = j
    BY <1>3, <1>4, <1>7 DEF IInv, CallInv
  <2>4. call.kind \in Handlers
    BY <1>4 DEF TypeOK
  <2> QED
    BY <1>1, <1>3, <2>1, <2>2, <2>3, <2>4 DEF IInv, CallInv, In
<1>13. MessageInv'
  <2> SUFFICES ASSUME message # NoMessage
               PROVE  handler'[call.kind].posts = 0
    BY <1>1 DEF IInv, MessageInv, In
  <2>1. call.kind \in Handlers /\ handler[call.kind].posts = 0 /\ call.pc # "completing"
    BY <1>4 DEF IInv, MessageInv, In, TypeOK
  <2>2. ~(hit /\ handler[k].notify)
    <3> SUFFICES ASSUME hit, handler[k].notify PROVE FALSE
      OBVIOUS
    <3>1. call.pc = "requesting" /\ call.kind = k
      BY <1>10, <2>1
    <3> QED
      BY <1>6, <3>1 DEF IInv, CallInv, In
  <2> QED
    BY <1>3, <2>1, <2>2
<1>14. PostInv'
  <2>1. PostsAwaited'
    <3> SUFFICES ASSUME NEW j \in Handlers, handler'[j].posts > 0
                 PROVE  /\ handler'[j].posts = 1 /\ call.kind = j
                        /\ call.pc \in {"requesting", "starting", "completing", "stopping"}
      BY <1>1 DEF PostsAwaited
    <3>1. CASE j = k /\ hit /\ handler[k].notify
      BY <1>10, <3>1
    <3>2. CASE ~(j = k /\ hit /\ handler[k].notify)
      <4>1. handler'[j].posts = handler[j].posts
        BY <1>3, <3>2
      <4> QED
        BY <4>1 DEF IInv, PostInv, PostsAwaited
    <3> QED
      BY <3>1, <3>2
  <2>2. \A j \in Handlers : handler'[j].notify =>
          \/ j \in Kinds /\ Silent(j)'
          \/ call.kind = j /\ call.pc \in {"requesting", "completing"} /\ handler'[j].posts = 0
    BY <1>8, <1>9 DEF IInv, PostInv, In
  <2>3. \A j \in Streams : handler'[j].notify => handler'[j].active
    BY <1>4, <1>8 DEF IInv, PostInv, Kinds
  <2>4. call.kind \in Handlers
    BY <1>4 DEF TypeOK
  <2>5. call.pc \in {"requesting", "completing"} /\ ~(handler'[call.kind].posts > 0) => handler'[call.kind].notify
    <3> SUFFICES ASSUME call.pc \in {"requesting", "completing"}, ~(handler'[call.kind].posts > 0)
                 PROVE  handler'[call.kind].notify
      OBVIOUS
    <3>1. CASE call.kind = k /\ hit
      <4>1. ~handler[k].notify
        BY <1>10, <3>1
      <4>2. handler'[k].posts = handler[k].posts
        BY <1>3, <1>4, <3>1, <4>1
      <4> QED
        BY <3>1, <4>1, <4>2 DEF IInv, PostInv, In, Posted
    <3>2. CASE ~(call.kind = k /\ hit)
      <4>1. handler'[call.kind] = handler[call.kind]
        BY <1>3, <2>4, <3>2
      <4> QED
        BY <4>1 DEF IInv, PostInv, In, Posted
    <3> QED
      BY <3>1, <3>2
  <2>6. call.pc = "completing" /\ handler'[call.kind].posts > 0 => ~handler'[call.kind].active
    BY <1>3, <2>4 DEF IInv, PostInv, In, Posted
  <2>7. call.pc = "requesting" /\ handler'[call.kind].posts > 0 => handler'[call.kind].result
    <3> SUFFICES ASSUME call.pc = "requesting", handler'[call.kind].posts > 0
                 PROVE  handler'[call.kind].result
      OBVIOUS
    <3>1. CASE call.kind = k /\ hit /\ handler[k].notify
      <4>1. r.ok
        BY <1>6, <3>1 DEF IInv, CallInv, In
      <4> QED
        BY <1>3, <1>4, <3>1, <4>1
    <3>2. CASE ~(call.kind = k /\ hit /\ handler[k].notify)
      <4>1. handler'[call.kind].posts = handler[call.kind].posts /\ handler'[call.kind].result = handler[call.kind].result
        BY <1>3, <2>4, <3>2
      <4> QED
        BY <4>1 DEF IInv, PostInv, In, Posted
    <3> QED
      BY <3>1, <3>2
  <2> QED
    BY <1>1, <2>1, <2>2, <2>3, <2>5, <2>6, <2>7 DEF PostInv, In, Posted
<1>15. /\ \A n \in Ops : Stream(n) => (Open(n)' => Open(n))
       /\ \A n \in Ops : Stream(n) /\ Open(n) => Open(n)' \/ (kinds[n] = k /\ hit)
  BY <1>1, <1>3, <1>4, <1>7 DEF Open, Stream, Kinds
<1>16. \A n \in Ops : Stream(n) /\ Open(n) /\ kinds[n] = k /\ hit /\ Open(r.op) => n = r.op
  BY <1>5 DEF Open, Stream
<1>17. DeviceInv' /\ (Doomed' <=> Doomed) /\ \A c, n : Sent(c, n)' <=> Sent(c, n)
  <2>1. alive => \A n \in Ops : Stream(n) /\ Open(n) =>
          Open(n)' \/ thread[n] \in {"replied", "over"} \/ (kinds[n] = "playback" /\ Doomed)
    BY <1>5, <1>15, <1>16 DEF Stream, Streams
  <2> QED
    BY <1>1, <1>15, <2>1, DeviceStands
<1>18. ASSUME NEW y \in Range(toHost') PROVE GoodReply(y)'
  <2>1. GoodReply(y) /\ y \in Range(toHost)
    BY <1>2 DEF IInv, ReplyInv
  <2>2. CASE ~Started(y)
    BY <2>1, <2>2 DEF GoodReply, Started
  <2>3. CASE Started(y)
    <3>1. Stream(y.op) /\ y.op \in Ops /\ y.kind = kinds[y.op] /\ y.kind \in Streams /\ y.cmd = "start"
      BY <1>4, <2>1, <2>3, Basics DEF GoodReply, Stream, Started
    <3>2. Stream(y.op)'
      BY <1>1, <3>1 DEF Stream
    <3>3. Open(y.op) => Open(y.op)' \/ (y.kind = "playback" /\ (alive => Doomed))
      <4> SUFFICES ASSUME Open(y.op), ~Open(y.op)', y.kind = "playback" => alive /\ ~Doomed
                   PROVE  FALSE
        BY <1>15, <3>1
      <4>1. y.kind = k /\ hit
        BY <1>15, <3>1
      <4>2. Open(r.op)
        BY <1>5, <3>1, <4>1 DEF Streams
      <4>3. y.op = r.op /\ r.cmd = "start"
        BY <1>5, <1>16, <3>1, <4>1, <4>2 DEF Started
      <4> QED
        BY <1>2, <3>1, <4>1, <4>3
    <3> QED
      BY <1>1, <1>17, <2>1, <2>3, <3>1, <3>2, <3>3 DEF GoodReply, Started
  <2> QED
    BY <2>2, <2>3
<1>19. DueInv'
  <2> SUFFICES ASSUME alive, listening'
               PROVE  /\ \A j \in Requests : handler'[j].notify =>
                           \/ Sent("request", handler'[j].param)
                           \/ \E y \in Range(toHost') : y.kind = j /\ y.cmd # "stop"
                      /\ \A n \in Ops : Stream(n) /\ Open(n)' /\ thread[n] \in {"replied", "over"} =>
                           \E y \in Range(toHost') : y.kind = kinds[n] /\ y.cmd # "stop"
    <3>1. \A j, p : p = handler'[j].param => (Sent("request", handler[j].param)' <=> Sent("request", p)')
      BY DEF Sent
    <3>2. \A j : Sent("request", handler[j].param)' <=> Sent("request", handler'[j].param)
      BY <1>17, <3>1
    <3> QED
      BY <1>1, <3>2 DEF DueInv, Stream
  <2>1. ASSUME NEW j \in Requests, handler'[j].notify
        PROVE  \/ Sent("request", handler'[j].param)
               \/ \E y \in Range(toHost') : y.kind = j /\ y.cmd # "stop"
    <3>1. j \in Handlers /\ handler'[j] = handler[j] /\ (j # k \/ ~hit)
      BY <1>4, <1>8, <2>1 DEF Kinds
    <3>2. Sent("request", handler[j].param) \/ \E y \in Range(toHost) : y.kind = j /\ y.cmd # "stop"
      BY <1>1, <2>1, <3>1 DEF IInv, DueInv
    <3> QED
      BY <1>2, <3>1, <3>2 DEF k, hit
  <2>2. ASSUME NEW n \in Ops, Stream(n), Open(n)', thread[n] \in {"replied", "over"}
        PROVE  \E y \in Range(toHost') : y.kind = kinds[n] /\ y.cmd # "stop"
    <3>1. Open(n) /\ kinds[n] \in Handlers
      BY <1>4, <1>15, <2>2 DEF Stream, Kinds
    <3>2. kinds[n] # k \/ ~hit
      BY <1>1, <1>7, <2>2, <3>1 DEF Open
    <3>3. \E y \in Range(toHost) : y.kind = kinds[n] /\ y.cmd # "stop"
      BY <1>1, <2>2, <3>1 DEF IInv, DueInv
    <3> QED
      BY <1>2, <3>2, <3>3 DEF k, hit
  <2> QED
    BY <2>1, <2>2
<1>20. ReplyInv'
  <2>1. (\A y \in Range(toHost) : GoodReply(y))'
    BY <1>18
  <2>2. "recording" \in Handlers /\ "recording" \in Kinds
    BY DEF Handlers, Kinds, Streams
  <2>3. call'.pc = "stop" /\ call'.kind = "recording" /\ handler'["recording"].active => Silent("recording")'
    BY <1>1, <1>7, <1>9, <2>2 DEF IInv, ReplyInv, In
  <2> QED
    BY <1>2, <2>1, <2>3 DEF ReplyInv, In
<1>21. RequestInv'
  <2> SUFFICES ASSUME listening'
               PROVE  /\ \A y \in Range(toHost') : y.cmd = "request" =>
                           /\ In("requesting")' /\ ~Posted' /\ message' = NoMessage
                           /\ y.op = call'.op /\ y.kind = call'.kind
                           /\ alive' => ~Sent("request", y.op)'
                      /\ alive' => \A n \in Ops : Sent("request", n)' => In("requesting")' /\ ~Posted' /\ n = call'.op
    BY <1>2 DEF RequestInv
  <2>1. call.kind \in Handlers
    BY <1>4 DEF TypeOK
  <2>2. In("requesting") /\ ~Posted => ~Posted' \/ (hit /\ k \in Requests /\ k = call.kind)
    <3> SUFFICES ASSUME In("requesting"), ~Posted, Posted'
                 PROVE  hit /\ k \in Requests /\ k = call.kind
      OBVIOUS
    <3>1. handler'[call.kind] # handler[call.kind]
      BY <1>1 DEF Posted
    <3> QED
      BY <1>3, <2>1, <3>1 DEF IInv, CallInv
  <2>3. ASSUME NEW y \in Range(toHost'), y.cmd = "request"
        PROVE  /\ In("requesting")' /\ ~Posted' /\ message' = NoMessage
               /\ y.op = call'.op /\ y.kind = call'.kind
               /\ alive' => ~Sent("request", y.op)'
    <3>1. /\ In("requesting") /\ ~Posted /\ message = NoMessage
          /\ y.op = call.op /\ y.kind = call.kind
          /\ alive => ~Sent("request", y.op)
      BY <1>1, <1>2, <2>3 DEF IInv, RequestInv
    <3>2. ~(hit /\ k \in Requests)
      BY <1>2, <1>6, <2>3, <3>1
    <3> QED
      BY <1>1, <1>17, <2>2, <3>1, <3>2 DEF In
  <2>4. ASSUME alive, NEW n \in Ops, Sent("request", n)'
        PROVE  In("requesting")' /\ ~Posted' /\ n = call'.op
    <3>1. Sent("request", n)
      BY <1>17, <2>4
    <3>2. In("requesting") /\ ~Posted /\ n = call.op
      BY <1>1, <2>4, <3>1 DEF IInv, RequestInv
    <3>3. ~(hit /\ k \in Requests)
      BY <1>6, <2>4, <3>1, <3>2
    <3> QED
      BY <1>1, <2>2, <3>2, <3>3 DEF In
  <2> QED
    BY <1>1, <2>3, <2>4
<1>22. k = "recording" /\ hit => handler["recording"].param = r.op /\ r.op \in DOMAIN kinds /\ r.op \in replied
  BY <1>5 DEF Open, Streams
<1>23. \A n \in Ops : \/ data'[n] = data[n]
                      \/ data'[n] = r.op /\ n = r.op /\ r.op \in DOMAIN kinds
  <2>1. CASE r.cmd = "start" /\ r.kind = "recording" /\ r.ok
    BY <1>1, <1>4, <1>22, <2>1 DEF TypeOK, k, hit
  <2>2. CASE ~(r.cmd = "start" /\ r.kind = "recording" /\ r.ok)
    BY <1>1, <2>2
  <2> QED
    BY <2>1, <2>2
<1>24. RecordedInv'
  <2>1. \A n \in Ops \ DOMAIN kinds : outcome[n] = "none" /\ data'[n] = NoOp
    BY <1>23 DEF IInv, RecordedInv
  <2>2. ASSUME NEW n \in DOMAIN kinds, n \in running \/ (In("starting") /\ call.op = n),
               kinds[n] = "recording", ~handler'["recording"].active, ~(In("stopping") /\ call.op = n)
        PROVE  n \in replied
    <3>1. CASE ~handler["recording"].active
      BY <2>2, <3>1 DEF IInv, RecordedInv
    <3>2. CASE handler["recording"].active
      <4>1. "recording" \in Handlers
        BY DEF Handlers, Kinds, Streams
      <4>2. k = "recording" /\ hit
        BY <1>3, <2>2, <3>2, <4>1
      <4>3. handler["recording"].param = n
        BY <2>2 DEF IInv, CallInv
      <4> QED
        BY <1>22, <4>2, <4>3
    <3> QED
      BY <3>1, <3>2
  <2> QED
    BY <1>1, <2>1, <2>2 DEF RecordedInv, In
<1>25. RecordingIsOwn' /\ TimesOutOnlyDeaf'
  <2>1. \A n \in DOMAIN kinds : data'[n] \in {NoOp, n}
    BY <1>4, <1>23, Basics DEF IInv, RecordingIsOwn
  <2> QED
    BY <1>1, <2>1 DEF IInv, RecordingIsOwn, TimesOutOnlyDeaf, Successful
<1> QED
  BY <1>11, <1>12, <1>13, <1>14, <1>17, <1>19, <1>20, <1>21, <1>24, <1>25 DEF IInv

-----------------------------------------------------------------------------
(* The theorems.                                                           *)

\* If replies come in time, every step keeps the invariant.
LEMMA StepInv ==
  ASSUME ~LateReplies, IInv, [Next]_vars
  PROVE  IInv'
<1>1. ASSUME TestStep PROVE IInv'
  BY <1>1, RequestStep, StartStep, CompleteStep, CompleteUnawaitedStep, RequestReturnsStep, StartReturnsStep,
     WaitReturnsStep, TimesOutStep, DoStopReturnsStep, DoStopSendsStep, StopReturnsStep DEF TestStep
<1>2. ASSUME LooperStep PROVE IInv'
  BY <1>2, HandleMessageStep, HandlePacketStep, SeeClosedStep DEF LooperStep
<1>3. ASSUME ServerStep \/ \E n \in Ops : ThreadStep(n) PROVE IInv'
  BY <1>3, DeviceSteps
<1>4. ASSUME UNCHANGED vars PROVE IInv'
  <2>1. /\ call' = call /\ kinds' = kinds /\ running' = running /\ registered' = registered
        /\ outcome' = outcome /\ handler' = handler /\ message' = message /\ listening' = listening
        /\ data' = data /\ toDevice' = toDevice /\ toHost' = toHost /\ alive' = alive /\ server' = server
        /\ thread' = thread /\ threadOf' = threadOf /\ unit' = unit /\ released' = released /\ replied' = replied
    BY <1>4 DEF vars, testVars, hostVars, deviceVars, threadVars
  <2>2. Queue' = Queue /\ \A k : Silent(k)' <=> Silent(k)
    BY <2>1 DEF Queue, Silent
  <2>3. TypeOK' /\ CallInv' /\ MessageInv' /\ PostInv'
    BY <2>1, <2>2 DEF IInv, TypeOK, CallInv, MessageInv, PostInv, PostsAwaited, In, Posted
  <2>4. DeviceInv' /\ DueInv' /\ Distinct(toHost, "start")' /\ \A r \in Range(toHost) : GoodReply(r)'
    BY <2>1, <2>2, HostFrame DEF deviceVars, threadVars
  <2>5. ReplyInv'
    BY <2>1, <2>2, <2>4 DEF IInv, ReplyInv, In
  <2>6. RequestInv' /\ RecordedInv' /\ RecordingIsOwn' /\ TimesOutOnlyDeaf'
    BY <2>1, <2>2 DEF IInv, RequestInv, Distinct, Sent, RecordedInv, RecordingIsOwn, TimesOutOnlyDeaf,
       In, Posted, Successful
  <2> QED
    BY <2>3, <2>4, <2>5, <2>6 DEF IInv
<1> QED
  BY <1>1, <1>2, <1>3, <1>4 DEF Next

\* The invariant holds throughout, for any number of operations, if no wait
\* times out while its reply is on the way.
THEOREM Invariance == ASSUME ~LateReplies PROVE Spec => []IInv
<1>1. Init => IInv
  BY InitInv
<1>2. IInv /\ [Next]_vars => IInv'
  BY StepInv
<1> QED
  BY <1>1, <1>2, PTL DEF Spec

\* No semaphore keeps a post from one call of RemoteAudio to the next, so no
\* call returns for what an earlier one was waiting for.
THEOREM PostsAreAwaited == ASSUME ~LateReplies PROVE Spec => []PostsAwaited
<1>1. IInv => PostsAwaited
  BY DEF IInv, PostInv
<1> QED
  BY <1>1, Invariance, PTL

\* A recording's buffer holds that recording or nothing, and a recording that
\* was waited for has been replied to: handlePacket goes by the kind alone.
THEOREM RecordingsAreOwn == ASSUME ~LateReplies PROVE Spec => []RecordingIsOwn
<1>1. IInv => RecordingIsOwn
  BY DEF IInv
<1> QED
  BY <1>1, Invariance, PTL

\* A wait fails only for a host that has stopped listening or a client that
\* crashed: complete looks at the handler and asks to be notified in one step.
THEOREM WaitsAreAnswered == ASSUME ~LateReplies PROVE Spec => []TimesOutOnlyDeaf
<1>1. IInv => TimesOutOnlyDeaf
  BY DEF IInv
<1> QED
  BY <1>1, Invariance, PTL

\* Of each kind at most one operation is active on a live client, although
\* AudioProtocol starts what it is told to start without a check.
THEOREM DevicePlaysOne == ASSUME ~LateReplies PROVE Spec => []OneAtATime
<1>1. IInv => OneAtATime
  BY DEF IInv, DeviceInv, ThreadInv, OneAtATime
<1> QED
  BY <1>1, Invariance, PTL
=============================================================================
