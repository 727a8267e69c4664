-------------------------------- MODULE PubSub --------------------------------
(***************************************************************************)
(* src/pubsub.rs: one PubSub shared by several tasks, the mutex around its *)
(* optional connection, and the stream of pushes that receive() reads.     *)
(*                                                                         *)
(* A step is the code between two await points, as in ConnPool.  The mutex *)
(* is held across three awaits: pool().get() in ensure_conn, write_all in  *)
(* send_sub_cmd and parse_reply in receive.                                *)
(*                                                                         *)
(* The server handles a command in the step that writes it; the delay is   *)
(* that of the stream, where every push waits until it is read.            *)
(***************************************************************************)
EXTENDS Naturals, Sequences, FiniteSets, SequencesExt

CONSTANTS
  Tasks,
  NoTask,       \* the owner of a free mutex
  Channels,
  Patterns,     \* every pattern matches every channel
  ReadTimeout,  \* read_timeout is set
  MaxItems,     \* bound: names in one call
  MaxSends,     \* bound: calls of subscribe, unsubscribe, ...
  MaxPublished  \* bound: messages published

ASSUME NoTaskAssumption == NoTask \notin Tasks

ASSUME ReadTimeoutAssumption == ReadTimeout \in BOOLEAN

ASSUME BoundsAssumption ==
  MaxItems \in Nat /\ MaxSends \in Nat /\ MaxPublished \in Nat

VARIABLES
  lock,       \* the task that holds the mutex of PubSub.conn
  conn,       \* PubSub.conn: 0 for None, or the number of the connection
  taken,      \* connections taken out of the pool so far
  pc,         \* pc[t]: the await point of task t
  cmd,        \* cmd[t]: the command it sends
  part,       \* units that the receive() in progress has read
  wire,       \* units sent by the server and not read yet
  sent,       \* every push of the server, in order
  subs,       \* the server's subscriptions of this connection
  cut,        \* part of a command has reached the server, its end has not
  eof,        \* the server has closed the connection
  got,        \* what the calls of receive() have returned, in order
  dropped,    \* pushes whose reading was given up
  sends,
  published

lockVars   == <<lock, conn, taken, pc, cmd>>
clientVars == <<part, got, dropped>>
serverVars == <<sent, subs, cut, eof>>
counters   == <<sends, published>>
vars == <<lockVars, clientVars, serverVars, wire, counters>>

ChannelOps == {"subscribe", "unsubscribe"}
PatternOps == {"psubscribe", "punsubscribe"}
Adding     == {"subscribe", "psubscribe"}
SubKinds   == ChannelOps \cup PatternOps

Lists(S) == UNION {[1..n -> S] : n \in 0..MaxItems}
Commands == [op : ChannelOps, items : Lists(Channels)]
              \cup [op : PatternOps, items : Lists(Patterns)]
NoCommand == [op |-> "none", items |-> <<>>]

\* The points at which a task holds the mutex.
LockedPCs == {"pool", "write", "read"}
SendPCs   == {"ensure", "pool", "relock", "write"}
PCs       == SendPCs \cup {"rest", "rlock", "read"}

TypeOK ==
  /\ lock \in Tasks \cup {NoTask}
  /\ taken \in Nat
  /\ conn \in 0..taken
  /\ pc \in [Tasks -> PCs]
  /\ cmd \in [Tasks -> Commands \cup {NoCommand}]
  /\ dropped \subseteq 1..Len(sent)
  /\ subs \subseteq Channels \cup Patterns
  /\ {cut, eof} \subseteq BOOLEAN
  /\ sends \in 0..MaxSends
  /\ published \in 0..MaxPublished

Init ==
  /\ lock = NoTask
  /\ conn = 0
  /\ taken = 0
  /\ pc = [t \in Tasks |-> "rest"]
  /\ cmd = [t \in Tasks |-> NoCommand]
  /\ part = <<>>
  /\ wire = <<>>
  /\ sent = <<>>
  /\ subs = {}
  /\ cut = FALSE
  /\ eof = FALSE
  /\ got = <<>>
  /\ dropped = {}
  /\ sends = 0
  /\ published = 0

-----------------------------------------------------------------------------
(* Pushes.  The server sends an array of fields (or an error); receive()     *)
(* makes a PubSubMessage of it.  A PubSubMessage and the push it stands for  *)
(* are the same record, so that one can be compared with the other.          *)

NoName == ""   \* the name in the answer to UNSUBSCRIBE without subscriptions

Subscription(kind, channel, count) ==
  [type |-> "Subscription", kind |-> kind, channel |-> channel, count |-> count]
Message(channel, payload) ==
  [type |-> "Message", channel |-> channel, payload |-> payload]
PMessage(pattern, channel, payload) ==
  [type |-> "PMessage", pattern |-> pattern, channel |-> channel,
   payload |-> payload]
Error == [type |-> "Error"]

Str(s) == [k |-> "str", v |-> s]
Num(i) == [k |-> "int", v |-> i]
Nil    == [k |-> "nil"]

\* The array the server sends for a push.
Fields(push) ==
  CASE push.type = "Subscription" ->
         <<Str(push.kind),
           IF push.channel = NoName THEN Nil ELSE Str(push.channel),
           Num(push.count)>>
    [] push.type = "Message" ->
         <<Str("message"), Str(push.channel), Str(push.payload)>>
    [] push.type = "PMessage" ->
         <<Str("pmessage"), Str(push.pattern), Str(push.channel),
           Str(push.payload)>>
    [] push.type = "Error" -> <<>>

\* The units of push number m: the header or error line, then the fields.
UnitsOf(m, push) ==
  [j \in 1..(Len(Fields(push)) + 1) |-> [m |-> m, i |-> j - 1, torn |-> FALSE]]

IsHeader(u) == u.i = 0 /\ ~u.torn /\ sent[u.m] # Error
IsError(u)  == ~u.torn /\ sent[u.m] = Error

\* receive(): what a complete array decodes to; Error stands for the Err of
\* the cases that match nothing.
Text(x)  == IF x.k = "str" THEN x.v ELSE NoName
Count(x) == IF x.k = "int" THEN x.v ELSE 0

\* Seeded fault: the arguments of a pattern message in the wrong order.
DecodeSwapped(a) ==
  CASE a[1].v \in SubKinds -> Subscription(a[1].v, Text(a[2]), Count(a[3]))
    [] a[1].v = "message"  -> Message(Text(a[2]), Text(a[3]))
    [] a[1].v = "pmessage" -> PMessage(Text(a[3]), Text(a[2]), Text(a[4]))

\* Seeded fault: no name is expected to be missing.
DecodeStrict(a) ==
  CASE a[2].k # "str"      -> Error
    [] a[1].v \in SubKinds -> Subscription(a[1].v, Text(a[2]), Count(a[3]))
    [] a[1].v = "message"  -> Message(Text(a[2]), Text(a[3]))
    [] OTHER               -> PMessage(Text(a[2]), Text(a[3]), Text(a[4]))

Decode(a) ==
  CASE Len(a) < 3 \/ a[1].k # "str" -> Error
    [] a[1].v \in SubKinds -> Subscription(a[1].v, Text(a[2]), Count(a[3]))
    [] a[1].v = "message"  -> Message(Text(a[2]), Text(a[3]))
    [] a[1].v = "pmessage" /\ Len(a) >= 4 ->
         PMessage(Text(a[2]), Text(a[3]), Text(a[4]))
    [] OTHER -> Error

-----------------------------------------------------------------------------
(* The server                                                                *)

\* Pushes go out on the open connection, in order.
Push(pushes) ==
  /\ sent' = sent \o pushes
  /\ wire' = wire \o FlattenSeq([j \in 1..Len(pushes) |->
                                   UnitsOf(Len(sent) + j, pushes[j])])

\* What the server makes of a command that reaches it: one push per name.
\* Without names, SUBSCRIBE is an error and UNSUBSCRIBE stands for every name
\* that is subscribed.
Affected(c) ==
  LET held == subs \cap IF c.op \in ChannelOps THEN Channels ELSE Patterns
  IN  IF c.items = <<>> /\ c.op \notin Adding THEN SetToSeq(held) ELSE c.items

SubsAfter(c, n) ==
  LET names == {Affected(c)[j] : j \in 1..n}
  IN  IF c.op \in Adding THEN subs \cup names ELSE subs \ names

AnswerTo(c) ==
  CASE Affected(c) # <<>> ->
         [j \in 1..Len(Affected(c)) |->
            Subscription(c.op, Affected(c)[j], Cardinality(SubsAfter(c, j)))]
    [] Affected(c) = <<>> /\ c.op \in Adding -> <<Error>>
    [] Affected(c) = <<>> /\ c.op \notin Adding ->
         <<Subscription(c.op, NoName, Cardinality(subs))>>

\* A whole command arrives.  After the beginning of another one it is taken
\* for the rest of that one, which is a protocol error.
Arrives(c) ==
  CASE eof -> UNCHANGED <<serverVars, wire>>
    [] ~eof /\ cut ->
         /\ Push(<<Error>>)
         /\ eof' = TRUE
         /\ UNCHANGED <<subs, cut>>
    [] ~eof /\ ~cut ->
         /\ Push(AnswerTo(c))
         /\ subs' = SubsAfter(c, Len(Affected(c)))
         /\ UNCHANGED <<cut, eof>>

\* Somebody publishes on channel c.
Publish(c) ==
  /\ conn # 0 /\ ~eof
  /\ published < MaxPublished
  /\ published' = published + 1
  /\ LET payload  == published + 1
         plain    == IF c \in subs THEN <<Message(c, payload)>> ELSE <<>>
         patterns == SetToSeq(subs \cap Patterns)
     IN  Push(plain \o [j \in 1..Len(patterns) |->
                          PMessage(patterns[j], c, payload)])
  /\ UNCHANGED <<lockVars, clientVars, subs, cut, eof, sends>>

\* The connection breaks, and the end of the stream may be lost with it.
Break ==
  /\ conn # 0 /\ ~eof
  /\ eof' = TRUE
  /\ \E n \in 0..Len(wire) : wire' = SubSeq(wire, 1, n)
  /\ UNCHANGED <<lockVars, clientVars, sent, subs, cut, counters>>

-----------------------------------------------------------------------------
(* The mutex and the await points                                            *)

Goto(t, from, to) ==
  /\ pc[t] = from
  /\ pc' = [pc EXCEPT ![t] = to]

Acquire(t) == lock = NoTask /\ lock' = t
Unlock     == lock' = NoTask

\* subscribe, psubscribe, unsubscribe, punsubscribe
SendCall(t, c) ==
  /\ sends < MaxSends
  /\ sends' = sends + 1
  /\ Goto(t, "rest", "ensure")
  /\ cmd' = [cmd EXCEPT ![t] = c]
  /\ UNCHANGED <<lock, conn, taken, clientVars, serverVars, wire, published>>

\* Seeded fault: the mutex is released before the pool is asked.
EnsureConnUnlocked(t) ==
  /\ lock = NoTask
  /\ Goto(t, "ensure", IF conn = 0 THEN "pool" ELSE "relock")
  /\ UNCHANGED <<lock, conn, taken, cmd, clientVars, serverVars, wire, counters>>

\* ensure_conn: with a connection the mutex is taken and released at once.
EnsureConn(t) ==
  /\ IF conn = 0 THEN Acquire(t) /\ Goto(t, "ensure", "pool")
                 ELSE lock = NoTask /\ lock' = lock /\ Goto(t, "ensure", "relock")
  /\ UNCHANGED <<conn, taken, cmd, clientVars, serverVars, wire, counters>>

\* Seeded fault: the connection is used without remove(), still in the pool.
PoolOkNotRemoved(t) ==
  /\ Goto(t, "pool", "relock")
  /\ Unlock
  /\ conn' = taken + 1
  /\ UNCHANGED <<taken, cmd, clientVars, serverVars, wire, counters>>

\* ... the pool hands out a connection, which remove() detaches from it.
PoolOk(t) ==
  /\ Goto(t, "pool", "relock")
  /\ Unlock
  /\ taken' = taken + 1
  /\ conn' = taken'
  /\ UNCHANGED <<cmd, clientVars, serverVars, wire, counters>>

\* Seeded fault: the error return keeps the mutex.
PoolErrKeepsLock(t) ==
  /\ Goto(t, "pool", "rest")
  /\ UNCHANGED <<lock, conn, taken, cmd, clientVars, serverVars, wire, counters>>

\* ... or the pool is closed, or cannot connect.
PoolErr(t) ==
  /\ Goto(t, "pool", "rest")
  /\ Unlock
  /\ UNCHANGED <<conn, taken, cmd, clientVars, serverVars, wire, counters>>

\* send_sub_cmd takes the mutex again ...
Relock(t) ==
  /\ Goto(t, "relock", "write")
  /\ Acquire(t)
  /\ UNCHANGED <<conn, taken, cmd, clientVars, serverVars, wire, counters>>

\* ... and writes the command.
WriteOk(t) ==
  /\ Goto(t, "write", "rest")
  /\ Unlock
  /\ Arrives(cmd[t])
  /\ UNCHANGED <<conn, taken, cmd, clientVars, counters>>

\* The write fails, times out or is cancelled: nothing of the command has left
\* or only its beginning.
WriteErr(t) ==
  /\ Goto(t, "write", "rest")
  /\ Unlock
  /\ cut' \in {cut, TRUE}
  /\ UNCHANGED <<conn, taken, cmd, clientVars, sent, subs, eof, wire, counters>>

\* A future that has not started to write or read is dropped.
Cancel(t) ==
  /\ pc[t] \in {"ensure", "pool", "relock", "rlock"}
  /\ pc' = [pc EXCEPT ![t] = "rest"]
  /\ lock' = IF lock = t THEN NoTask ELSE lock
  /\ UNCHANGED <<conn, taken, cmd, clientVars, serverVars, wire, counters>>

-----------------------------------------------------------------------------
(* receive()                                                                 *)

ReceiveCall(t) ==
  /\ Goto(t, "rest", "rlock")
  /\ UNCHANGED <<lock, conn, taken, cmd, clientVars, serverVars, wire, counters>>

\* Without a connection: "not subscribed; call subscribe or psubscribe first".
ReceiveLock(t) ==
  /\ IF conn = 0 THEN lock = NoTask /\ lock' = lock /\ Goto(t, "rlock", "rest")
                 ELSE Acquire(t) /\ Goto(t, "rlock", "read")
  /\ UNCHANGED <<conn, taken, cmd, clientVars, serverVars, wire, counters>>

\* The parser takes the next unit off the stream.
TakeUnit(t) ==
  /\ pc[t] = "read"
  /\ wire # <<>>
  /\ wire' = Tail(wire)

EndReceive(t) ==
  /\ Goto(t, "read", "rest")
  /\ Unlock
  /\ part' = <<>>

\* part without the header, as the values parse_reply returns.
Parsed(units) ==
  [j \in 1..(Len(units) - 1) |-> Fields(sent[units[j + 1].m])[units[j + 1].i]]

Complete(units) == Len(units) = Len(Fields(sent[units[1].m])) + 1

\* The header of an array, and every element but the last.
ReadMore(t) ==
  /\ TakeUnit(t)
  /\ part = <<>> => IsHeader(Head(wire))
  /\ part' = Append(part, Head(wire))
  /\ ~Complete(part')
  /\ UNCHANGED <<lockVars, got, dropped, serverVars, counters>>

\* The last element: the array is decoded.
ReadLast(t) ==
  /\ TakeUnit(t)
  /\ part # <<>>
  /\ EndReceive(t)
  /\ LET units == Append(part, Head(wire))
         msg   == Decode(Parsed(units))
     IN  /\ Complete(units)
         /\ got' = IF msg = Error THEN got
                   ELSE Append(got, [m |-> units[1].m, msg |-> msg])
  /\ UNCHANGED <<conn, taken, cmd, dropped, serverVars, counters>>

\* A line that is not the header of an array: an error of the server, or what
\* an abandoned receive() has left of a push.
ReadLine(t) ==
  /\ TakeUnit(t)
  /\ part = <<>>
  /\ ~IsHeader(Head(wire))
  /\ EndReceive(t)
  /\ got' = IF IsError(Head(wire))
            THEN Append(got, [m |-> Head(wire).m, msg |-> Error]) ELSE got
  /\ UNCHANGED <<conn, taken, cmd, dropped, serverVars, counters>>

\* Seeded fault: the connection is given up with the call.
ReadEofDropsConn(t) ==
  /\ wire = <<>> /\ eof
  /\ EndReceive(t)
  /\ conn' = 0
  /\ dropped' = dropped \cup {part[j].m : j \in 1..Len(part)}
  /\ UNCHANGED <<taken, cmd, got, wire, serverVars, counters>>

\* The stream has ended.  The connection stays where it is.
ReadEof(t) ==
  /\ wire = <<>> /\ eof
  /\ EndReceive(t)
  /\ dropped' = dropped \cup {part[j].m : j \in 1..Len(part)}
  /\ UNCHANGED <<conn, taken, cmd, got, wire, serverVars, counters>>

\* The wait for more bytes ends with read_timeout, or the future is dropped:
\* what was read is lost, which may be the beginning of a unit.
AbandonRead(t) ==
  /\ EndReceive(t)
  /\ \E n \in 0..1 :
       /\ n <= Len(wire)
       /\ wire' = [j \in 1..Len(wire) |->
                     IF j <= n THEN [wire[j] EXCEPT !.torn = TRUE] ELSE wire[j]]
       /\ dropped' = dropped \cup {part[j].m : j \in 1..Len(part)}
                             \cup {wire[j].m : j \in 1..n}
  /\ UNCHANGED <<conn, taken, cmd, got, serverVars, counters>>

-----------------------------------------------------------------------------
(* Specification                                                             *)

SendStep(t) ==
  \/ EnsureConn(t) \/ PoolOk(t) \/ PoolErr(t)
  \/ Relock(t) \/ WriteOk(t) \/ WriteErr(t)

ReceiveStep(t) ==
  ReceiveLock(t) \/ ReadMore(t) \/ ReadLast(t) \/ ReadLine(t) \/ ReadEof(t)

Next ==
  \/ \E t \in Tasks : \/ \E c \in Commands : SendCall(t, c)
                      \/ ReceiveCall(t)
                      \/ SendStep(t)
                      \/ ReceiveStep(t)
                      \/ AbandonRead(t)
                      \/ Cancel(t)
  \/ \E c \in Channels : Publish(c)
  \/ Break

Spec == Init /\ [][Next]_vars

\* The mutex queues its waiters in order (strong fairness of the steps that
\* take it); pool().get() and writes end; a read ends when read_timeout is set.
Fairness ==
  \A t \in Tasks :
    /\ SF_vars(EnsureConn(t)) /\ SF_vars(Relock(t)) /\ SF_vars(ReceiveLock(t))
    /\ WF_vars(PoolOk(t) \/ PoolErr(t))
    /\ WF_vars(WriteOk(t) \/ WriteErr(t))
    /\ WF_vars(ReadMore(t) \/ ReadLast(t) \/ ReadLine(t) \/ ReadEof(t))
    /\ WF_vars(ReadTimeout /\ AbandonRead(t))

FairSpec == Spec /\ Fairness

-----------------------------------------------------------------------------
(* Properties                                                                *)

\* Concurrent first calls of subscribe() take one connection out of the pool,
\* not one each: ensure_conn holds the mutex while it waits for the pool, and
\* nothing gives the connection up again.
OneConnTaken == taken <= 1

\* send_sub_cmd releases the mutex between ensure_conn and the write; its
\* expect("connection established by ensure_conn") still never fails.
ExpectHolds == \A t \in Tasks : pc[t] = "write" => conn # 0

\* Why these two hold: a task is at an await under the mutex exactly when it
\* owns the mutex; while one waits for the pool there is no connection; a task
\* on its way to write or read finds the one that was taken.
SharingInv ==
  /\ pc \in [Tasks -> PCs]
  /\ conn = taken /\ taken \in {0, 1}
  /\ \A t \in Tasks : lock = t <=> pc[t] \in LockedPCs
  /\ \A t \in Tasks : pc[t] = "pool" => conn = 0
  /\ \A t \in Tasks : pc[t] \in {"relock", "write", "read"} => conn = 1

\* What receive() returns is what the server pushed: whole messages, each with
\* its own names and payload, in order and at most once, whichever tasks call
\* receive() and however many of its calls were abandoned in between.
ReceivedInOrder ==
  /\ \A i \in 1..Len(got) : got[i].msg = sent[got[i].m]
  /\ \A i, j \in 1..Len(got) : i < j => got[i].m < got[j].m

\* A push that the stream has delivered was returned by receive(), unless a
\* receive() was abandoned, or met the end of the stream, while reading it.
NothingSkipped ==
  LET pending == {wire[j].m : j \in 1..Len(wire)} \cup
                 {part[j].m : j \in 1..Len(part)}
  IN  ~eof => 1..Len(sent) \subseteq
                 pending \cup {got[i].m : i \in 1..Len(got)} \cup dropped

\* Every call of subscribe() (and the like) and of receive() ends when
\* read_timeout is set, although the calls queue for the same mutex and
\* receive() keeps it while it waits for a message.
CallsEnd == \A t \in Tasks : pc[t] # "rest" ~> pc[t] = "rest"

Subscribed ==
  \E m \in 1..Len(sent) : /\ sent[m].type = "Subscription"
                          /\ sent[m].kind \in Adding

\* receive() waits for a message only after a subscription; before, it answers
\* "not subscribed; call subscribe or psubscribe first".
WaitsOnlySubscribed ==
  [][\A t \in Tasks : pc[t] # "read" /\ pc'[t] = "read" => Subscribed]_vars
=============================================================================
