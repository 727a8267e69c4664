---------------------------- MODULE PubSub_proofs ----------------------------
(* How the tasks of one PubSub share its connection, and what receive()      *)
(* returns of what the server pushes, for any set of tasks, channels and     *)
(* patterns and any number of calls and messages.                            *)
EXTENDS PubSub, Induction, SequenceTheorems, FiniteSetTheorems

-----------------------------------------------------------------------------
(* The mutex and the connection                                              *)

LEMMA SharingInit == Init => SharingInv
  BY NoTaskAssumption DEF Init, SharingInv, PCs, SendPCs, LockedPCs

\* A step that leaves the mutex, the connection and the await points alone.
LEMMA SharingFrame ==
  ASSUME SharingInv, UNCHANGED <<lock, conn, taken, pc>>
  PROVE  SharingInv'
  BY DEF SharingInv

\* A task moves between two points outside the mutex.
LEMMA MoveOutside ==
  ASSUME SharingInv, NEW t \in Tasks, NEW from, NEW to \in PCs,
         Goto(t, from, to), UNCHANGED <<lock, conn, taken>>,
         from \notin LockedPCs, to \notin LockedPCs,
         to = "relock" => conn # 0
  PROVE  SharingInv'
  BY DEF SharingInv, Goto, LockedPCs

\* A task takes the mutex and waits under it.
LEMMA MoveIn ==
  ASSUME SharingInv, NEW t \in Tasks, NEW from, NEW to \in LockedPCs,
         Goto(t, from, to), Acquire(t), UNCHANGED <<conn, taken>>,
         to = "pool" => conn = 0,
         to \in {"write", "read"} => conn = 1
  PROVE  SharingInv'
  <1>1. \A u \in Tasks : pc[u] \notin LockedPCs
    BY NoTaskAssumption DEF SharingInv, Acquire
  <1>2. pc' \in [Tasks -> PCs]
    BY DEF SharingInv, Goto, PCs, SendPCs, LockedPCs
  <1>3. \A u \in Tasks : pc'[u] = IF u = t THEN to ELSE pc[u]
    BY DEF SharingInv, Goto
  <1>4. QED
    BY <1>1, <1>2, <1>3 DEF SharingInv, Acquire, LockedPCs

\* A call ends, or is dropped, and with it the mutex it may hold.
LEMMA MoveOut ==
  ASSUME SharingInv, NEW t \in Tasks, pc' = [pc EXCEPT ![t] = "rest"],
         lock' = IF lock = t THEN NoTask ELSE lock, UNCHANGED <<conn, taken>>
  PROVE  SharingInv'
  <1>1. pc' \in [Tasks -> PCs]
    BY DEF SharingInv, PCs
  <1>2. \A u \in Tasks : pc'[u] = IF u = t THEN "rest" ELSE pc[u]
    BY DEF SharingInv
  <1>3. QED
    BY <1>1, <1>2, NoTaskAssumption DEF SharingInv, LockedPCs

\* The same, for a call that holds the mutex.
LEMMA EndsLocked ==
  ASSUME SharingInv, NEW t \in Tasks, NEW from \in LockedPCs,
         Goto(t, from, "rest"), Unlock, UNCHANGED <<conn, taken>>
  PROVE  SharingInv'
  <1>1. lock = t
    BY DEF SharingInv, Goto
  <1>2. QED
    BY <1>1, MoveOut DEF Goto, Unlock

LEMMA SharingSend ==
  ASSUME SharingInv, NEW t \in Tasks, SendStep(t)
  PROVE  SharingInv'
  <1>1. CASE EnsureConn(t)
    <2>1. CASE conn = 0
      BY <1>1, <2>1, MoveIn DEF EnsureConn, LockedPCs
    <2>2. CASE conn # 0
      BY <1>1, <2>2, MoveOutside DEF EnsureConn, LockedPCs, PCs, SendPCs
    <2>3. QED
      BY <2>1, <2>2
  <1>2. CASE PoolOk(t)
    <2>1. lock = t /\ conn = 0 /\ taken = 0
      BY <1>2 DEF PoolOk, Goto, SharingInv, LockedPCs
    <2>2. \A u \in Tasks \ {t} : pc[u] \notin LockedPCs
      BY <2>1 DEF SharingInv
    <2>3. pc' \in [Tasks -> PCs]
      BY <1>2 DEF PoolOk, Goto, SharingInv, PCs, SendPCs
    <2>4. \A u \in Tasks : pc'[u] = IF u = t THEN "relock" ELSE pc[u]
      BY <1>2 DEF PoolOk, Goto, SharingInv
    <2>5. taken' = 1 /\ conn' = 1 /\ lock' = NoTask
      BY <1>2, <2>1 DEF PoolOk, Unlock
    <2>6. QED
      BY <2>2, <2>3, <2>4, <2>5, NoTaskAssumption DEF SharingInv, LockedPCs
  <1>3. CASE PoolErr(t)
    BY <1>3, EndsLocked DEF PoolErr, LockedPCs
  <1>4. CASE Relock(t)
    <2>1. conn = 1
      BY <1>4 DEF Relock, Goto, SharingInv
    <2>2. QED
      BY <1>4, <2>1, MoveIn DEF Relock, LockedPCs
  <1>5. CASE WriteOk(t)
    BY <1>5, EndsLocked DEF WriteOk, LockedPCs
  <1>6. CASE WriteErr(t)
    BY <1>6, EndsLocked DEF WriteErr, LockedPCs
  <1>7. QED
    BY <1>1, <1>2, <1>3, <1>4, <1>5, <1>6 DEF SendStep

LEMMA SharingReceive ==
  ASSUME SharingInv, NEW t \in Tasks, ReceiveStep(t) \/ AbandonRead(t)
  PROVE  SharingInv'
  <1>1. CASE ReceiveLock(t)
    <2>1. CASE conn = 0
      BY <1>1, <2>1, MoveOutside DEF ReceiveLock, LockedPCs, PCs
    <2>2. CASE conn # 0
      <3>1. conn = 1
        BY <2>2 DEF SharingInv
      <3>2. QED
        BY <1>1, <2>2, <3>1, MoveIn DEF ReceiveLock, LockedPCs
    <2>3. QED
      BY <2>1, <2>2
  <1>2. CASE ReadMore(t)
    BY <1>2, SharingFrame DEF ReadMore, lockVars
  <1>3. CASE ReadLast(t) \/ ReadLine(t) \/ ReadEof(t) \/ AbandonRead(t)
    <2>1. EndReceive(t) /\ UNCHANGED <<conn, taken>>
      BY <1>3 DEF ReadLast, ReadLine, ReadEof, AbandonRead
    <2>2. QED
      BY <2>1, EndsLocked DEF EndReceive, LockedPCs
  <1>4. QED
    BY <1>1, <1>2, <1>3 DEF ReceiveStep

LEMMA SharingStep == SharingInv /\ [Next]_vars => SharingInv'
  <1> SUFFICES ASSUME SharingInv, [Next]_vars
               PROVE  SharingInv'
    OBVIOUS
  <1>1. ASSUME NEW t \in Tasks, NEW c \in Commands, SendCall(t, c)
        PROVE  SharingInv'
    BY <1>1, MoveOutside DEF SendCall, LockedPCs, PCs, SendPCs
  <1>2. ASSUME NEW t \in Tasks, ReceiveCall(t)
        PROVE  SharingInv'
    BY <1>2, MoveOutside DEF ReceiveCall, LockedPCs, PCs
  <1>3. ASSUME NEW t \in Tasks, Cancel(t)
        PROVE  SharingInv'
    BY <1>3, MoveOut DEF Cancel
  <1>4. ASSUME NEW c \in Channels, Publish(c)
        PROVE  SharingInv'
    BY <1>4, SharingFrame DEF Publish, lockVars
  <1>5. CASE Break
    BY <1>5, SharingFrame DEF Break, lockVars
  <1>6. CASE UNCHANGED vars
    BY <1>6, SharingFrame DEF vars, lockVars
  <1>7. QED
    BY <1>1, <1>2, <1>3, <1>4, <1>5, <1>6, SharingSend, SharingReceive DEF Next

\* The inductive invariant of the tasks that share the mutex of PubSub.conn.
THEOREM Sharing == Spec => []SharingInv
  BY SharingInit, SharingStep, PTL DEF Spec

\* However many tasks call subscribe() first, ensure_conn takes one connection
\* out of the pool.
THEOREM OneConnection == Spec => []OneConnTaken
  <1>1. SharingInv => OneConnTaken
    BY DEF SharingInv, OneConnTaken
  <1>2. QED
    BY <1>1, Sharing, PTL

\* The expect() of send_sub_cmd never fails.
THEOREM ExpectNeverFails == Spec => []ExpectHolds
  <1>1. SharingInv => ExpectHolds
    BY DEF SharingInv, ExpectHolds
  <1>2. QED
    BY <1>1, Sharing, PTL

-----------------------------------------------------------------------------
(* FlattenSeq                                                                *)

\* f[i] holds the first i of the sequences.
Flattens(f, ss, n) ==
  f = [i \in 1..n |-> IF i = 1 THEN ss[i] ELSE f[i - 1] \o ss[i]]

LEMMA FlattenExists ==
  ASSUME NEW ss, NEW n \in Nat
  PROVE  \E f : Flattens(f, ss, n)
  <1> DEFINE T == {k \in Nat : \E f : Flattens(f, ss, k)}
  <1>1. 0 \in T
    <2>1. Flattens(<<>>, ss, 0)
      BY DEF Flattens
    <2>2. QED
      BY <2>1
  <1>2. ASSUME NEW k \in T
        PROVE  k + 1 \in T
    <2>1. PICK f : Flattens(f, ss, k)
      BY <1>2
    <2> DEFINE e == IF k = 0 THEN ss[1] ELSE f[k] \o ss[k + 1]
               g == [i \in 1..(k + 1) |-> IF i = k + 1 THEN e ELSE f[i]]
    <2>2. ASSUME NEW i \in 1..(k + 1)
          PROVE  g[i] = IF i = 1 THEN ss[i] ELSE g[i - 1] \o ss[i]
      <3>1. CASE i = k + 1 /\ k = 0
        BY <3>1
      <3>2. CASE i = k + 1 /\ k # 0
        <4>1. i # 1 /\ i - 1 = k /\ k \in 1..(k + 1) /\ k # k + 1
          BY <3>2
        <4>2. e = f[k] \o ss[i]
          BY <3>2
        <4> HIDE DEF e
        <4>3. g[i] = e /\ g[k] = f[k]
          BY <3>2, <4>1
        <4> HIDE DEF g
        <4>4. QED
          BY <4>1, <4>2, <4>3
      <3>3. CASE i # k + 1
        <4>1. i \in 1..k /\ g[i] = f[i]
          BY <3>3
        <4>2. f[i] = IF i = 1 THEN ss[i] ELSE f[i - 1] \o ss[i]
          BY <2>1, <4>1 DEF Flattens
        <4>3. i # 1 => g[i - 1] = f[i - 1]
          BY <4>1
        <4>4. QED
          BY <4>1, <4>2, <4>3
      <3>4. QED
        BY <3>1, <3>2, <3>3
    <2>3. Flattens(g, ss, k + 1)
      <3>1. g = [i \in 1..(k + 1) |-> g[i]]
        OBVIOUS
      <3> HIDE DEF g
      <3>2. QED
        BY <2>2, <3>1 DEF Flattens
    <2>4. QED
      BY <2>3
  <1>3. T = Nat
    <2>1. T \in SUBSET Nat
      OBVIOUS
    <2> HIDE DEF T
    <2>2. QED
      BY <1>1, <1>2, <2>1, SetInduction
  <1>4. QED
    BY <1>3

LEMMA FlattenIs ==
  ASSUME NEW ss, Len(ss) \in Nat \ {0}
  PROVE  \E f : Flattens(f, ss, Len(ss)) /\ FlattenSeq(ss) = f[Len(ss)]
  <1> DEFINE g == CHOOSE f : f = [i \in 1..Len(ss) |->
                                    IF i = 1 THEN ss[i] ELSE f[i - 1] \o ss[i]]
  <1>1. \E f : f = [i \in 1..Len(ss) |-> IF i = 1 THEN ss[i] ELSE f[i - 1] \o ss[i]]
    BY FlattenExists DEF Flattens
  <1>2. g = [i \in 1..Len(ss) |-> IF i = 1 THEN ss[i] ELSE g[i - 1] \o ss[i]]
    BY <1>1
  <1>3. FlattenSeq(ss) = g[Len(ss)]
    BY DEF FlattenSeq
  <1>4. Flattens(g, ss, Len(ss))
    BY <1>2 DEF Flattens
  <1>5. QED
    BY <1>3, <1>4

-----------------------------------------------------------------------------
(* The stream                                                                *)

Units  == [m : Nat, i : Nat, torn : BOOLEAN]
Names  == Channels \cup Patterns
Pushes == {Error}
  \cup [type : {"Subscription"}, kind : SubKinds, channel : Names \cup {NoName},
        count : Nat]
  \cup [type : {"Message"}, channel : Channels, payload : Nat]
  \cup [type : {"PMessage"}, pattern : Patterns, channel : Channels, payload : Nat]

\* The number of the last unit of push m.
LastOf(snt, m) == Len(Fields(snt[m]))

\* Unit u comes before unit v, and right before it.
Before(u, v) == u.m < v.m \/ (u.m = v.m /\ u.i < v.i)
Follows(snt, u, v) ==
  \/ v.m = u.m /\ v.i = u.i + 1
  \/ v.m = u.m + 1 /\ v.i = 0 /\ u.i = LastOf(snt, u.m)

\* A piece of the stream of the pushes snt, without gaps.
Chain(snt, s) ==
  /\ s \in Seq(Units)
  /\ \A j \in 1..Len(s) : s[j].m \in 1..Len(snt) /\ s[j].i <= LastOf(snt, s[j].m)
  /\ \A j, k \in 1..Len(s) : j < k => Before(s[j], s[k])
  /\ \A j \in 1..Len(s) : j + 1 <= Len(s) => Follows(snt, s[j], s[j + 1])

\* The values, and who sends a command.
Typed ==
  /\ TypeOK
  /\ sent \in Seq(Pushes)
  /\ part \in Seq(Units)
  /\ got \in Seq([m : Nat, msg : Pushes])
  /\ IsFiniteSet(subs)
  /\ \A t \in Tasks : pc[t] \in SendPCs => cmd[t] \in Commands

\* The unread stream has no gap, and ends with a whole push while it is open.
Unread ==
  /\ Chain(sent, wire)
  /\ \A j \in 2..Len(wire) : ~wire[j].torn
  /\ ~eof /\ wire # <<>> => /\ wire[Len(wire)].m = Len(sent)
                            /\ wire[Len(wire)].i = LastOf(sent, Len(sent))

\* What receive() has read of a push, and that the rest of it is next.
InPart ==
  part # <<>> =>
    /\ part[1].m \in 1..Len(sent)
    /\ sent[part[1].m] # Error
    /\ Len(part) <= LastOf(sent, part[1].m)
    /\ \A j \in 1..Len(part) : part[j].m = part[1].m /\ part[j].i = j - 1
    /\ wire # <<>> => wire[1].m = part[1].m /\ wire[1].i = Len(part)
    /\ wire = <<>> => eof

\* What was returned is not read again.
Returned ==
  \A g \in 1..Len(got) :
    /\ got[g].m \in 1..Len(sent)
    /\ \A j \in 1..Len(wire) : got[g].m < wire[j].m
    /\ part # <<>> => got[g].m < part[1].m

\* The rest of a push is first in the stream only after a read was given up.
Resumed ==
  part = <<>> /\ wire # <<>> /\ (wire[1].i # 0 \/ wire[1].torn)
    => wire[1].m \in dropped

StreamInv ==
  /\ Typed /\ Unread /\ InPart /\ Returned /\ Resumed
  /\ ReceivedInOrder /\ NothingSkipped

-----------------------------------------------------------------------------
(* Pushes and their units                                                    *)

LEMMA FcnIsSeq ==
  ASSUME NEW S, NEW n \in Nat, NEW f \in [1..n -> S]
  PROVE  f \in Seq(S) /\ Len(f) = n
  OBVIOUS

\* receive() decodes the array of a push to the message it stands for.
LEMMA DecodeFields ==
  ASSUME NEW p \in Pushes
  PROVE  /\ Len(Fields(p)) \in Nat
         /\ p = Error => Len(Fields(p)) = 0
         /\ p # Error => Len(Fields(p)) >= 3 /\ Decode(Fields(p)) = p
         /\ Fields(p) = [j \in 1..Len(Fields(p)) |-> Fields(p)[j]]
  <1>1. CASE p = Error
    BY <1>1 DEF Fields, Error
  <1>2. CASE p \in [type : {"Subscription"}, kind : SubKinds,
                    channel : Names \cup {NoName}, count : Nat]
    <2>1. p = Subscription(p.kind, p.channel, p.count) /\ p.kind \in SubKinds
      BY <1>2 DEF Subscription
    <2> DEFINE x == IF p.channel = NoName THEN Nil ELSE Str(p.channel)
    <2>2. Text(x) = p.channel
      BY DEF Text, Nil, Str
    <2>3. Fields(p) = <<Str(p.kind), x, Num(p.count)>>
      BY <1>2 DEF Fields
    <2> HIDE DEF x
    <2>4. Decode(Fields(p)) = Subscription(p.kind, Text(x), p.count)
      <3>1. p.kind \notin {"message", "pmessage"}
        BY <2>1 DEF SubKinds, ChannelOps, PatternOps
      <3>2. QED
        BY <2>1, <2>3, <3>1 DEF Decode, Str, Num, Count
    <2>5. p # Error
      BY <1>2 DEF Error
    <2>6. QED
      BY <2>1, <2>2, <2>3, <2>4, <2>5
  <1>3. CASE p \in [type : {"Message"}, channel : Channels, payload : Nat]
    <2>1. p = Message(p.channel, p.payload)
      BY <1>3 DEF Message
    <2>2. Fields(p) = <<Str("message"), Str(p.channel), Str(p.payload)>>
      BY <1>3 DEF Fields
    <2>3. Decode(Fields(p)) = Message(p.channel, p.payload)
      BY <2>2 DEF Decode, Str, Text, SubKinds, ChannelOps, PatternOps
    <2>4. p # Error
      BY <1>3 DEF Error
    <2>5. QED
      BY <2>1, <2>2, <2>3, <2>4
  <1>4. CASE p \in [type : {"PMessage"}, pattern : Patterns, channel : Channels,
                    payload : Nat]
    <2>1. p = PMessage(p.pattern, p.channel, p.payload)
      BY <1>4 DEF PMessage
    <2>2. Fields(p) = <<Str("pmessage"), Str(p.pattern), Str(p.channel),
                        Str(p.payload)>>
      BY <1>4 DEF Fields
    <2>3. Decode(Fields(p)) = PMessage(p.pattern, p.channel, p.payload)
      BY <2>2 DEF Decode, Str, Text, SubKinds, ChannelOps, PatternOps
    <2>4. p # Error
      BY <1>4 DEF Error
    <2>5. QED
      BY <2>1, <2>2, <2>3, <2>4
  <1>5. QED
    BY <1>1, <1>2, <1>3, <1>4 DEF Pushes

LEMMA LastOfType ==
  ASSUME NEW snt \in Seq(Pushes), NEW m \in 1..Len(snt)
  PROVE  /\ LastOf(snt, m) \in Nat
         /\ snt[m] = Error => LastOf(snt, m) = 0
  <1>1. snt[m] \in Pushes
    OBVIOUS
  <1>2. QED
    BY <1>1, DecodeFields DEF LastOf

\* A chain read with more pushes behind.
LEMMA ChainLater ==
  ASSUME NEW snt, NEW s, NEW lat, Chain(snt, s),
         Len(snt) \in Nat, Len(lat) \in Nat, Len(snt) <= Len(lat),
         \A m \in 1..Len(snt) : lat[m] = snt[m]
  PROVE  Chain(lat, s)
  <1>1. \A m \in 1..Len(snt) : LastOf(lat, m) = LastOf(snt, m) /\ m \in 1..Len(lat)
    BY DEF LastOf
  <1>2. \A j \in 1..Len(s) : s[j].m \in 1..Len(lat) /\ s[j].i <= LastOf(lat, s[j].m)
    BY <1>1 DEF Chain
  <1>3. \A j \in 1..Len(s) : j + 1 <= Len(s) => Follows(lat, s[j], s[j + 1])
    <2> SUFFICES ASSUME NEW j \in 1..Len(s), j + 1 <= Len(s)
                 PROVE  Follows(lat, s[j], s[j + 1])
      OBVIOUS
    <2>1. Follows(snt, s[j], s[j + 1]) /\ s[j].m \in 1..Len(snt)
      BY DEF Chain
    <2>2. QED
      BY <1>1, <2>1 DEF Follows
  <1>4. QED
    BY <1>2, <1>3 DEF Chain

\* A sequence with the units of a part of a chain.
LEMMA ChainPiece ==
  ASSUME NEW snt, NEW s, Chain(snt, s), NEW q \in Seq(Units), NEW k \in Nat,
         Len(q) + k <= Len(s),
         \A j \in 1..Len(q) : q[j].m = s[j + k].m /\ q[j].i = s[j + k].i
  PROVE  Chain(snt, q)
  <1>0. Len(q) \in Nat /\ Len(s) \in Nat /\ \A j \in 1..Len(q) : j + k \in 1..Len(s)
    BY DEF Chain
  <1>1. \A j \in 1..Len(q) : q[j].m \in 1..Len(snt) /\ q[j].i <= LastOf(snt, q[j].m)
    <2> SUFFICES ASSUME NEW j \in 1..Len(q)
                 PROVE  q[j].m \in 1..Len(snt) /\ q[j].i <= LastOf(snt, q[j].m)
      OBVIOUS
    <2>1. j + k \in 1..Len(s)
      BY <1>0
    <2>2. s[j + k].m \in 1..Len(snt) /\ s[j + k].i <= LastOf(snt, s[j + k].m)
      BY <2>1 DEF Chain
    <2>3. QED
      BY <2>2
  <1>2. \A j, l \in 1..Len(q) : j < l => Before(q[j], q[l])
    <2> SUFFICES ASSUME NEW j \in 1..Len(q), NEW l \in 1..Len(q), j < l
                 PROVE  Before(q[j], q[l])
      OBVIOUS
    <2>1. j + k \in 1..Len(s) /\ l + k \in 1..Len(s) /\ j + k < l + k
      BY <1>0
    <2>2. Before(s[j + k], s[l + k])
      BY <2>1 DEF Chain
    <2>3. QED
      BY <2>2 DEF Before
  <1>3. \A j \in 1..Len(q) : j + 1 <= Len(q) => Follows(snt, q[j], q[j + 1])
    <2> SUFFICES ASSUME NEW j \in 1..Len(q), j + 1 <= Len(q)
                 PROVE  Follows(snt, q[j], q[j + 1])
      OBVIOUS
    <2>1. j + 1 \in 1..Len(q) /\ j + k \in 1..Len(s) /\ (j + k) + 1 <= Len(s)
          /\ (j + 1) + k = (j + k) + 1
      BY <1>0
    <2>2. Follows(snt, s[j + k], s[(j + k) + 1])
      BY <2>1 DEF Chain
    <2>3. q[j + 1].m = s[(j + k) + 1].m /\ q[j + 1].i = s[(j + k) + 1].i
      BY <2>1
    <2>4. QED
      BY <2>2, <2>3 DEF Follows
  <1>4. QED
    BY <1>1, <1>2, <1>3 DEF Chain

\* One chain continues another.
LEMMA ChainJoin ==
  ASSUME NEW snt, NEW s, NEW w, Chain(snt, s), Chain(snt, w), s # <<>>, w # <<>>,
         Follows(snt, s[Len(s)], w[1]),
         \A j \in 1..Len(s), k \in 1..Len(w) : s[j].m < w[k].m
  PROVE  /\ Chain(snt, s \o w)
         /\ Len(s \o w) = Len(s) + Len(w)
         /\ \A j \in 1..Len(s) : (s \o w)[j] = s[j]
         /\ \A k \in 1..Len(w) : (s \o w)[Len(s) + k] = w[k]
  <1> DEFINE q == s \o w
  <1>1. s \in Seq(Units) /\ w \in Seq(Units)
    BY DEF Chain
  <1>2. q \in Seq(Units) /\ Len(q) = Len(s) + Len(w)
    BY <1>1
  <1>3. Len(s) \in Nat \ {0} /\ Len(w) \in Nat \ {0}
    BY <1>1
  <1>4. \A j \in 1..Len(s) : q[j] = s[j]
    BY <1>1
  <1>5. \A k \in 1..Len(w) : q[Len(s) + k] = w[k]
    BY <1>1
  <1> HIDE DEF q
  <1>6. \A j \in 1..Len(q) : j \in 1..Len(s) \/ \E k \in 1..Len(w) : j = Len(s) + k
    <2> SUFFICES ASSUME NEW j \in 1..Len(q), j \notin 1..Len(s)
                 PROVE  \E k \in 1..Len(w) : j = Len(s) + k
      OBVIOUS
    <2>1. j - Len(s) \in 1..Len(w) /\ j = Len(s) + (j - Len(s))
      BY <1>2, <1>3
    <2>2. QED
      BY <2>1
  <1>7. \A j \in 1..Len(q) : q[j].m \in 1..Len(snt) /\ q[j].i <= LastOf(snt, q[j].m)
    BY <1>4, <1>5, <1>6 DEF Chain
  <1>8. \A j, l \in 1..Len(q) : j < l => Before(q[j], q[l])
    <2> SUFFICES ASSUME NEW j \in 1..Len(q), NEW l \in 1..Len(q), j < l
                 PROVE  Before(q[j], q[l])
      OBVIOUS
    <2>1. CASE j \in 1..Len(s) /\ l \in 1..Len(s)
      BY <2>1, <1>4 DEF Chain
    <2>2. ASSUME j \in 1..Len(s), NEW k \in 1..Len(w), l = Len(s) + k
          PROVE  Before(q[j], q[l])
      BY <2>2, <1>4, <1>5 DEF Before
    <2>3. ASSUME NEW k \in 1..Len(w), l = Len(s) + k,
                 NEW h \in 1..Len(w), j = Len(s) + h
          PROVE  Before(q[j], q[l])
      <3>1. h < k
        BY <2>3, <1>3
      <3>2. Before(w[h], w[k])
        BY <3>1 DEF Chain
      <3>3. QED
        BY <3>2, <2>3, <1>5
    <2>4. ASSUME NEW h \in 1..Len(w), j = Len(s) + h, l \in 1..Len(s)
          PROVE  FALSE
      BY <2>4, <1>3
    <2>5. QED
      BY <2>1, <2>2, <2>3, <2>4, <1>6
  <1>9. \A j \in 1..Len(q) : j + 1 <= Len(q) => Follows(snt, q[j], q[j + 1])
    <2> SUFFICES ASSUME NEW j \in 1..Len(q), j + 1 <= Len(q)
                 PROVE  Follows(snt, q[j], q[j + 1])
      OBVIOUS
    <2>1. CASE j + 1 \in 1..Len(s)
      <3>1. j \in 1..Len(s) /\ j + 1 <= Len(s)
        BY <2>1, <1>3
      <3>2. Follows(snt, s[j], s[j + 1])
        BY <3>1 DEF Chain
      <3>3. QED
        BY <3>1, <3>2, <2>1, <1>4
    <2>2. CASE j = Len(s)
      <3>1. q[j] = s[Len(s)] /\ q[j + 1] = w[1]
        BY <2>2, <1>3, <1>4, <1>5
      <3>2. QED
        BY <3>1
    <2>3. ASSUME NEW k \in 1..Len(w), j = Len(s) + k
          PROVE  Follows(snt, q[j], q[j + 1])
      <3>1. k + 1 <= Len(w) /\ k + 1 \in 1..Len(w) /\ j + 1 = Len(s) + (k + 1)
        BY <2>3, <1>2, <1>3
      <3>2. Follows(snt, w[k], w[k + 1])
        BY <3>1 DEF Chain
      <3>3. QED
        BY <3>1, <3>2, <2>3, <1>5
    <2>4. j + 1 \in 1..Len(s) \/ j = Len(s) \/ j \notin 1..Len(s)
      BY <1>3
    <2>5. QED
      BY <2>1, <2>2, <2>3, <2>4, <1>6
  <1>10. QED
    BY <1>2, <1>4, <1>5, <1>7, <1>8, <1>9 DEF Chain, q

\* s is the stream of the pushes a + 1 to b of snt.
Whole(snt, a, b, s) ==
  /\ Chain(snt, s)
  /\ s # <<>>
  /\ \A j \in 1..Len(s) : ~s[j].torn /\ s[j].m > a /\ s[j].m <= b
  /\ s[1].m = a + 1 /\ s[1].i = 0
  /\ s[Len(s)].m = b /\ s[Len(s)].i = LastOf(snt, b)
  /\ \A m \in 1..Len(snt) : m > a /\ m <= b => \E j \in 1..Len(s) : s[j].m = m

LEMMA UnitsWhole ==
  ASSUME NEW snt \in Seq(Pushes), NEW a \in Nat, a + 1 <= Len(snt)
  PROVE  Whole(snt, a, a + 1, UnitsOf(a + 1, snt[a + 1]))
  <1> DEFINE m == a + 1
             n == LastOf(snt, m)
             s == UnitsOf(m, snt[m])
  <1>1. m \in 1..Len(snt) /\ m \in Nat /\ m > a
    OBVIOUS
  <1>2. n \in Nat
    BY <1>1, LastOfType
  <1>3. s = [j \in 1..(n + 1) |-> [m |-> m, i |-> j - 1, torn |-> FALSE]]
    BY DEF UnitsOf, LastOf
  <1> HIDE DEF m, n, s
  <1>4. \A j \in 1..(n + 1) : s[j] = [m |-> m, i |-> j - 1, torn |-> FALSE]
    BY <1>3
  <1>5. s \in Seq(Units) /\ Len(s) = n + 1
    <2>1. s \in [1..(n + 1) -> Units]
      <3>1. \A j \in 1..(n + 1) : [m |-> m, i |-> j - 1, torn |-> FALSE] \in Units
        BY <1>1, <1>2 DEF Units
      <3>2. QED
        BY <1>3, <3>1
    <2>2. n + 1 \in Nat
      BY <1>2
    <2>3. QED
      BY <2>1, <2>2, FcnIsSeq
  <1>6. \A j \in 1..Len(s) : s[j].m = m /\ s[j].i = j - 1 /\ ~s[j].torn
    BY <1>4, <1>5
  <1>7. Chain(snt, s)
    <2>1. \A j \in 1..Len(s) : s[j].m \in 1..Len(snt)
      BY <1>1, <1>6
    <2>2. \A j \in 1..Len(s) : s[j].i <= LastOf(snt, s[j].m)
      <3> SUFFICES ASSUME NEW j \in 1..Len(s)
                   PROVE  s[j].i <= LastOf(snt, s[j].m)
        OBVIOUS
      <3>1. s[j].m = m /\ s[j].i = j - 1 /\ j - 1 <= n
        BY <1>2, <1>5, <1>6
      <3>2. LastOf(snt, s[j].m) = n
        BY <3>1 DEF n
      <3>3. QED
        BY <3>1, <3>2
    <2>3. \A j, k \in 1..Len(s) : j < k => Before(s[j], s[k])
      BY <1>2, <1>5, <1>6 DEF Before
    <2>4. \A j \in 1..Len(s) : j + 1 <= Len(s) => Follows(snt, s[j], s[j + 1])
      <3> SUFFICES ASSUME NEW j \in 1..Len(s), j + 1 <= Len(s)
                   PROVE  Follows(snt, s[j], s[j + 1])
        OBVIOUS
      <3>1. j + 1 \in 1..Len(s)
        BY <1>2, <1>5
      <3>2. s[j].m = m /\ s[j].i = j - 1 /\ s[j + 1].m = m /\ s[j + 1].i = (j + 1) - 1
        BY <3>1, <1>6
      <3>3. (j + 1) - 1 = (j - 1) + 1
        BY <1>2, <1>5
      <3>4. QED
        BY <3>2, <3>3 DEF Follows
    <2>5. QED
      BY <2>1, <2>2, <2>3, <2>4, <1>5 DEF Chain
  <1>8. 1 \in 1..Len(s) /\ Len(s) \in 1..Len(s) /\ Len(s) - 1 = n /\ s # <<>>
    BY <1>2, <1>5
  <1>9. s[1].m = m /\ s[1].i = 0 /\ s[Len(s)].m = m /\ s[Len(s)].i = n
    BY <1>6, <1>8
  <1>10. \A k \in 1..Len(snt) : k > a /\ k <= m => \E j \in 1..Len(s) : s[j].m = k
    BY <1>8, <1>9 DEF m
  <1>11. \A j \in 1..Len(s) : ~s[j].torn /\ s[j].m > a /\ s[j].m <= m
    BY <1>1, <1>6
  <1>12. Whole(snt, a, m, s)
    BY <1>7, <1>8, <1>9, <1>10, <1>11 DEF Whole, m, n
  <1>13. QED
    BY <1>12 DEF m, s

LEMMA WholeJoin ==
  ASSUME NEW snt, NEW a \in Nat, NEW b \in Nat, NEW c \in Nat, a < b, b < c,
         NEW s, NEW w, Whole(snt, a, b, s), Whole(snt, b, c, w), Len(snt) \in Nat
  PROVE  Whole(snt, a, c, s \o w)
  <1> DEFINE q == s \o w
  <1>1. Len(s) \in Nat \ {0} /\ Len(w) \in Nat \ {0}
    <2>1. s \in Seq(Units) /\ w \in Seq(Units) /\ s # <<>> /\ w # <<>>
      BY DEF Whole, Chain
    <2>2. QED
      BY <2>1
  <1>2. \A j \in 1..Len(s) : s[j].m \in Nat /\ s[j].m > a /\ s[j].m <= b /\ ~s[j].torn
    BY DEF Whole, Chain
  <1>3. \A j \in 1..Len(w) : w[j].m \in Nat /\ w[j].m > b /\ w[j].m <= c /\ ~w[j].torn
    BY DEF Whole, Chain
  <1>4. \A j \in 1..Len(s), k \in 1..Len(w) : s[j].m < w[k].m
    BY <1>2, <1>3
  <1>5. Follows(snt, s[Len(s)], w[1])
    BY DEF Whole, Follows
  <1>6. /\ Chain(snt, q) /\ Len(q) = Len(s) + Len(w)
        /\ \A j \in 1..Len(s) : q[j] = s[j]
        /\ \A k \in 1..Len(w) : q[Len(s) + k] = w[k]
    <2>1. Chain(snt, s) /\ Chain(snt, w) /\ s # <<>> /\ w # <<>>
      BY DEF Whole
    <2>2. QED
      BY <1>4, <1>5, <2>1, ChainJoin
  <1> HIDE DEF q
  <1>7. ASSUME NEW j \in 1..Len(q)
        PROVE  ~q[j].torn /\ q[j].m > a /\ q[j].m <= c
    <2>1. CASE j \in 1..Len(s)
      BY <2>1, <1>2, <1>6
    <2>2. CASE j \notin 1..Len(s)
      <3> DEFINE k == j - Len(s)
      <3>1. k \in 1..Len(w) /\ j = Len(s) + k
        BY <2>2, <1>1, <1>6
      <3> HIDE DEF k
      <3>2. QED
        BY <3>1, <1>3, <1>6
    <2>3. QED
      BY <2>1, <2>2
  <1>8. q # <<>> /\ q[1] = s[1] /\ q[Len(q)] = w[Len(w)]
    BY <1>1, <1>6
  <1>9. ASSUME NEW m \in 1..Len(snt), m > a, m <= c
        PROVE  \E j \in 1..Len(q) : q[j].m = m
    <2>1. CASE m <= b
      <3>1. PICK j \in 1..Len(s) : s[j].m = m
        BY <2>1, <1>9 DEF Whole
      <3>2. j \in 1..Len(q) /\ q[j] = s[j]
        BY <1>1, <1>6
      <3>3. QED
        BY <3>1, <3>2
    <2>2. CASE m > b
      <3>1. PICK j \in 1..Len(w) : w[j].m = m
        BY <2>2, <1>9 DEF Whole
      <3>2. Len(s) + j \in 1..Len(q) /\ q[Len(s) + j] = w[j]
        BY <1>1, <1>6
      <3>3. QED
        BY <3>1, <3>2
    <2>3. QED
      BY <2>1, <2>2
  <1>10. Whole(snt, a, c, q)
    BY <1>6, <1>7, <1>8, <1>9 DEF Whole
  <1>11. QED
    BY <1>10 DEF q

\* What Push puts on the wire, by induction on the number of pushes.
LEMMA FlattenWhole ==
  ASSUME NEW snt \in Seq(Pushes), NEW a \in Nat, NEW n \in Nat \ {0},
         a + n <= Len(snt), NEW ss, Len(ss) = n,
         \A j \in 1..n : ss[j] = UnitsOf(a + j, snt[a + j])
  PROVE  Whole(snt, a, a + n, FlattenSeq(ss))
  <1>1. PICK f : Flattens(f, ss, n) /\ FlattenSeq(ss) = f[n]
    BY FlattenIs
  <1>2. \A j \in 1..n : f[j] = IF j = 1 THEN ss[j] ELSE f[j - 1] \o ss[j]
    BY <1>1 DEF Flattens
  <1> DEFINE T == {k \in Nat : k \in 1..n => Whole(snt, a, a + k, f[k])}
  <1>3. 0 \in T
    OBVIOUS
  <1>4. ASSUME NEW k \in T
        PROVE  k + 1 \in T
    <2>1. k \in Nat /\ (k \in 1..n => Whole(snt, a, a + k, f[k]))
      OBVIOUS
    <2> HIDE DEF T
    <2> SUFFICES ASSUME k + 1 \in 1..n
                 PROVE  Whole(snt, a, a + (k + 1), f[k + 1])
      BY <2>1 DEF T
    <2> DEFINE b == a + k
    <2>2. b \in Nat /\ a + (k + 1) = b + 1 /\ b + 1 <= Len(snt)
      BY <2>1
    <2>3. ss[k + 1] = UnitsOf(b + 1, snt[b + 1])
      BY <2>2
    <2>4. Whole(snt, b, b + 1, ss[k + 1])
      <3> HIDE DEF b
      <3>1. QED
        BY <2>2, <2>3, UnitsWhole
    <2>5. CASE k = 0
      <3>1. f[k + 1] = ss[k + 1] /\ b = a
        BY <2>5, <1>2
      <3>2. QED
        BY <2>2, <2>4, <3>1
    <2>6. CASE k # 0
      <3>1. k \in 1..n /\ k + 1 # 1 /\ (k + 1) - 1 = k
        BY <2>1, <2>6
      <3>2. f[k + 1] = f[k] \o ss[k + 1]
        BY <1>2, <3>1
      <3>3. Whole(snt, a, b, f[k])
        BY <2>1, <3>1
      <3>4. a < b /\ b < b + 1 /\ b + 1 \in Nat /\ Len(snt) \in Nat
        BY <2>1, <2>6
      <3> HIDE DEF b
      <3>5. Whole(snt, a, b + 1, f[k] \o ss[k + 1])
        BY <2>2, <2>4, <3>3, <3>4, WholeJoin
      <3>6. QED
        BY <2>2, <3>2, <3>5
    <2>7. QED
      BY <2>5, <2>6
  <1>5. T = Nat
    <2>1. T \in SUBSET Nat
      OBVIOUS
    <2> HIDE DEF T
    <2>2. QED
      BY <1>3, <1>4, <2>1, SetInduction
  <1>6. n \in T /\ n \in 1..n
    BY <1>5
  <1>7. QED
    BY <1>1, <1>6

LEMMA PushWhole ==
  ASSUME sent \in Seq(Pushes), wire \in Seq(Units), NEW ps \in Seq(Pushes), Push(ps)
  PROVE  /\ sent' \in Seq(Pushes)
         /\ Len(sent) \in Nat /\ Len(sent') = Len(sent) + Len(ps)
         /\ \A m \in 1..Len(sent) : sent'[m] = sent[m]
         /\ ps = <<>> => wire' = wire /\ sent' = sent
         /\ ps # <<>> => \E s : /\ wire' = wire \o s
                                /\ Whole(sent', Len(sent), Len(sent'), s)
  <1> DEFINE n == Len(ps)
             a == Len(sent)
             ss == [j \in 1..n |-> UnitsOf(a + j, ps[j])]
  <1>1. n \in Nat /\ a \in Nat /\ sent' = sent \o ps /\ wire' = wire \o FlattenSeq(ss)
    BY DEF Push
  <1>2. sent' \in Seq(Pushes) /\ Len(sent') = a + n
    BY <1>1
  <1>3. \A m \in 1..a : sent'[m] = sent[m]
    BY <1>1
  <1>4. \A j \in 1..n : sent'[a + j] = ps[j]
    BY <1>1
  <1>5. ASSUME ps = <<>>
        PROVE  wire' = wire /\ sent' = sent
    <2>1. n = 0 /\ sent' = sent
      BY <1>1, <1>5
    <2>2. ss = <<>>
      BY <2>1
    <2>3. FlattenSeq(<<>>) = <<>>
      BY DEF FlattenSeq
    <2>4. wire \o <<>> = wire
      OBVIOUS
    <2>5. QED
      BY <1>1, <2>1, <2>2, <2>3, <2>4
  <1>6. ASSUME ps # <<>>
        PROVE  Whole(sent', a, a + n, FlattenSeq(ss))
    <2>1. n \in Nat \ {0}
      BY <1>6
    <2> HIDE DEF n, a
    <2>2. Len(ss) = n
      BY <1>1
    <2>3. \A j \in 1..n : ss[j] = UnitsOf(a + j, sent'[a + j])
      BY <1>4
    <2>4. a \in Nat /\ a + n <= Len(sent')
      BY <1>1, <1>2
    <2> HIDE DEF ss
    <2>5. QED
      BY <1>2, <2>1, <2>2, <2>3, <2>4, FlattenWhole
  <1>7. ASSUME ps # <<>>
        PROVE  \E s : wire' = wire \o s /\ Whole(sent', a, Len(sent'), s)
    BY <1>1, <1>2, <1>6, <1>7
  <1>8. QED
    BY <1>1, <1>2, <1>3, <1>5, <1>7

-----------------------------------------------------------------------------
(* Steps of the server                                                       *)

StreamParts == Unread /\ InPart /\ Returned /\ Resumed /\ ReceivedInOrder /\ NothingSkipped

\* More pushes arrive behind the unread ones.
LEMMA PushStep ==
  ASSUME Typed, StreamParts, ~eof, NEW ps \in Seq(Pushes), Push(ps),
         eof' \in BOOLEAN, UNCHANGED <<part, got, dropped>>
  PROVE  StreamParts' /\ sent' \in Seq(Pushes) /\ dropped' \subseteq 1..Len(sent')
  <1> USE DEF StreamParts
  <1>1. sent \in Seq(Pushes) /\ wire \in Seq(Units) /\ part \in Seq(Units)
        /\ got \in Seq([m : Nat, msg : Pushes]) /\ dropped \subseteq 1..Len(sent)
    BY DEF Typed, TypeOK, Unread, Chain
  <1>2. /\ sent' \in Seq(Pushes) /\ Len(sent) \in Nat /\ Len(sent') \in Nat
        /\ Len(sent) <= Len(sent')
        /\ \A m \in 1..Len(sent) : /\ sent'[m] = sent[m] /\ m \in 1..Len(sent')
                                   /\ LastOf(sent', m) = LastOf(sent, m)
    <2>1. /\ sent' \in Seq(Pushes) /\ Len(sent) \in Nat /\ Len(ps) \in Nat
          /\ Len(sent') = Len(sent) + Len(ps)
          /\ \A m \in 1..Len(sent) : sent'[m] = sent[m]
      BY <1>1, PushWhole
    <2>2. QED
      BY <2>1 DEF LastOf
  <1>3. dropped' \subseteq 1..Len(sent')
    BY <1>1, <1>2
  <1>4. CASE ps = <<>>
    <2>1. wire' = wire /\ sent' = sent
      BY <1>1, <1>4, PushWhole
    <2>2. Unread'
      BY <2>1 DEF Unread
    <2>3. InPart'
      BY <2>1 DEF InPart
    <2>4. Returned' /\ Resumed' /\ ReceivedInOrder'
      BY <2>1 DEF Returned, Resumed, ReceivedInOrder
    <2>5. NothingSkipped'
      BY <2>1 DEF NothingSkipped
    <2>6. QED
      BY <1>2, <1>3, <2>2, <2>3, <2>4, <2>5
  <1>5. CASE ps # <<>>
    <2>1. PICK s : wire' = wire \o s /\ Whole(sent', Len(sent), Len(sent'), s)
      BY <1>1, <1>5, PushWhole
    <2>2. Chain(sent', wire)
      BY <1>2, ChainLater DEF Unread
    <2>3. /\ s \in Seq(Units) /\ s # <<>> /\ Chain(sent', s)
          /\ \A j \in 1..Len(s) : ~s[j].torn /\ s[j].m > Len(sent) /\ s[j].m \in Nat
      BY <2>1 DEF Whole, Chain
    <2>4. /\ Chain(sent', wire') /\ Len(wire') = Len(wire) + Len(s)
          /\ \A j \in 1..Len(wire) : wire'[j] = wire[j]
          /\ \A k \in 1..Len(s) : wire'[Len(wire) + k] = s[k]
      <3>1. CASE wire = <<>>
        <4>1. wire' = s /\ Len(wire) = 0
          BY <1>1, <2>1, <2>3, <3>1
        <4>2. QED
          BY <2>3, <4>1
      <3>2. CASE wire # <<>>
        <4>1. \A j \in 1..Len(wire), k \in 1..Len(s) : wire[j].m < s[k].m
          <5>1. \A j \in 1..Len(wire) : wire[j].m \in 1..Len(sent)
            BY DEF Unread, Chain
          <5>2. QED
            BY <5>1, <1>2, <2>3
        <4>2. Len(sent) \in 1..Len(sent)
          <5>1. Len(wire) \in 1..Len(wire)
            BY <1>1, <3>2
          <5>2. wire[Len(wire)].m \in 1..Len(sent)
            BY <5>1 DEF Unread, Chain
          <5>3. QED
            BY <5>2, <1>2
        <4>3. Follows(sent', wire[Len(wire)], s[1])
          <5>1. wire[Len(wire)].m = Len(sent) /\ wire[Len(wire)].i = LastOf(sent, Len(sent))
            BY <3>2 DEF Unread
          <5>2. LastOf(sent', Len(sent)) = LastOf(sent, Len(sent))
            BY <1>2, <4>2
          <5>3. QED
            BY <2>1, <5>1, <5>2 DEF Follows, Whole
        <4>4. QED
          BY <2>1, <2>2, <2>3, <3>2, <4>1, <4>3, ChainJoin
      <3>3. QED
        BY <3>1, <3>2
    <2>5. Len(wire) \in Nat /\ Len(s) \in Nat \ {0}
      BY <1>1, <2>3
    <2>6. \A j \in 1..Len(wire') : j \in 1..Len(wire) \/ \E k \in 1..Len(s) : j = Len(wire) + k
      <3> SUFFICES ASSUME NEW j \in 1..Len(wire'), j \notin 1..Len(wire)
                   PROVE  \E k \in 1..Len(s) : j = Len(wire) + k
        OBVIOUS
      <3>1. j - Len(wire) \in 1..Len(s) /\ j = Len(wire) + (j - Len(wire))
        BY <2>4, <2>5
      <3>2. QED
        BY <3>1
    <2>7. Unread'
      <3>1. \A j \in 2..Len(wire') : ~wire'[j].torn
        <4> SUFFICES ASSUME NEW j \in 2..Len(wire')
                     PROVE  ~wire'[j].torn
          OBVIOUS
        <4>0. j \in 1..Len(wire')
          OBVIOUS
        <4>1. CASE j \in 1..Len(wire)
          <5>1. j \in 2..Len(wire) /\ wire'[j] = wire[j]
            BY <4>1, <2>4, <2>5
          <5>2. QED
            BY <5>1 DEF Unread
        <4>2. ASSUME NEW k \in 1..Len(s), j = Len(wire) + k
              PROVE  ~wire'[j].torn
          BY <4>2, <2>3, <2>4
        <4>3. QED
          BY <4>0, <4>1, <4>2, <2>6
      <3>2. wire'[Len(wire')] = s[Len(s)]
        BY <2>4, <2>5
      <3>3. s[Len(s)].m = Len(sent') /\ s[Len(s)].i = LastOf(sent', Len(sent'))
        BY <2>1 DEF Whole
      <3>4. QED
        BY <2>4, <3>1, <3>2, <3>3 DEF Unread
    <2>8. InPart'
      <3> SUFFICES ASSUME part # <<>>
                   PROVE  InPart'
        BY DEF InPart
      <3>1. wire # <<>>
        BY DEF InPart
      <3>2. wire' # <<>> /\ wire'[1] = wire[1]
        BY <1>1, <2>4, <2>5, <3>1
      <3>3. part[1].m \in 1..Len(sent)
        BY DEF InPart
      <3>4. /\ part[1].m \in 1..Len(sent') /\ sent'[part[1].m] = sent[part[1].m]
            /\ LastOf(sent', part[1].m) = LastOf(sent, part[1].m)
        BY <1>2, <3>3
      <3>5. QED
        BY <3>1, <3>2, <3>4 DEF InPart
    <2>9. Returned'
      <3> SUFFICES ASSUME NEW g \in 1..Len(got)
                   PROVE  /\ got[g].m \in 1..Len(sent')
                          /\ \A j \in 1..Len(wire') : got[g].m < wire'[j].m
                          /\ part # <<>> => got[g].m < part[1].m
        BY DEF Returned
      <3>1. /\ got[g].m \in 1..Len(sent)
            /\ \A j \in 1..Len(wire) : got[g].m < wire[j].m
            /\ part # <<>> => got[g].m < part[1].m
        BY DEF Returned
      <3>2. \A k \in 1..Len(s) : got[g].m < s[k].m
        BY <1>2, <2>3, <3>1
      <3>3. \A j \in 1..Len(wire') : got[g].m < wire'[j].m
        BY <2>4, <2>6, <3>1, <3>2
      <3>4. QED
        BY <1>2, <3>1, <3>3
    <2>10. Resumed'
      <3>1. CASE wire = <<>>
        <4>1. wire'[1] = s[1] /\ 1 \in 1..Len(s)
          BY <1>1, <2>1, <2>3, <2>5, <3>1
        <4>2. s[1].i = 0 /\ ~s[1].torn
          BY <2>1, <4>1 DEF Whole
        <4>3. QED
          BY <4>1, <4>2 DEF Resumed
      <3>2. CASE wire # <<>>
        <4>1. wire'[1] = wire[1]
          BY <1>1, <2>4, <2>5, <3>2
        <4>2. QED
          BY <3>2, <4>1 DEF Resumed
      <3>3. QED
        BY <3>1, <3>2
    <2>11. ReceivedInOrder'
      <3>1. \A g \in 1..Len(got) : sent'[got[g].m] = sent[got[g].m]
        BY <1>2 DEF Returned
      <3>2. QED
        BY <3>1 DEF ReceivedInOrder
    <2>12. NothingSkipped'
      <3> DEFINE Seen(m) == \/ \E j \in 1..Len(wire) : wire[j].m = m
                            \/ \E j \in 1..Len(part) : part[j].m = m
                            \/ \E g \in 1..Len(got) : got[g].m = m
                            \/ m \in dropped
      <3>1. \A m \in 1..Len(sent) : Seen(m)
        BY DEF NothingSkipped
      <3>2. \A j \in 1..Len(wire) : j \in 1..Len(wire') /\ wire'[j] = wire[j]
        BY <2>4, <2>5
      <3>3. \A m \in 1..Len(sent') : m > Len(sent) => \E j \in 1..Len(s) : s[j].m = m
        BY <1>2, <2>1 DEF Whole
      <3>4. \A k \in 1..Len(s) : Len(wire) + k \in 1..Len(wire') /\ wire'[Len(wire) + k] = s[k]
        BY <2>4, <2>5
      <3>5. \A m \in 1..Len(sent') : Seen(m) \/ \E j \in 1..Len(wire') : wire'[j].m = m
        <4> SUFFICES ASSUME NEW m \in 1..Len(sent')
                     PROVE  Seen(m) \/ \E j \in 1..Len(wire') : wire'[j].m = m
          OBVIOUS
        <4>1. CASE m \in 1..Len(sent)
          BY <3>1, <4>1
        <4>2. CASE m > Len(sent)
          <5>1. PICK k \in 1..Len(s) : s[k].m = m
            BY <3>3, <4>2
          <5>2. QED
            BY <3>4, <5>1
        <4>3. QED
          BY <1>2, <4>1, <4>2
      <3> HIDE DEF Seen
      <3>6. ASSUME NEW m \in 1..Len(sent')
            PROVE  m \in ({wire'[j].m : j \in 1..Len(wire')} \cup
                         {part'[j].m : j \in 1..Len(part')}) \cup
                         {got'[i].m : i \in 1..Len(got')} \cup dropped'
        <4>1. CASE Seen(m)
          BY <4>1, <3>2 DEF Seen
        <4>2. QED
          BY <4>1, <3>5
      <3>7. QED
        BY <3>6 DEF NothingSkipped
    <2>13. QED
      BY <1>2, <1>3, <2>7, <2>8, <2>9, <2>10, <2>11, <2>12
  <1>6. QED
    BY <1>4, <1>5

LEMMA SetToSeqType ==
  ASSUME NEW S, IsFiniteSet(S)
  PROVE  SetToSeq(S) \in Seq(S)
  <1> DEFINE n == Cardinality(S)
  <1>1. n \in Nat /\ ExistsBijection(1..n, S)
    BY FS_CardinalityType
  <1>2. PICK f : f \in Bijection(1..n, S)
    BY <1>1 DEF ExistsBijection
  <1>3. f \in [1..n -> S] /\ IsInjective(f)
    BY <1>2 DEF Bijection, Injection, Surjection, IsInjective
  <1>4. SetToSeq(S) \in [1..n -> S]
    BY <1>3 DEF SetToSeq
  <1>5. QED
    BY <1>1, <1>4, FcnIsSeq

LEMMA AffectedType ==
  ASSUME Typed, NEW c \in Commands
  PROVE  c.op \in SubKinds /\ Affected(c) \in Seq(Names)
  <1>1. /\ c.op \in SubKinds
        /\ c.items \in Lists(Channels) \cup Lists(Patterns)
    BY DEF Commands, SubKinds
  <1>2. PICK n \in 0..MaxItems, S \in {Channels, Patterns} : c.items \in [1..n -> S]
    BY <1>1 DEF Lists
  <1>3. c.items \in Seq(Names)
    <2>1. n \in Nat
      BY BoundsAssumption
    <2>2. c.items \in [1..n -> Names]
      BY <1>2 DEF Names
    <2>3. QED
      BY <2>1, <2>2, FcnIsSeq
  <1>4. ASSUME NEW held \in SUBSET subs
        PROVE  SetToSeq(held) \in Seq(Names)
    <2>1. IsFiniteSet(held)
      BY FS_Subset DEF Typed
    <2>2. SetToSeq(held) \in Seq(held)
      BY <2>1, SetToSeqType
    <2>3. held \subseteq Names
      BY DEF Typed, TypeOK, Names
    <2>4. QED
      BY <2>2, <2>3, SeqMonotonic
  <1>5. QED
    BY <1>1, <1>3, <1>4 DEF Affected

LEMMA SubsAfterType ==
  ASSUME Typed, NEW c \in Commands, NEW n \in 0..Len(Affected(c))
  PROVE  IsFiniteSet(SubsAfter(c, n)) /\ SubsAfter(c, n) \subseteq Names
  <1> DEFINE names == {Affected(c)[j] : j \in 1..n}
             f == [j \in 1..n |-> Affected(c)[j]]
  <1>1. Affected(c) \in Seq(Names)
    BY AffectedType
  <1>2. n \in Nat
    BY <1>1
  <1>3. names \subseteq Names
    BY <1>1, <1>2
  <1>4. IsFiniteSet(1..n)
    BY <1>2, FS_Interval
  <1>5. f \in Surjection(1..n, names)
    BY DEF Surjection
  <1>6. IsFiniteSet(names)
    BY <1>4, <1>5, FS_Surjection
  <1>7. IsFiniteSet(subs) /\ subs \subseteq Names
    BY DEF Typed, TypeOK, Names
  <1> HIDE DEF names
  <1>8. IsFiniteSet(subs \cup names) /\ IsFiniteSet(subs \ names)
    BY <1>6, <1>7, FS_Union, FS_Difference
  <1>9. SubsAfter(c, n) = IF c.op \in Adding THEN subs \cup names ELSE subs \ names
    BY DEF SubsAfter, names
  <1>10. QED
    BY <1>3, <1>7, <1>8, <1>9

LEMMA AnswerType ==
  ASSUME Typed, NEW c \in Commands
  PROVE  AnswerTo(c) \in Seq(Pushes)
  <1>1. c.op \in SubKinds /\ Affected(c) \in Seq(Names)
    BY AffectedType
  <1>2. \A x \in Names \cup {NoName}, n \in Nat : Subscription(c.op, x, n) \in Pushes
    BY <1>1 DEF Subscription, Pushes
  <1>3. CASE Affected(c) # <<>>
    <2> DEFINE n == Len(Affected(c))
               a == [j \in 1..n |-> Subscription(c.op, Affected(c)[j],
                                                 Cardinality(SubsAfter(c, j)))]
    <2>1. n \in Nat
      BY <1>1
    <2>2. \A j \in 1..n : a[j] \in Pushes
      <3> SUFFICES ASSUME NEW j \in 1..n
                   PROVE  Subscription(c.op, Affected(c)[j],
                                       Cardinality(SubsAfter(c, j))) \in Pushes
        OBVIOUS
      <3>1. j \in 0..Len(Affected(c))
        BY <2>1
      <3>2. Cardinality(SubsAfter(c, j)) \in Nat
        BY <3>1, SubsAfterType, FS_CardinalityType
      <3>3. Affected(c)[j] \in Names
        BY <1>1
      <3>4. QED
        BY <1>2, <3>2, <3>3
    <2>3. a \in [1..n -> Pushes]
      BY <2>2
    <2>4. AnswerTo(c) = a
      BY <1>3 DEF AnswerTo
    <2> HIDE DEF a, n
    <2>5. QED
      BY <2>1, <2>3, <2>4, FcnIsSeq
  <1>4. CASE Affected(c) = <<>>
    <2>1. Cardinality(subs) \in Nat
      BY FS_CardinalityType DEF Typed
    <2>2. Error \in Pushes /\ Subscription(c.op, NoName, Cardinality(subs)) \in Pushes
      BY <1>2, <2>1 DEF Pushes
    <2>3. AnswerTo(c) = <<Error>>
          \/ AnswerTo(c) = <<Subscription(c.op, NoName, Cardinality(subs))>>
      BY <1>4 DEF AnswerTo
    <2>4. \A p \in Pushes : <<p>> \in Seq(Pushes)
      OBVIOUS
    <2>5. QED
      BY <2>2, <2>3, <2>4
  <1>5. QED
    BY <1>3, <1>4

\* The part of Typed about the stream and what was read of it.
TypedRest == /\ sent \in Seq(Pushes) /\ part \in Seq(Units)
             /\ got \in Seq([m : Nat, msg : Pushes])
             /\ dropped \subseteq 1..Len(sent)
             /\ subs \subseteq Names /\ IsFiniteSet(subs)
             /\ cut \in BOOLEAN /\ eof \in BOOLEAN

\* A command arrives.
LEMMA ArrivesStep ==
  ASSUME Typed, StreamParts, NEW c \in Commands, Arrives(c),
         UNCHANGED <<part, got, dropped>>
  PROVE  StreamParts' /\ TypedRest'
  <1>0. TypedRest
    BY DEF Typed, TypeOK, TypedRest, Names
  <1>1. CASE eof
    <2>1. UNCHANGED <<sent, subs, cut, eof, wire>>
      BY <1>1 DEF Arrives, serverVars
    <2>2. Unread' /\ InPart'
      BY <2>1 DEF StreamParts, Unread, InPart
    <2>3. Returned' /\ Resumed' /\ ReceivedInOrder' /\ NothingSkipped'
      BY <2>1 DEF StreamParts, Returned, Resumed, ReceivedInOrder, NothingSkipped
    <2>4. QED
      BY <1>0, <2>1, <2>2, <2>3 DEF StreamParts, TypedRest
  <1>2. CASE ~eof /\ cut
    <2>1. Push(<<Error>>) /\ eof' = TRUE /\ UNCHANGED <<subs, cut>>
      BY <1>2 DEF Arrives
    <2>2. <<Error>> \in Seq(Pushes)
      BY DEF Pushes
    <2>3. StreamParts' /\ sent' \in Seq(Pushes) /\ dropped' \subseteq 1..Len(sent')
      BY <1>2, <2>1, <2>2, PushStep
    <2>4. QED
      BY <1>0, <2>1, <2>3 DEF TypedRest
  <1>3. CASE ~eof /\ ~cut
    <2>1. /\ Push(AnswerTo(c)) /\ subs' = SubsAfter(c, Len(Affected(c)))
          /\ UNCHANGED <<cut, eof>>
      BY <1>3 DEF Arrives
    <2>2. AnswerTo(c) \in Seq(Pushes)
      BY AnswerType
    <2>3. eof' \in BOOLEAN
      BY <1>0, <2>1 DEF TypedRest
    <2>4. StreamParts' /\ sent' \in Seq(Pushes) /\ dropped' \subseteq 1..Len(sent')
      BY <1>3, <2>1, <2>2, <2>3, PushStep
    <2>5. Len(Affected(c)) \in 0..Len(Affected(c))
      <3>1. Affected(c) \in Seq(Names)
        BY AffectedType
      <3>2. QED
        BY <3>1
    <2>6. IsFiniteSet(subs') /\ subs' \subseteq Names
      BY <2>1, <2>5, SubsAfterType
    <2>7. QED
      BY <1>0, <2>1, <2>4, <2>6 DEF TypedRest
  <1>4. QED
    BY <1>0, <1>1, <1>2, <1>3 DEF TypedRest

LEMMA PublishStep ==
  ASSUME Typed, StreamParts, NEW c \in Channels, Publish(c)
  PROVE  StreamParts' /\ TypedRest'
  <1> DEFINE payload  == published + 1
             plain    == IF c \in subs THEN <<Message(c, payload)>> ELSE <<>>
             patterns == SetToSeq(subs \cap Patterns)
             matched  == [j \in 1..Len(patterns) |-> PMessage(patterns[j], c, payload)]
  <1>0. TypedRest
    BY DEF Typed, TypeOK, TypedRest, Names
  <1>1. payload \in Nat
    BY BoundsAssumption DEF Typed, TypeOK
  <1>2. /\ ~eof /\ Push(plain \o matched)
        /\ UNCHANGED <<part, got, dropped, subs, cut, eof>>
    BY DEF Publish, clientVars
  <1>3. patterns \in Seq(Patterns)
    <2> DEFINE held == subs \cap Patterns
    <2>1. held \subseteq subs /\ held \subseteq Patterns
      OBVIOUS
    <2> HIDE DEF held
    <2>2. IsFiniteSet(held)
      BY <1>0, <2>1, FS_Subset DEF TypedRest
    <2>3. SetToSeq(held) \in Seq(Patterns)
      BY <2>1, <2>2, SetToSeqType, SeqMonotonic
    <2>4. QED
      BY <2>3 DEF held
  <1> HIDE DEF payload, patterns
  <1>4. plain \in Seq(Pushes)
    <2>1. Message(c, payload) \in Pushes
      BY <1>1 DEF Message, Pushes
    <2>2. QED
      BY <2>1
  <1>5. matched \in Seq(Pushes)
    <2>1. \A x \in Patterns : PMessage(x, c, payload) \in Pushes
      BY <1>1 DEF PMessage, Pushes
    <2>2. Len(patterns) \in Nat /\ \A j \in 1..Len(patterns) : patterns[j] \in Patterns
      BY <1>3
    <2>3. matched \in [1..Len(patterns) -> Pushes]
      BY <2>1, <2>2
    <2> HIDE DEF matched
    <2>4. QED
      BY <2>2, <2>3, FcnIsSeq
  <1> HIDE DEF plain, matched
  <1>6. plain \o matched \in Seq(Pushes)
    BY <1>4, <1>5
  <1>7. eof' \in BOOLEAN
    BY <1>0, <1>2 DEF TypedRest
  <1>8. StreamParts' /\ sent' \in Seq(Pushes) /\ dropped' \subseteq 1..Len(sent')
    BY <1>2, <1>6, <1>7, PushStep
  <1>9. QED
    BY <1>0, <1>2, <1>8 DEF TypedRest

LEMMA BreakStep ==
  ASSUME Typed, StreamParts, Break
  PROVE  StreamParts' /\ TypedRest'
  <1>0. TypedRest
    BY DEF Typed, TypeOK, TypedRest, Names
  <1>1. eof' = TRUE /\ UNCHANGED <<part, got, dropped, sent, subs, cut>>
    BY DEF Break, clientVars
  <1>2. PICK n \in 0..Len(wire) : wire' = SubSeq(wire, 1, n)
    BY DEF Break
  <1>3. Chain(sent, wire) /\ wire \in Seq(Units) /\ Len(wire) \in Nat
    BY DEF StreamParts, Unread, Chain
  <1>4. /\ wire' \in Seq(Units) /\ Len(wire') = n /\ n <= Len(wire)
        /\ \A j \in 1..Len(wire') : wire'[j] = wire[j] /\ j \in 1..Len(wire)
    <2>1. \A i \in 1..n : wire[i] \in Units
      BY <1>3
    <2>2. QED
      BY <1>2, <1>3, <2>1, SubSeqProperties
  <1>5. Chain(sent, wire')
    <2>1. \A j \in 1..Len(wire') : wire'[j].m = wire[j + 0].m /\ wire'[j].i = wire[j + 0].i
      BY <1>4
    <2>2. Len(wire') + 0 <= Len(wire)
      BY <1>2, <1>4
    <2>3. QED
      BY <1>3, <1>4, <2>1, <2>2, ChainPiece
  <1>6. wire' # <<>> => wire # <<>> /\ wire'[1] = wire[1]
    <2> HAVE wire' # <<>>
    <2>1. 1 \in 1..Len(wire')
      BY <1>4
    <2>2. QED
      BY <1>3, <1>4, <2>1
  <1>7. Unread'
    <2>1. \A j \in 2..Len(wire') : ~wire'[j].torn
      <3> SUFFICES ASSUME NEW j \in 2..Len(wire')
                   PROVE  ~wire'[j].torn
        OBVIOUS
      <3>1. j \in 2..Len(wire) /\ wire'[j] = wire[j]
        BY <1>3, <1>4
      <3>2. QED
        BY <3>1 DEF StreamParts, Unread
    <2>2. QED
      BY <1>1, <1>5, <2>1 DEF Unread
  <1>8. InPart'
    BY <1>1, <1>6 DEF StreamParts, InPart
  <1>9. Returned'
    BY <1>1, <1>4 DEF StreamParts, Returned
  <1>10. Resumed'
    BY <1>1, <1>6 DEF StreamParts, Resumed
  <1>11. ReceivedInOrder' /\ NothingSkipped'
    BY <1>1 DEF StreamParts, ReceivedInOrder, NothingSkipped
  <1>12. QED
    BY <1>0, <1>1, <1>7, <1>8, <1>9, <1>10, <1>11 DEF StreamParts, TypedRest

-----------------------------------------------------------------------------
(* Steps of receive()                                                        *)

Seen(m) ==
  \/ \E j \in 1..Len(wire) : wire[j].m = m
  \/ \E j \in 1..Len(part) : part[j].m = m
  \/ \E g \in 1..Len(got) : got[g].m = m
  \/ m \in dropped

\* A step that loses sight of no push.
LEMMA StillSeen ==
  ASSUME NothingSkipped, UNCHANGED <<sent, eof>>,
         \A m : Seen(m) => Seen(m)'
  PROVE  NothingSkipped'
  <1>1. ~eof => \A m \in 1..Len(sent) : Seen(m)
    BY DEF NothingSkipped, Seen
  <1>2. ~eof' => \A m \in 1..Len(sent') : Seen(m)'
    BY <1>1
  <1>3. QED
    BY <1>2 DEF NothingSkipped, Seen

\* The next unit is taken off the wire.
LEMMA TakeNext ==
  ASSUME Typed, StreamParts, wire # <<>>, wire' = Tail(wire), UNCHANGED <<sent, eof>>,
         NEW h, h = Head(wire)
  PROVE  /\ Unread'
         /\ Len(wire) \in Nat \ {0} /\ Len(wire') \in Nat
         /\ h \in Units /\ h = wire[1]
         /\ h.m \in 1..Len(sent) /\ h.i <= LastOf(sent, h.m)
         /\ \A j \in 1..Len(wire') : /\ j + 1 \in 1..Len(wire) /\ wire'[j] = wire[j + 1]
                                     /\ wire'[j].m >= h.m
                                     /\ h.i = LastOf(sent, h.m) => wire'[j].m > h.m
         /\ wire' # <<>> => Follows(sent, h, wire'[1]) /\ ~wire'[1].torn
         /\ wire' = <<>> /\ ~eof => h.i = LastOf(sent, h.m)
         /\ \A j \in 1..Len(wire) : wire[j] = h \/ \E k \in 1..Len(wire') : wire'[k] = wire[j]
  <1>1. Chain(sent, wire) /\ wire \in Seq(Units) /\ sent \in Seq(Pushes) /\ Len(sent) \in Nat
    BY DEF StreamParts, Typed, Unread, Chain
  <1>2. Len(wire) \in Nat \ {0}
    BY <1>1
  <1>3. /\ wire' \in Seq(Units) /\ Len(wire') = Len(wire) - 1
        /\ \A j \in 1..Len(wire') : wire'[j] = wire[j + 1]
    BY <1>1, HeadTailProperties
  <1>4. Len(wire') \in Nat /\ \A j \in 1..Len(wire') : j + 1 \in 1..Len(wire) /\ 1 < j + 1
    BY <1>2, <1>3
  <1>5. h = wire[1] /\ h \in Units /\ 1 \in 1..Len(wire)
    BY <1>1, <1>2
  <1>6. h.m \in 1..Len(sent) /\ h.i <= LastOf(sent, h.m)
    BY <1>1, <1>5 DEF Chain
  <1>7. Chain(sent, wire')
    <2>1. \A j \in 1..Len(wire') : wire'[j].m = wire[j + 1].m /\ wire'[j].i = wire[j + 1].i
      BY <1>3
    <2>2. Len(wire') + 1 <= Len(wire)
      BY <1>2, <1>3
    <2>3. QED
      BY <1>1, <1>3, <2>1, <2>2, ChainPiece
  <1>8. \A j \in 1..Len(wire') : ~wire'[j].torn
    <2> SUFFICES ASSUME NEW j \in 1..Len(wire')
                 PROVE  ~wire'[j].torn
      OBVIOUS
    <2>1. j + 1 \in 2..Len(wire)
      BY <1>2, <1>4
    <2>2. QED
      BY <1>3, <2>1 DEF StreamParts, Unread
  <1>9. wire' # <<>> => /\ Len(wire') \in 1..Len(wire') /\ 1 \in 1..Len(wire')
                        /\ wire'[Len(wire')] = wire[Len(wire)]
    <2> HAVE wire' # <<>>
    <2>1. Len(wire') \in Nat \ {0}
      BY <1>3
    <2>2. Len(wire') + 1 = Len(wire) /\ Len(wire') \in 1..Len(wire')
      BY <1>2, <1>3, <2>1
    <2>3. QED
      BY <1>3, <2>1, <2>2
  <1>10. Unread'
    <2>1. \A j \in 2..Len(wire') : ~wire'[j].torn
      BY <1>4, <1>8
    <2>2. QED
      BY <1>7, <1>9, <2>1 DEF StreamParts, Unread
  <1>11. ASSUME NEW j \in 1..Len(wire')
         PROVE  wire'[j].m >= h.m /\ (h.i = LastOf(sent, h.m) => wire'[j].m > h.m)
    <2>1. Before(h, wire'[j])
      <3>1. Before(wire[1], wire[j + 1])
        BY <1>1, <1>4, <1>5 DEF Chain
      <3>2. QED
        BY <1>3, <1>5, <3>1
    <2>2. wire'[j].m \in 1..Len(sent) /\ wire'[j].i <= LastOf(sent, wire'[j].m)
      BY <1>7 DEF Chain
    <2>3. wire'[j].i \in Nat /\ wire'[j].m \in Nat /\ h.i \in Nat /\ h.m \in Nat
      <3>1. wire'[j] \in Units
        BY <1>3
      <3>2. QED
        BY <1>5, <3>1 DEF Units
    <2>4. LastOf(sent, h.m) \in Nat
      BY <1>1, <1>6, LastOfType
    <2>5. wire'[j].m = h.m => wire'[j].i <= LastOf(sent, h.m)
      BY <2>2
    <2>6. QED
      BY <2>1, <2>3, <2>4, <2>5 DEF Before
  <1>12. wire' # <<>> => Follows(sent, h, wire'[1]) /\ ~wire'[1].torn
    <2> HAVE wire' # <<>>
    <2>1. 1 \in 1..Len(wire') /\ 1 + 1 <= Len(wire)
      BY <1>4, <1>9
    <2>2. Follows(sent, wire[1], wire[1 + 1])
      BY <1>1, <1>5, <2>1 DEF Chain
    <2>3. QED
      BY <1>3, <1>5, <1>8, <2>1, <2>2
  <1>13. wire' = <<>> /\ ~eof => h.i = LastOf(sent, h.m)
    <2> HAVE wire' = <<>> /\ ~eof
    <2>1. Len(wire) = 1
      <3> DEFINE a == Len(wire)
                 b == Len(wire')
      <3>1. b = 0
        BY Zenon, EmptySeq
      <3>2. a \in Nat /\ b = a - 1
        BY <1>2, <1>3
      <3> HIDE DEF a, b
      <3>3. a = 1
        BY <3>1, <3>2
      <3>4. QED
        BY <3>3 DEF a
    <2>2. QED
      BY <1>5, <2>1 DEF StreamParts, Unread
  <1>14. ASSUME NEW j \in 1..Len(wire), j # 1
         PROVE  \E k \in 1..Len(wire') : wire'[k] = wire[j]
    <2>1. j - 1 \in 1..Len(wire') /\ (j - 1) + 1 = j
      BY <1>2, <1>3, <1>14
    <2>2. QED
      BY <1>3, <2>1
  <1>15. QED
    BY <1>2, <1>3, <1>4, <1>5, <1>6, <1>10, <1>11, <1>12, <1>13, <1>14

LEMMA ReadMoreStep ==
  ASSUME Typed, StreamParts, NEW t \in Tasks, ReadMore(t)
  PROVE  StreamParts' /\ TypedRest'
  <1> DEFINE h == Head(wire)
  <1>1. /\ wire # <<>> /\ wire' = Tail(wire) /\ (part = <<>> => IsHeader(h))
        /\ part' = Append(part, h) /\ ~Complete(part')
        /\ UNCHANGED <<got, dropped, sent, subs, cut, eof>>
    BY DEF ReadMore, TakeUnit, serverVars
  <1> HIDE DEF h
  <1>2. /\ Unread'
        /\ Len(wire) \in Nat \ {0} /\ Len(wire') \in Nat
        /\ h \in Units /\ h = wire[1]
        /\ h.m \in 1..Len(sent) /\ h.i <= LastOf(sent, h.m)
        /\ \A j \in 1..Len(wire') : j + 1 \in 1..Len(wire) /\ wire'[j] = wire[j + 1]
        /\ wire' # <<>> => Follows(sent, h, wire'[1])
        /\ wire' = <<>> /\ ~eof => h.i = LastOf(sent, h.m)
        /\ \A j \in 1..Len(wire) : wire[j] = h \/ \E k \in 1..Len(wire') : wire'[k] = wire[j]
    BY <1>1, TakeNext DEF h
  <1>3. TypedRest /\ part \in Seq(Units) /\ Len(part) \in Nat /\ Len(sent) \in Nat
    BY DEF Typed, TypeOK, TypedRest, Names
  <1>4. /\ part' \in Seq(Units) /\ part' # <<>> /\ Len(part') = Len(part) + 1
        /\ \A j \in 1..Len(part) : part'[j] = part[j]
        /\ part'[Len(part) + 1] = h
    BY <1>1, <1>2, <1>3, AppendProperties
  <1>5. LastOf(sent, h.m) \in Nat /\ h.m \in Nat /\ h.i \in Nat
    BY <1>2, <1>3, LastOfType DEF TypedRest, Units
  <1>6. /\ part'[1].m = h.m /\ h.i = Len(part) /\ sent[h.m] # Error
        /\ \A j \in 1..Len(part) : part[j].m = h.m /\ part[j].i = j - 1
    <2>1. CASE part = <<>>
      BY <1>1, <1>3, <1>4, <2>1 DEF IsHeader
    <2>2. CASE part # <<>>
      <3>1. 1 \in 1..Len(part)
        BY <1>3, <2>2
      <3>2. /\ h.m = part[1].m /\ h.i = Len(part) /\ sent[part[1].m] # Error
            /\ \A j \in 1..Len(part) : part[j].m = part[1].m /\ part[j].i = j - 1
        BY <1>1, <1>2, <2>2 DEF StreamParts, InPart
      <3>3. QED
        BY <1>4, <3>1, <3>2
    <2>3. QED
      BY <2>1, <2>2
  <1>7. Len(part') # LastOf(sent, h.m) + 1
    BY <1>1, <1>6 DEF Complete, LastOf
  <1>8. Len(part') <= LastOf(sent, h.m) /\ h.i < LastOf(sent, h.m)
    BY <1>2, <1>3, <1>4, <1>5, <1>6, <1>7
  <1>9. InPart'
    <2>1. \A j \in 1..Len(part') : part'[j].m = h.m /\ part'[j].i = j - 1
      <3> SUFFICES ASSUME NEW j \in 1..Len(part')
                   PROVE  part'[j].m = h.m /\ part'[j].i = j - 1
        OBVIOUS
      <3>1. CASE j \in 1..Len(part)
        BY <1>4, <1>6, <3>1
      <3>2. CASE j = Len(part) + 1
        BY <1>3, <1>4, <1>6, <3>2
      <3>3. QED
        BY <1>3, <1>4, <3>1, <3>2
    <2>2. wire' # <<>> => wire'[1].m = h.m /\ wire'[1].i = Len(part')
      BY <1>2, <1>4, <1>5, <1>6, <1>8 DEF Follows
    <2>3. wire' = <<>> => eof'
      BY <1>1, <1>2, <1>3, <1>5, <1>8 DEF TypedRest
    <2>4. QED
      BY <1>1, <1>2, <1>6, <1>8, <2>1, <2>2, <2>3 DEF InPart, LastOf
  <1>10. Returned'
    <2>1. \A g \in 1..Len(got) : /\ got[g].m \in 1..Len(sent)
                                 /\ \A j \in 1..Len(wire) : got[g].m < wire[j].m
      BY DEF StreamParts, Returned
    <2>2. 1 \in 1..Len(wire)
      BY <1>2
    <2>3. \A g \in 1..Len(got) : got[g].m < h.m
      BY <1>2, <2>1, <2>2
    <2>4. QED
      BY <1>1, <1>2, <1>6, <2>1, <2>3 DEF Returned
  <1>11. Resumed'
    BY <1>4 DEF Resumed
  <1>12. ReceivedInOrder'
    BY <1>1 DEF StreamParts, ReceivedInOrder
  <1>13. NothingSkipped'
    <2>1. \A j \in 1..Len(part) : j \in 1..Len(part') /\ part'[j] = part[j]
      BY <1>3, <1>4
    <2>2. Len(part) + 1 \in 1..Len(part')
      BY <1>3, <1>4
    <2>3. ASSUME NEW m, Seen(m)
          PROVE  Seen(m)'
      <3>1. ASSUME NEW j \in 1..Len(wire), wire[j].m = m
            PROVE  Seen(m)'
        BY <1>2, <1>4, <2>2, <3>1 DEF Seen
      <3>2. ASSUME NEW j \in 1..Len(part), part[j].m = m
            PROVE  Seen(m)'
        BY <2>1, <3>2 DEF Seen
      <3>3. QED
        BY <1>1, <2>3, <3>1, <3>2 DEF Seen
    <2>4. QED
      BY <1>1, <2>3, StillSeen DEF StreamParts
  <1>14. TypedRest'
    BY <1>1, <1>3, <1>4 DEF TypedRest
  <1>15. QED
    BY <1>2, <1>9, <1>10, <1>11, <1>12, <1>13, <1>14 DEF StreamParts

\* The last unit of a push is taken, and receive() returns the push.
LEMMA ReturnStep ==
  ASSUME Typed, StreamParts, wire # <<>>, wire' = Tail(wire), part' = <<>>,
         UNCHANGED <<dropped, sent, subs, cut, eof>>,
         NEW h, h = Head(wire), h.i = LastOf(sent, h.m),
         \A j \in 1..Len(part) : part[j].m = h.m,
         got' = Append(got, [m |-> h.m, msg |-> sent[h.m]])
  PROVE  StreamParts' /\ TypedRest'
  <1> DEFINE e == [m |-> h.m, msg |-> sent[h.m]]
  <1>2. /\ Unread'
        /\ Len(wire) \in Nat \ {0} /\ Len(wire') \in Nat
        /\ h \in Units /\ h = wire[1]
        /\ h.m \in 1..Len(sent)
        /\ \A j \in 1..Len(wire') : /\ j + 1 \in 1..Len(wire) /\ wire'[j] = wire[j + 1]
                                    /\ wire'[j].m > h.m
        /\ wire' # <<>> => Follows(sent, h, wire'[1]) /\ ~wire'[1].torn
        /\ \A j \in 1..Len(wire) : wire[j] = h \/ \E k \in 1..Len(wire') : wire'[k] = wire[j]
    BY TakeNext
  <1>3. TypedRest /\ got \in Seq([m : Nat, msg : Pushes]) /\ Len(got) \in Nat
        /\ sent \in Seq(Pushes) /\ Len(sent) \in Nat
    BY DEF Typed, TypeOK, TypedRest, Names
  <1>4. e \in [m : Nat, msg : Pushes]
    BY <1>2, <1>3
  <1>5. e.m = h.m /\ e.msg = sent[h.m]
    OBVIOUS
  <1>6. got' = Append(got, e)
    OBVIOUS
  <1> HIDE DEF e
  <1>7. /\ got' \in Seq([m : Nat, msg : Pushes]) /\ Len(got') = Len(got) + 1
        /\ \A g \in 1..Len(got) : got'[g] = got[g]
        /\ got'[Len(got) + 1] = e
    BY <1>3, <1>4, <1>6, AppendProperties
  <1>8. \A g \in 1..Len(got') : g \in 1..Len(got) \/ (g = Len(got) + 1 /\ got'[g] = e)
    BY <1>3, <1>7
  <1>9. \A g \in 1..Len(got) : /\ got[g].m \in 1..Len(sent)
                               /\ \A j \in 1..Len(wire) : got[g].m < wire[j].m
    BY DEF StreamParts, Returned
  <1>10. InPart'
    BY DEF InPart
  <1>11. Returned'
    <2>1. \A g \in 1..Len(got') : got'[g].m \in 1..Len(sent)
      BY <1>2, <1>5, <1>7, <1>8, <1>9
    <2>2. \A g \in 1..Len(got'), j \in 1..Len(wire') : got'[g].m < wire'[j].m
      <3> SUFFICES ASSUME NEW g \in 1..Len(got'), NEW j \in 1..Len(wire')
                   PROVE  got'[g].m < wire'[j].m
        OBVIOUS
      <3>1. CASE g \in 1..Len(got)
        BY <1>2, <1>7, <1>9, <3>1
      <3>2. CASE got'[g] = e
        <4>1. wire'[j].m > h.m
          BY <1>2
        <4>2. wire'[j].m \in Nat /\ h.m \in Nat
          <5>1. wire'[j].m \in 1..Len(sent)'
            BY <1>2 DEF Unread, Chain
          <5>2. QED
            BY <5>1, <1>2, <1>3
        <4>3. QED
          BY <1>5, <3>2, <4>1, <4>2
      <3>3. QED
        BY <1>8, <3>1, <3>2
    <2>3. QED
      BY <2>1, <2>2 DEF Returned
  <1>12. Resumed'
    <2>1. wire' # <<>> => wire'[1].i = 0 /\ ~wire'[1].torn
      <3> HAVE wire' # <<>>
      <3>1. 1 \in 1..Len(wire')
        <4>1. wire' \in Seq(Units)
          BY <1>2 DEF Unread, Chain
        <4>2. QED
          BY <4>1
      <3>2. wire'[1].m # h.m
        <4>1. wire'[1].m \in 1..Len(sent)' /\ wire'[1].m > h.m
          BY <1>2, <3>1 DEF Unread, Chain
        <4>2. QED
          BY <1>2, <1>3, <4>1
      <3>3. QED
        BY <1>2, <3>2 DEF Follows
    <2>2. QED
      BY <2>1 DEF Resumed
  <1>13. ReceivedInOrder'
    <2>1. \A g \in 1..Len(got') : got'[g].msg = sent'[got'[g].m]
      BY <1>5, <1>7, <1>8 DEF StreamParts, ReceivedInOrder
    <2>2. \A g \in 1..Len(got) : got[g].m < h.m
      <3>1. 1 \in 1..Len(wire)
        BY <1>2
      <3>2. QED
        BY <1>2, <1>9, <3>1
    <2>3. ASSUME NEW i \in 1..Len(got'), NEW j \in 1..Len(got'), i < j
          PROVE  got'[i].m < got'[j].m
      <3>1. i \in 1..Len(got)
        BY <1>3, <1>7, <2>3
      <3>2. CASE j \in 1..Len(got)
        <4>1. got[i].m < got[j].m
          BY <2>3, <3>1, <3>2 DEF StreamParts, ReceivedInOrder
        <4>2. QED
          BY <1>7, <3>1, <3>2, <4>1
      <3>3. CASE got'[j] = e
        BY <1>5, <1>7, <2>2, <3>1, <3>3
      <3>4. QED
        BY <1>8, <3>2, <3>3
    <2>4. QED
      BY <2>1, <2>3 DEF ReceivedInOrder
  <1>14. NothingSkipped'
    <2>1. \A g \in 1..Len(got) : g \in 1..Len(got') /\ got'[g] = got[g]
      BY <1>3, <1>7
    <2>2. Len(got) + 1 \in 1..Len(got') /\ got'[Len(got) + 1].m = h.m
      BY <1>3, <1>5, <1>7
    <2>3. ASSUME NEW m, Seen(m)
          PROVE  Seen(m)'
      <3>1. ASSUME m = h.m
            PROVE  Seen(m)'
        BY <2>2, <3>1 DEF Seen
      <3>2. ASSUME NEW j \in 1..Len(wire), wire[j].m = m, m # h.m
            PROVE  Seen(m)'
        BY <1>2, <3>2 DEF Seen
      <3>3. ASSUME NEW g \in 1..Len(got), got[g].m = m
            PROVE  Seen(m)'
        BY <2>1, <3>3 DEF Seen
      <3>4. QED
        BY <2>3, <3>1, <3>2, <3>3 DEF Seen
    <2>4. QED
      BY <2>3, StillSeen DEF StreamParts
  <1>15. TypedRest'
    <2>1. part' \in Seq(Units)
      OBVIOUS
    <2>2. QED
      BY <1>3, <1>7, <2>1 DEF TypedRest
  <1>16. QED
    BY <1>2, <1>10, <1>11, <1>12, <1>13, <1>14, <1>15 DEF StreamParts

LEMMA ReadLastStep ==
  ASSUME Typed, StreamParts, NEW t \in Tasks, ReadLast(t)
  PROVE  StreamParts' /\ TypedRest'
  <1> DEFINE h     == Head(wire)
             units == Append(part, h)
             msg   == Decode(Parsed(units))
             k     == part[1].m
  <1>1. /\ wire # <<>> /\ wire' = Tail(wire) /\ part # <<>> /\ part' = <<>>
        /\ Complete(units)
        /\ got' = IF msg = Error THEN got ELSE Append(got, [m |-> units[1].m, msg |-> msg])
        /\ UNCHANGED <<dropped, sent, subs, cut, eof>>
    BY DEF ReadLast, TakeUnit, EndReceive, serverVars
  <1>2. /\ k \in 1..Len(sent) /\ sent[k] # Error /\ Len(part) <= LastOf(sent, k)
        /\ \A j \in 1..Len(part) : part[j].m = k /\ part[j].i = j - 1
        /\ wire[1].m = k /\ wire[1].i = Len(part)
    BY <1>1 DEF StreamParts, InPart
  <1>3. part \in Seq(Units) /\ Len(part) \in Nat \ {0} /\ wire \in Seq(Units)
        /\ sent \in Seq(Pushes)
    BY <1>1 DEF Typed, StreamParts, Unread, Chain
  <1>4. h = wire[1] /\ h \in Units
    BY <1>1, <1>3
  <1> HIDE DEF h, k
  <1>5. /\ units \in Seq(Units) /\ Len(units) = Len(part) + 1
        /\ \A j \in 1..Len(part) : units[j] = part[j]
        /\ units[Len(part) + 1] = h
    BY <1>3, <1>4, AppendProperties
  <1> HIDE DEF units
  <1>6. \A j \in 1..Len(units) : units[j].m = k /\ units[j].i = j - 1
    <2> SUFFICES ASSUME NEW j \in 1..Len(units)
                 PROVE  units[j].m = k /\ units[j].i = j - 1
      OBVIOUS
    <2>1. CASE j \in 1..Len(part)
      BY <1>2, <1>5, <2>1
    <2>2. CASE j = Len(part) + 1
      BY <1>2, <1>3, <1>4, <1>5, <2>2
    <2>3. QED
      BY <1>3, <1>5, <2>1, <2>2
  <1>7. units[1].m = k /\ LastOf(sent, k) \in Nat /\ Len(units) = LastOf(sent, k) + 1
    <2>1. units[1].m = k
      BY <1>3, <1>5, <1>6
    <2>2. QED
      BY <1>1, <1>2, <1>3, <2>1, LastOfType DEF Complete, LastOf
  <1>8. Parsed(units) = Fields(sent[k])
    <2> DEFINE n == LastOf(sent, k)
    <2>1. n \in Nat /\ Len(units) = n + 1 /\ Len(units) - 1 = n
      BY <1>7
    <2>2. Fields(sent[k]) = [j \in 1..n |-> Fields(sent[k])[j]]
      <3>1. sent[k] \in Pushes
        BY <1>2, <1>3
      <3>2. QED
        BY <3>1, DecodeFields DEF LastOf
    <2>3. Parsed(units) = [j \in 1..n |-> Fields(sent[units[j + 1].m])[units[j + 1].i]]
      BY <2>1 DEF Parsed
    <2> HIDE DEF n
    <2>4. \A j \in 1..n : units[j + 1].m = k /\ units[j + 1].i = j
      <3> SUFFICES ASSUME NEW j \in 1..n
                   PROVE  units[j + 1].m = k /\ units[j + 1].i = j
        OBVIOUS
      <3>1. j + 1 \in 1..Len(units) /\ (j + 1) - 1 = j
        BY <2>1
      <3>2. QED
        BY <1>6, <3>1
    <2>5. QED
      BY <2>2, <2>3, <2>4
  <1>9. msg = sent[k] /\ sent[k] # Error
    BY <1>2, <1>3, <1>8, DecodeFields
  <1>10. got' = Append(got, [m |-> h.m, msg |-> sent[h.m]])
    BY <1>1, <1>2, <1>4, <1>7, <1>9
  <1>11. h.i = LastOf(sent, h.m) /\ \A j \in 1..Len(part) : part[j].m = h.m
    <2>1. h.m = k /\ h.i = Len(part)
      BY <1>2, <1>4
    <2>2. Len(part) = LastOf(sent, k)
      BY <1>3, <1>5, <1>7
    <2>3. QED
      BY <1>2, <2>1, <2>2
  <1>12. QED
    BY <1>1, <1>10, <1>11, ReturnStep DEF h

LEMMA ReadLineStep ==
  ASSUME Typed, StreamParts, NEW t \in Tasks, ReadLine(t)
  PROVE  StreamParts' /\ TypedRest'
  <1> DEFINE h == Head(wire)
  <1>1. /\ wire # <<>> /\ wire' = Tail(wire) /\ part = <<>> /\ part' = <<>>
        /\ ~IsHeader(h)
        /\ got' = IF IsError(h) THEN Append(got, [m |-> h.m, msg |-> Error]) ELSE got
        /\ UNCHANGED <<dropped, sent, subs, cut, eof>>
    BY DEF ReadLine, TakeUnit, EndReceive, serverVars
  <1> HIDE DEF h
  <1>2. /\ Unread'
        /\ Len(wire) \in Nat \ {0} /\ Len(wire') \in Nat
        /\ h \in Units /\ h = wire[1]
        /\ h.m \in 1..Len(sent) /\ h.i <= LastOf(sent, h.m)
        /\ \A j \in 1..Len(wire') : j + 1 \in 1..Len(wire) /\ wire'[j] = wire[j + 1]
        /\ wire' # <<>> => Follows(sent, h, wire'[1]) /\ ~wire'[1].torn
        /\ \A j \in 1..Len(wire) : wire[j] = h \/ \E k \in 1..Len(wire') : wire'[k] = wire[j]
    BY <1>1, TakeNext DEF h
  <1>3. CASE IsError(h)
    <2>1. sent[h.m] = Error
      BY <1>3 DEF IsError
    <2>2. LastOf(sent, h.m) = 0
      BY <1>2, <2>1, LastOfType DEF Typed
    <2>3. h.i = LastOf(sent, h.m)
      BY <1>2, <2>2 DEF Units
    <2>4. got' = Append(got, [m |-> h.m, msg |-> sent[h.m]])
      BY <1>1, <1>3, <2>1
    <2>5. \A j \in 1..Len(part) : part[j].m = h.m
      BY <1>1
    <2>6. QED
      BY <1>1, <2>3, <2>4, <2>5, ReturnStep DEF h
  <1>4. CASE ~IsError(h)
    <2>1. got' = got /\ (h.torn \/ h.i # 0)
      BY <1>1, <1>4 DEF IsHeader, IsError
    <2>2. h.m \in dropped
      BY <1>1, <1>2, <2>1 DEF StreamParts, Resumed
    <2>3. InPart'
      BY <1>1 DEF InPart
    <2>4. Returned'
      BY <1>1, <1>2, <2>1 DEF StreamParts, Returned
    <2>5. Resumed'
      BY <1>1, <1>2, <2>2 DEF Resumed, Follows
    <2>6. ReceivedInOrder'
      BY <1>1, <2>1 DEF StreamParts, ReceivedInOrder
    <2>7. NothingSkipped'
      <3>1. ASSUME NEW m, Seen(m)
            PROVE  Seen(m)'
        <4>1. ASSUME NEW j \in 1..Len(wire), wire[j].m = m
              PROVE  Seen(m)'
          BY <1>1, <1>2, <2>2, <4>1 DEF Seen
        <4>2. QED
          BY <1>1, <2>1, <3>1, <4>1 DEF Seen
      <3>2. QED
        BY <1>1, <3>1, StillSeen DEF StreamParts
    <2>8. TypedRest'
      <3>1. TypedRest
        BY DEF Typed, TypeOK, TypedRest, Names
      <3>2. QED
        BY <1>1, <2>1, <3>1 DEF TypedRest
    <2>9. QED
      BY <1>2, <2>3, <2>4, <2>5, <2>6, <2>7, <2>8 DEF StreamParts
  <1>5. QED
    BY <1>3, <1>4

\* A receive() ends without a result: the stream has ended, or it is abandoned.
LEMMA GiveUpStep ==
  ASSUME Typed, StreamParts, part' = <<>>, UNCHANGED <<got, sent, subs, cut, eof>>,
         NEW n \in 0..1, n <= Len(wire),
         wire' = [j \in 1..Len(wire) |->
                    IF j <= n THEN [wire[j] EXCEPT !.torn = TRUE] ELSE wire[j]],
         dropped' = dropped \cup {part[j].m : j \in 1..Len(part)}
                            \cup {wire[j].m : j \in 1..n}
  PROVE  StreamParts' /\ TypedRest'
  <1>1. TypedRest /\ Chain(sent, wire) /\ wire \in Seq(Units) /\ Len(wire) \in Nat
        /\ part \in Seq(Units) /\ Len(part) \in Nat
    BY DEF Typed, TypeOK, TypedRest, Names, StreamParts, Unread, Chain
  <1>2. ASSUME NEW j \in 1..Len(wire)
        PROVE  /\ wire'[j] \in Units
               /\ wire'[j].m = wire[j].m /\ wire'[j].i = wire[j].i
               /\ j > n => wire'[j].torn = wire[j].torn
    <2>1. wire[j] \in Units
      BY <1>1
    <2>2. wire'[j] = IF j <= n THEN [wire[j] EXCEPT !.torn = TRUE] ELSE wire[j]
      OBVIOUS
    <2>3. CASE j <= n
      <3> DEFINE u == wire[j]
                 v == [u EXCEPT !.torn = TRUE]
      <3>1. u \in Units
        BY <2>1
      <3> HIDE DEF u
      <3>2. v \in Units /\ v.m = u.m /\ v.i = u.i
        BY <3>1 DEF Units
      <3>3. ~(j > n) /\ wire'[j] = v
        BY <2>2, <2>3 DEF u
      <3> HIDE DEF v
      <3>4. QED
        BY <3>2, <3>3 DEF u
    <2>4. CASE ~(j <= n)
      BY <2>1, <2>2, <2>4
    <2>5. QED
      BY <2>3, <2>4
  <1>3. wire' \in Seq(Units) /\ Len(wire') = Len(wire)
    <2>1. wire' \in [1..Len(wire) -> Units]
      BY <1>2
    <2>2. QED
      BY <1>1, <2>1, FcnIsSeq
  <1>4. Chain(sent, wire')
    <2>1. \A j \in 1..Len(wire') : wire'[j].m = wire[j + 0].m /\ wire'[j].i = wire[j + 0].i
      BY <1>2, <1>3
    <2>2. Len(wire') + 0 <= Len(wire)
      BY <1>1, <1>3
    <2>3. QED
      BY <1>1, <1>3, <2>1, <2>2, ChainPiece
  <1>5. /\ wire' # <<>> <=> wire # <<>>
        /\ wire # <<>> => 1 \in 1..Len(wire) /\ Len(wire) \in 1..Len(wire)
    BY <1>1, <1>3
  <1>6. Unread'
    <2>1. \A j \in 2..Len(wire') : ~wire'[j].torn
      <3> SUFFICES ASSUME NEW j \in 2..Len(wire')
                   PROVE  ~wire'[j].torn
        OBVIOUS
      <3>1. j \in 1..Len(wire) /\ j \in 2..Len(wire) /\ j > n
        BY <1>1, <1>3
      <3>2. ~wire[j].torn
        BY <3>1 DEF StreamParts, Unread
      <3>3. QED
        BY <1>2, <3>1, <3>2
    <2>2. QED
      BY <1>2, <1>3, <1>4, <1>5, <2>1 DEF StreamParts, Unread
  <1>7. InPart'
    BY DEF InPart
  <1>8. Returned'
    BY <1>2, <1>3 DEF StreamParts, Returned
  <1>9. Resumed'
    <2> SUFFICES ASSUME wire # <<>>, wire'[1].i # 0 \/ wire'[1].torn
                 PROVE  wire'[1].m \in dropped'
      BY <1>5 DEF Resumed
    <2>1. wire'[1].m = wire[1].m /\ wire'[1].i = wire[1].i
          /\ (1 > n => wire'[1].torn = wire[1].torn)
      BY <1>2, <1>5
    <2>2. CASE n = 1
      BY <2>1, <2>2
    <2>3. CASE n = 0 /\ part = <<>>
      BY <2>1, <2>3 DEF StreamParts, Resumed
    <2>4. CASE part # <<>>
      <3>1. wire[1].m = part[1].m /\ 1 \in 1..Len(part)
        BY <1>1, <2>4 DEF StreamParts, InPart
      <3>2. QED
        BY <2>1, <3>1
    <2>5. QED
      BY <2>2, <2>3, <2>4
  <1>10. ReceivedInOrder'
    BY DEF StreamParts, ReceivedInOrder
  <1>11. NothingSkipped'
    <2>1. ASSUME NEW m, Seen(m)
          PROVE  Seen(m)'
      <3>1. ASSUME NEW j \in 1..Len(wire), wire[j].m = m
            PROVE  Seen(m)'
        BY <1>2, <1>3, <3>1 DEF Seen
      <3>2. ASSUME NEW j \in 1..Len(part), part[j].m = m
            PROVE  Seen(m)'
        BY <3>2 DEF Seen
      <3>3. QED
        BY <2>1, <3>1, <3>2 DEF Seen
    <2>2. QED
      BY <2>1, StillSeen DEF StreamParts
  <1>12. TypedRest'
    <2>1. \A j \in 1..Len(part) : part[j].m \in 1..Len(sent)
      <3>1. CASE part = <<>>
        BY <3>1
      <3>2. CASE part # <<>>
        BY <3>2 DEF StreamParts, InPart
      <3>3. QED
        BY <3>1, <3>2
    <2>2. \A j \in 1..n : wire[j].m \in 1..Len(sent)
      <3>1. \A j \in 1..n : j \in 1..Len(wire)
        BY <1>1
      <3>2. QED
        BY <1>1, <3>1 DEF Chain
    <2>3. dropped' \subseteq 1..Len(sent')
      BY <1>1, <2>1, <2>2 DEF TypedRest
    <2>4. part' \in Seq(Units)
      OBVIOUS
    <2>5. QED
      BY <1>1, <2>3, <2>4 DEF TypedRest
  <1>13. QED
    BY <1>6, <1>7, <1>8, <1>9, <1>10, <1>11, <1>12 DEF StreamParts

LEMMA ReadEofStep ==
  ASSUME Typed, StreamParts, NEW t \in Tasks, ReadEof(t)
  PROVE  StreamParts' /\ TypedRest'
  <1> DEFINE n == 0
  <1>1. /\ wire = <<>> /\ wire' = wire /\ part' = <<>>
        /\ dropped' = dropped \cup {part[j].m : j \in 1..Len(part)}
        /\ UNCHANGED <<got, sent, subs, cut, eof>>
    BY DEF ReadEof, EndReceive, serverVars
  <1>2. Len(wire) = 0
    BY <1>1
  <1>3. wire' = [j \in 1..Len(wire) |->
                   IF j <= n THEN [wire[j] EXCEPT !.torn = TRUE] ELSE wire[j]]
    BY <1>1, <1>2
  <1>4. dropped' = dropped \cup {part[j].m : j \in 1..Len(part)}
                           \cup {wire[j].m : j \in 1..n}
    BY <1>1
  <1>5. n \in 0..1 /\ n <= Len(wire)
    BY <1>2
  <1> HIDE DEF n
  <1>6. QED
    BY <1>1, <1>3, <1>4, <1>5, GiveUpStep

LEMMA AbandonStep ==
  ASSUME Typed, StreamParts, NEW t \in Tasks, AbandonRead(t)
  PROVE  StreamParts' /\ TypedRest'
  <1>1. part' = <<>> /\ UNCHANGED <<got, sent, subs, cut, eof>>
    BY DEF AbandonRead, EndReceive, serverVars
  <1>2. PICK n \in 0..1 :
          /\ n <= Len(wire)
          /\ wire' = [j \in 1..Len(wire) |->
                        IF j <= n THEN [wire[j] EXCEPT !.torn = TRUE] ELSE wire[j]]
          /\ dropped' = dropped \cup {part[j].m : j \in 1..Len(part)}
                                \cup {wire[j].m : j \in 1..n}
    BY DEF AbandonRead
  <1>3. QED
    BY <1>1, <1>2, GiveUpStep

-----------------------------------------------------------------------------
(* All steps                                                                 *)

\* The rest of Typed: the mutex, the calls in progress and the counters.
CallsTyped ==
  /\ lock \in Tasks \cup {NoTask}
  /\ taken \in Nat
  /\ conn \in 0..taken
  /\ pc \in [Tasks -> PCs]
  /\ cmd \in [Tasks -> Commands \cup {NoCommand}]
  /\ sends \in 0..MaxSends
  /\ published \in 0..MaxPublished
  /\ \A t \in Tasks : pc[t] \in SendPCs => cmd[t] \in Commands

LEMMA TypedParts ==
  /\ Typed <=> CallsTyped /\ TypedRest
  /\ Typed' <=> CallsTyped' /\ TypedRest'
  BY DEF Typed, TypeOK, CallsTyped, TypedRest, Names

\* A step of a task that starts no call.
LEMMA CallsMove ==
  ASSUME CallsTyped, NEW t \in Tasks, NEW to \in PCs,
         pc' = [pc EXCEPT ![t] = to], to \in SendPCs => pc[t] \in SendPCs,
         lock' \in Tasks \cup {NoTask}, taken' \in Nat, conn' \in 0..taken',
         UNCHANGED <<cmd, counters>>
  PROVE  CallsTyped'
  BY DEF CallsTyped, counters

LEMMA CallsStep ==
  ASSUME CallsTyped, [Next]_vars
  PROVE  CallsTyped'
  <1>1. ASSUME NEW t \in Tasks, NEW c \in Commands, SendCall(t, c)
        PROVE  CallsTyped'
    <2>1. sends' \in 0..MaxSends
      BY <1>1, BoundsAssumption DEF SendCall, CallsTyped
    <2>2. pc' = [pc EXCEPT ![t] = "ensure"] /\ cmd' = [cmd EXCEPT ![t] = c]
      BY <1>1 DEF SendCall, Goto
    <2>3. QED
      BY <1>1, <2>1, <2>2 DEF SendCall, CallsTyped, PCs, SendPCs
  <1>2. ASSUME NEW t \in Tasks, ReceiveCall(t) \/ ReceiveLock(t)
        PROVE  CallsTyped'
    <2>1. PICK to \in {"rlock", "rest", "read"} : pc' = [pc EXCEPT ![t] = to]
      BY <1>2 DEF ReceiveCall, ReceiveLock, Goto
    <2>2. to \in PCs /\ to \notin SendPCs
      BY DEF PCs, SendPCs
    <2>3. lock' \in Tasks \cup {NoTask} /\ UNCHANGED <<conn, taken, cmd, counters>>
      BY <1>2 DEF ReceiveCall, ReceiveLock, Acquire, CallsTyped
    <2>4. QED
      BY <2>1, <2>2, <2>3, CallsMove DEF CallsTyped
  <1>3. ASSUME NEW t \in Tasks, SendStep(t)
        PROVE  CallsTyped'
    <2>1. PICK to \in SendPCs \cup {"rest"} : pc' = [pc EXCEPT ![t] = to]
      BY <1>3 DEF SendStep, EnsureConn, PoolOk, PoolErr, Relock, WriteOk, WriteErr,
                  Goto, SendPCs
    <2>2. pc[t] \in SendPCs /\ to \in PCs
      BY <1>3 DEF SendStep, EnsureConn, PoolOk, PoolErr, Relock, WriteOk, WriteErr,
                  Goto, SendPCs, PCs
    <2>3. lock' \in Tasks \cup {NoTask}
      BY <1>3 DEF SendStep, EnsureConn, PoolOk, PoolErr, Relock, WriteOk, WriteErr,
                  Acquire, Unlock, CallsTyped
    <2>4. taken' \in Nat /\ conn' \in 0..taken'
      <3>1. CASE PoolOk(t)
        BY <3>1 DEF PoolOk, CallsTyped
      <3>2. CASE ~PoolOk(t)
        <4>1. UNCHANGED <<conn, taken>>
          BY <1>3, <3>2 DEF SendStep, EnsureConn, PoolErr, Relock, WriteOk, WriteErr
        <4>2. QED
          BY <4>1 DEF CallsTyped
      <3>3. QED
        BY <3>1, <3>2
    <2>5. UNCHANGED <<cmd, counters>>
      BY <1>3 DEF SendStep, EnsureConn, PoolOk, PoolErr, Relock, WriteOk, WriteErr
    <2>6. QED
      BY <2>1, <2>2, <2>3, <2>4, <2>5, CallsMove
  <1>4. ASSUME NEW t \in Tasks,
               ReadLast(t) \/ ReadLine(t) \/ ReadEof(t) \/ AbandonRead(t) \/ Cancel(t)
        PROVE  CallsTyped'
    <2>1. pc' = [pc EXCEPT ![t] = "rest"] /\ UNCHANGED <<conn, taken, cmd, counters>>
      BY <1>4 DEF ReadLast, ReadLine, ReadEof, AbandonRead, Cancel, EndReceive, Goto
    <2>2. lock' \in Tasks \cup {NoTask}
      BY <1>4 DEF ReadLast, ReadLine, ReadEof, AbandonRead, Cancel, EndReceive, Unlock,
                  CallsTyped
    <2>3. "rest" \in PCs /\ "rest" \notin SendPCs
      BY DEF PCs, SendPCs
    <2>4. QED
      BY <2>1, <2>2, <2>3, CallsMove DEF CallsTyped
  <1>5. ASSUME NEW t \in Tasks, ReadMore(t)
        PROVE  CallsTyped'
    BY <1>5 DEF ReadMore, CallsTyped, lockVars, counters
  <1>6. ASSUME NEW c \in Channels, Publish(c)
        PROVE  CallsTyped'
    BY <1>6, BoundsAssumption DEF Publish, CallsTyped, lockVars
  <1>7. CASE Break \/ UNCHANGED vars
    BY <1>7 DEF Break, CallsTyped, vars, lockVars, counters
  <1>8. QED
    BY <1>1, <1>2, <1>3, <1>4, <1>5, <1>6, <1>7 DEF Next, ReceiveStep

\* A step that leaves the stream and what was read of it alone.
LEMMA StreamFrame ==
  ASSUME StreamParts, TypedRest,
         UNCHANGED <<part, got, dropped, sent, subs, eof, wire>>, cut' \in BOOLEAN
  PROVE  StreamParts' /\ TypedRest'
  <1>1. Unread' /\ InPart'
    BY DEF StreamParts, Unread, InPart
  <1>2. Returned' /\ Resumed'
    BY DEF StreamParts, Returned, Resumed
  <1>3. ReceivedInOrder' /\ NothingSkipped'
    BY DEF StreamParts, ReceivedInOrder, NothingSkipped
  <1>4. QED
    BY <1>1, <1>2, <1>3 DEF StreamParts, TypedRest

LEMMA StreamStep == StreamInv /\ [Next]_vars => StreamInv'
  <1> SUFFICES ASSUME Typed, StreamParts, [Next]_vars
               PROVE  StreamParts' /\ Typed'
    BY DEF StreamInv, StreamParts
  <1>1. CallsTyped /\ TypedRest /\ CallsTyped' /\ cut \in BOOLEAN
    BY TypedParts, CallsStep DEF TypedRest
  <1>2. SUFFICES StreamParts' /\ TypedRest'
    BY <1>1, TypedParts
  <1>3. ASSUME NEW t \in Tasks, NEW c \in Commands, SendCall(t, c)
        PROVE  StreamParts' /\ TypedRest'
    BY <1>1, <1>3, StreamFrame DEF SendCall, clientVars, serverVars
  <1>4. ASSUME NEW t \in Tasks, ReceiveCall(t) \/ ReceiveLock(t) \/ Cancel(t)
        PROVE  StreamParts' /\ TypedRest'
    BY <1>1, <1>4, StreamFrame DEF ReceiveCall, ReceiveLock, Cancel, clientVars, serverVars
  <1>5. ASSUME NEW t \in Tasks, SendStep(t)
        PROVE  StreamParts' /\ TypedRest'
    <2>1. CASE EnsureConn(t) \/ PoolOk(t) \/ PoolErr(t) \/ Relock(t)
      BY <1>1, <2>1, StreamFrame
         DEF EnsureConn, PoolOk, PoolErr, Relock, clientVars, serverVars
    <2>2. CASE WriteOk(t)
      <3>1. cmd[t] \in Commands
        BY <1>1, <2>2 DEF WriteOk, Goto, CallsTyped, SendPCs
      <3>2. Arrives(cmd[t]) /\ UNCHANGED <<part, got, dropped>>
        BY <2>2 DEF WriteOk, clientVars
      <3>3. QED
        BY <3>1, <3>2, ArrivesStep
    <2>3. CASE WriteErr(t)
      <3>1. cut' \in BOOLEAN /\ UNCHANGED <<part, got, dropped, sent, subs, eof, wire>>
        BY <1>1, <2>3 DEF WriteErr, clientVars
      <3>2. QED
        BY <1>1, <3>1, StreamFrame
    <2>4. QED
      BY <1>5, <2>1, <2>2, <2>3 DEF SendStep
  <1>6. CASE UNCHANGED vars
    BY <1>1, <1>6, StreamFrame DEF vars, clientVars, serverVars
  <1>7. QED
    BY <1>3, <1>4, <1>5, <1>6, ReadMoreStep, ReadLastStep, ReadLineStep, ReadEofStep,
       AbandonStep, PublishStep, BreakStep DEF Next, ReceiveStep

LEMMA StreamInit == Init => StreamInv
  <1> SUFFICES ASSUME Init PROVE StreamInv
    OBVIOUS
  <1>1. TypeOK
    <2>1. sends \in 0..MaxSends /\ published \in 0..MaxPublished /\ conn \in 0..taken
      BY BoundsAssumption DEF Init
    <2>2. {cut, eof} \subseteq BOOLEAN
      BY DEF Init
    <2>3. pc \in [Tasks -> PCs] /\ cmd \in [Tasks -> Commands \cup {NoCommand}]
      BY DEF Init, PCs
    <2>4. QED
      BY <2>1, <2>2, <2>3 DEF Init, TypeOK
  <1>2. Typed
    BY <1>1, FS_EmptySet DEF Init, Typed, SendPCs
  <1>3. Unread
    BY DEF Init, Unread, Chain
  <1>4. InPart /\ Returned /\ Resumed
    BY DEF Init, InPart, Returned, Resumed
  <1>5. ReceivedInOrder /\ NothingSkipped
    BY DEF Init, ReceivedInOrder, NothingSkipped
  <1>6. QED
    BY <1>2, <1>3, <1>4, <1>5 DEF StreamInv

\* The inductive invariant of the stream that receive() reads, over every step
\* of the tasks, of the server and of the network.
THEOREM StreamInvariant == Spec => []StreamInv
  BY StreamInit, StreamStep, PTL DEF Spec

\* The state of PubSub keeps its types.
THEOREM TypeCorrect == Spec => []TypeOK
  <1>1. StreamInv => TypeOK
    BY DEF StreamInv, Typed
  <1>2. QED
    BY <1>1, StreamInvariant, PTL

\* receive() returns what the server pushed: each push whole, with its own
\* names and payload, in order and at most once, whichever tasks call it and
\* however many of its calls time out or are dropped half way.
THEOREM InOrder == Spec => []ReceivedInOrder
  <1>1. StreamInv => ReceivedInOrder
    BY DEF StreamInv
  <1>2. QED
    BY <1>1, StreamInvariant, PTL

\* While the connection is open, a push is lost only by a receive() that was
\* given up while it was being read.
THEOREM NoneSkipped == Spec => []NothingSkipped
  <1>1. StreamInv => NothingSkipped
    BY DEF StreamInv
  <1>2. QED
    BY <1>1, StreamInvariant, PTL
=============================================================================
