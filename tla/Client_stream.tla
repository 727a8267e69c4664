---------------------------- MODULE Client_stream ----------------------------
(* What a task reads, in step and out of step, for any set of tasks and      *)
(* connections, any size of batches and any number of operations.            *)
EXTENDS Client_proofs

\* What task t has still to read of its connection.
Stream(t) == rdbuf[lent[t]] \o wire[lent[t]]

\* The first unit that task t reads is, or will be, one of its own answer.
StartsInStep(t) ==
  IF got[t] # <<>> THEN Head(got[t]) = <<op[t].id, 1>>
  ELSE Stream(t) # <<>> /\ Stream(t)[1].op = op[t].id

\* Unit u stands at place i of an answer of m units, in which the reply of
\* number h is the last one.
InPlace(u, id, i, h, m) ==
  /\ u.op = id /\ u.i = i
  /\ u.k = "arr" => i = h /\ u.n = m - h
  /\ i = h /\ u.k # "arr" => m = h

\* Task t is at place p of its answer: its parser knows what is left of it, and
\* what it finds on its connection is the rest, or a first part of the rest.
Aligned(t) ==
  LET p == Len(got[t])
      h == RepliesOf(op[t])
  IN  /\ InStepSoFar(t)
      /\ p + Len(Stream(t)) <= sent[t]
      /\ \A j \in 1..Len(Stream(t)) :
           InPlace(Stream(t)[j], op[t].id, p + j, h, sent[t])
      /\ p < h => open[t] = 0 /\ left[t] = h - p
      /\ p >= h => open[t] = sent[t] - p /\ open[t] >= 1 /\ left[t] = 1

\* The operations that something on the wire of c answers.
WireOps(c) == {wire[c][j].op : j \in 1..Len(wire[c])}

\* Operations have numbers of their own, and what is on its way to anybody
\* does not answer an operation that is yet to be sent.
Numbered ==
  /\ \A t \in Tasks : op[t].id \in 0..issued
  /\ \A t, u \in Tasks : t # u /\ op[t].id = op[u].id => op[t].id = 0
  /\ \A c \in Conns : WireOps(c) \subseteq 0..issued
  /\ \A t \in Tasks : pc[t] # "rest" => result[t] = "none"
  /\ \A t \in Tasks : pc[t] \in {"get", "write"} =>
       /\ got[t] = <<>> /\ open[t] = 0
       /\ \A c \in Conns : op[t].id \notin WireOps(c)

Followed == \A t \in Tasks : pc[t] = "read" /\ StartsInStep(t) => Aligned(t)

StreamInv == ClientInv /\ Numbered /\ InStep /\ Followed

LEMMA StreamInit == Init => StreamInv
  <1> SUFFICES ASSUME Init PROVE StreamInv
    OBVIOUS
  <1>1. ClientInv
    BY ClientInit
  <1>2. \A c \in Conns : WireOps(c) = {}
    BY DEF Init, WireOps
  <1>3. Numbered
    BY <1>2 DEF Init, Numbered, NoOp
  <1>4. InStep /\ Followed
    BY DEF Init, InStep, Followed
  <1>5. QED
    BY <1>1, <1>3, <1>4 DEF StreamInv

-----------------------------------------------------------------------------
(* What a step leaves alone                                                  *)

\* The stream of a task whose connection and counters are not touched.
LEMMA TaskFrame ==
  ASSUME NEW v \in Tasks,
         lent'[v] = lent[v], got'[v] = got[v], op'[v] = op[v], sent'[v] = sent[v],
         open'[v] = open[v], left'[v] = left[v],
         rdbuf'[lent[v]] = rdbuf[lent[v]], wire'[lent[v]] = wire[lent[v]]
  PROVE  /\ Stream(v)' = Stream(v)
         /\ (StartsInStep(v)' <=> StartsInStep(v)) /\ (Aligned(v)' <=> Aligned(v))
  <1>1. Stream(v)' = Stream(v)
    BY DEF Stream
  <1>2. InStepSoFar(v)' <=> InStepSoFar(v)
    BY DEF InStepSoFar
  <1>3. StartsInStep(v)' <=> StartsInStep(v)
    BY <1>1 DEF StartsInStep
  <1>4. Aligned(v)' <=> Aligned(v)
    BY <1>1, <1>2 DEF Aligned, RepliesOf
  <1>5. QED
    BY <1>1, <1>3, <1>4

\* A step of task t on its own connection, seen from a reading task v.
LEMMA OthersFollow ==
  ASSUME ClientInv, NEW t \in Tasks, pc[t] \in {"write", "read"},
         NEW v \in Tasks, v # t, pc[v] = "read",
         lent'[v] = lent[v], got'[v] = got[v], op'[v] = op[v], sent'[v] = sent[v],
         open'[v] = open[v], left'[v] = left[v],
         \A c \in Conns \ {lent[t]} : rdbuf'[c] = rdbuf[c] /\ wire'[c] = wire[c]
  PROVE  /\ Stream(v)' = Stream(v)
         /\ (StartsInStep(v)' <=> StartsInStep(v)) /\ (Aligned(v)' <=> Aligned(v))
  <1>1. lent[v] \in Conns /\ lent[v] # NoConn
    BY LentConn
  <1>2. lent[v] # lent[t]
    BY <1>1 DEF ClientInv, Owners
  <1>3. QED
    BY <1>1, <1>2, TaskFrame

\* A step that puts on the wire nothing new, or, as task t sends its request,
\* answers to t and to nobody.
LEMMA NumberedFrame ==
  ASSUME ClientInv, Numbered, NEW t \in Tasks, UNCHANGED <<op, issued>>,
         \A v \in Tasks : /\ pc'[v] # "rest" => pc[v] # "rest" /\ result'[v] = result[v]
                          /\ pc'[v] \in {"get", "write"} =>
                               /\ pc[v] \in {"get", "write"}
                               /\ got'[v] = got[v] /\ open'[v] = open[v],
         \/ \A c \in Conns : WireOps(c)' \subseteq WireOps(c)
         \/ /\ pc'[t] \notin {"get", "write"}
            /\ \A c \in Conns : WireOps(c)' \subseteq WireOps(c) \cup {0, op[t].id}
  PROVE  Numbered'
  <1>1. op[t].id \in 0..issued /\ 0 \in 0..issued
    BY DEF Numbered, ClientInv, Typed, TypeOK
  <1>2. \A c \in Conns : WireOps(c)' \subseteq 0..issued'
    BY <1>1 DEF Numbered
  <1>3. ASSUME NEW v \in Tasks, pc'[v] \in {"get", "write"}, NEW c \in Conns
        PROVE  op'[v].id \notin WireOps(c)'
    <2>1. op[v].id \in 1..issued /\ op[v].id \notin WireOps(c) /\ issued \in Nat
      BY <1>3 DEF Numbered, ClientInv, Working, Typed, TypeOK
    <2>2. CASE v = t
      BY <1>3, <2>1, <2>2
    <2>3. CASE v # t
      <3>1. op[v].id # op[t].id
        BY <2>1, <2>3 DEF Numbered
      <3>2. QED
        BY <2>1, <3>1
    <2>4. QED
      BY <2>2, <2>3
  <1>4. QED
    BY <1>2, <1>3 DEF Numbered

LEMMA SameWireOps ==
  ASSUME NEW c \in Conns, wire'[c] \in {wire[c], <<>>}
  PROVE  WireOps(c)' \subseteq WireOps(c)
  <1>1. CASE wire'[c] = wire[c]
    BY <1>1 DEF WireOps
  <1>2. CASE wire'[c] = <<>>
    BY <1>2 DEF WireOps
  <1>3. QED
    BY <1>1, <1>2

LEMMA MoreWireOps ==
  ASSUME NEW c \in Conns, wire[c] \in Seq(Units), NEW w \in Seq(Units),
         wire'[c] = wire[c] \o w, NEW S, \A j \in 1..Len(w) : w[j].op \in S
  PROVE  WireOps(c)' \subseteq WireOps(c) \cup S
  <1>1. Len(wire[c]) \in Nat /\ Len(w) \in Nat
    BY LenProperties
  <1>2. /\ Len(wire'[c]) = Len(wire[c]) + Len(w)
        /\ \A j \in 1..Len(wire'[c]) :
             wire'[c][j] = IF j <= Len(wire[c]) THEN wire[c][j] ELSE w[j - Len(wire[c])]
    BY ConcatProperties
  <1>3. ASSUME NEW j \in 1..Len(wire'[c])
        PROVE  wire'[c][j].op \in WireOps(c) \cup S
    <2>1. CASE j <= Len(wire[c])
      BY <1>1, <1>2, <2>1 DEF WireOps
    <2>2. CASE j > Len(wire[c])
      BY <1>1, <1>2, <2>2
    <2>3. QED
      BY <1>1, <1>2, <2>1, <2>2
  <1>4. QED
    BY <1>3 DEF WireOps

-----------------------------------------------------------------------------
(* Steps outside a connection                                                *)

LEMMA StreamQueue ==
  ASSUME StreamInv, NEW t \in Tasks, Queue(t) \/ Clear(t)
  PROVE  StreamInv'
  <1>1. UNCHANGED <<poolVars, connVars, pc, op, left, open, got, sent, result, issued>>
    BY DEF Queue, Clear
  <1>2. ClientInv'
    BY QueueStep DEF StreamInv
  <1>3. Numbered' /\ InStep'
    BY <1>1 DEF StreamInv, Numbered, WireOps, InStep, InStepSoFar, connVars
  <1>4. \A v \in Tasks :
          (StartsInStep(v)' <=> StartsInStep(v)) /\ (Aligned(v)' <=> Aligned(v))
    BY <1>1, TaskFrame DEF poolVars, connVars
  <1>5. Followed'
    BY <1>1, <1>4 DEF StreamInv, Followed
  <1>6. QED
    BY <1>2, <1>3, <1>5 DEF StreamInv

LEMMA StreamStart ==
  ASSUME StreamInv, NEW t \in Tasks, NEW kind \in Ops, Start(t, kind)
  PROVE  StreamInv'
  <1>1. /\ pc[t] = "rest" /\ issued' = issued + 1 /\ issued \in Nat
        /\ UNCHANGED <<poolVars, connVars>>
    BY DEF Start, StreamInv, ClientInv, Typed, TypeOK
  <1>2. /\ got'[t] = <<>> /\ open'[t] = 0 /\ op'[t].id = issued + 1
        /\ pc'[t] # "read" /\ (pc'[t] # "rest" => result'[t] = "none")
    BY DEF Start, StreamInv, ClientInv, Typed, TypeOK
  <1>3. \A v \in Tasks : v # t =>
          /\ pc'[v] = pc[v] /\ got'[v] = got[v] /\ open'[v] = open[v]
          /\ left'[v] = left[v] /\ sent'[v] = sent[v] /\ op'[v] = op[v]
          /\ result'[v] = result[v]
    BY DEF Start, StreamInv, ClientInv, Typed, TypeOK
  <1>4. ClientInv'
    BY StartStep DEF StreamInv
  <1>5. \A c \in Conns : WireOps(c)' = WireOps(c) /\ WireOps(c) \subseteq 0..issued
    BY <1>1 DEF WireOps, connVars, StreamInv, Numbered
  <1>6. Numbered'
    <2>1. \A v \in Tasks : op'[v].id \in 0..issued'
      BY <1>1, <1>2, <1>3 DEF StreamInv, Numbered
    <2>2. \A v \in Tasks : v # t => op'[v].id \in 0..issued
      BY <1>3 DEF StreamInv, Numbered
    <2>3. \A v, u \in Tasks : v # u /\ op'[v].id = op'[u].id => op'[v].id = 0
      <3>1. SUFFICES ASSUME NEW v \in Tasks, NEW u \in Tasks, v # u,
                            op'[v].id = op'[u].id
                     PROVE  op'[v].id = 0
        OBVIOUS
      <3>2. v # t /\ u # t
        BY <1>1, <1>2, <2>2, <3>1
      <3>3. QED
        BY <1>3, <3>1, <3>2 DEF StreamInv, Numbered
    <2>4. \A c \in Conns : WireOps(c)' \subseteq 0..issued'
      BY <1>1, <1>5
    <2>5. ASSUME NEW v \in Tasks, pc'[v] \in {"get", "write"}
          PROVE  /\ got'[v] = <<>> /\ open'[v] = 0
                 /\ \A c \in Conns : op'[v].id \notin WireOps(c)'
      <3>1. CASE v = t
        BY <1>1, <1>2, <1>5, <3>1
      <3>2. CASE v # t
        BY <1>3, <1>5, <2>5, <3>2 DEF StreamInv, Numbered
      <3>3. QED
        BY <3>1, <3>2
    <2>6. \A v \in Tasks : pc'[v] # "rest" => result'[v] = "none"
      BY <1>2, <1>3 DEF StreamInv, Numbered
    <2>7. QED
      BY <2>1, <2>3, <2>4, <2>5, <2>6 DEF Numbered
  <1>7. InStep'
    BY <1>2, <1>3 DEF StreamInv, InStep, InStepSoFar
  <1>8. \A v \in Tasks : v # t =>
          (StartsInStep(v)' <=> StartsInStep(v)) /\ (Aligned(v)' <=> Aligned(v))
    BY <1>1, <1>3, TaskFrame DEF poolVars, connVars
  <1>9. Followed'
    BY <1>2, <1>3, <1>8 DEF StreamInv, Followed
  <1>10. QED
    BY <1>4, <1>6, <1>7, <1>9 DEF StreamInv

LEMMA StreamAcquire ==
  ASSUME StreamInv, NEW t \in Tasks,
         (\E c \in Conns : Acquire(t, c)) \/ AcquireErr(t)
  PROVE  StreamInv'
  <1>1. /\ pc[t] = "get" /\ pc'[t] \in {"write", "rest"}
        /\ \A v \in Tasks : v # t => pc'[v] = pc[v] /\ result'[v] = result[v]
        /\ UNCHANGED <<connVars, op, left, open, got, sent, issued>>
        /\ pc'[t] # "rest" => result'[t] = result[t]
        /\ result'[t] \in {result[t], "no_conn"}
    BY DEF Acquire, AcquireErr, StreamInv, ClientInv, Typed, TypeOK
  <1>2. ClientInv /\ ClientInv'
    BY AcquireStep DEF StreamInv
  <1>3. \A v \in Tasks : v # t => lent'[v] = lent[v]
    BY DEF Acquire, AcquireErr, Pool!Reuse, Pool!Connect, Pool!Lend, poolVars,
           StreamInv, ClientInv, Typed, TypeOK
  <1>4. \A c \in Conns : WireOps(c)' \subseteq WireOps(c)
    BY <1>1, SameWireOps DEF connVars
  <1>5. Numbered'
    BY <1>1, <1>2, <1>4, NumberedFrame DEF StreamInv
  <1>6. InStep'
    BY <1>1 DEF StreamInv, InStep, InStepSoFar
  <1>7. \A v \in Tasks : v # t =>
          (StartsInStep(v)' <=> StartsInStep(v)) /\ (Aligned(v)' <=> Aligned(v))
    BY <1>1, <1>3, TaskFrame DEF connVars
  <1>8. Followed'
    BY <1>1, <1>7 DEF StreamInv, Followed
  <1>9. QED
    BY <1>2, <1>5, <1>6, <1>8 DEF StreamInv

-----------------------------------------------------------------------------
(* Writing                                                                   *)

\* The stream of a task that reads.
LEMMA StreamProperties ==
  ASSUME ClientInv, NEW t \in Tasks, pc[t] \in {"write", "read"}
  PROVE  /\ Stream(t) \in Seq(Units)
         /\ Len(rdbuf[lent[t]]) \in Nat /\ Len(wire[lent[t]]) \in Nat
         /\ Len(Stream(t)) = Len(rdbuf[lent[t]]) + Len(wire[lent[t]])
         /\ \A j \in 1..Len(Stream(t)) :
              Stream(t)[j] = IF j <= Len(rdbuf[lent[t]]) THEN rdbuf[lent[t]][j]
                             ELSE wire[lent[t]][j - Len(rdbuf[lent[t]])]
  <1>1. rdbuf[lent[t]] \in Seq(Units) /\ wire[lent[t]] \in Seq(Units)
    BY LentConn
  <1> DEFINE r == rdbuf[lent[t]]
             w == wire[lent[t]]
  <1>2. Stream(t) = r \o w
    BY DEF Stream
  <1> HIDE DEF r, w
  <1>3. r \in Seq(Units) /\ w \in Seq(Units)
    BY <1>1 DEF r, w
  <1>4. Len(r) \in Nat /\ Len(w) \in Nat
    BY <1>3, LenProperties
  <1>5. /\ Stream(t) \in Seq(Units) /\ Len(Stream(t)) = Len(r) + Len(w)
        /\ \A j \in 1..(Len(r) + Len(w)) :
             Stream(t)[j] = IF j <= Len(r) THEN r[j] ELSE w[j - Len(r)]
    BY <1>2, <1>3, ConcatProperties
  <1>6. QED
    BY <1>4, <1>5 DEF r, w

\* An operation finds its own answer where nothing was on the wire before.
LEMMA AnswerAligned ==
  ASSUME ClientInv, Numbered, NEW t \in Tasks, pc[t] = "write",
         NEW a \in Answers(op[t]), UNCHANGED <<op, got, open>>,
         Stream(t)' = Tagged(op[t].id, a),
         sent'[t] = Len(a), left'[t] = RepliesOf(op[t])
  PROVE  Aligned(t)'
  <1> DEFINE h == RepliesOf(op[t])
             s == Tagged(op[t].id, a)
  <1>1. Busy(op[t]) /\ op[t].id \in 0..MaxOps
    BY LentConn
  <1>2. Fits(a, h)
    BY <1>1, AnswersFit
  <1>3. a \in Seq(Shapes) /\ h \in 1..Len(a) /\ Len(a) \in Nat
    BY <1>2, LenProperties DEF Fits
  <1>4. /\ Len(s) = Len(a)
        /\ \A j \in 1..Len(a) :
             s[j] = [op |-> op[t].id, i |-> j, k |-> a[j].k, n |-> a[j].n]
    BY <1>1, <1>3, TaggedUnits
  <1>5. got'[t] = <<>> /\ open'[t] = 0
    BY DEF Numbered
  <1> HIDE DEF s, h
  <1>6. ASSUME NEW j \in 1..Len(a)
        PROVE  InPlace(s[j], op[t].id, 0 + j, h, Len(a))
    <2>1. s[j].op = op[t].id /\ s[j].i = j /\ s[j].k = a[j].k /\ s[j].n = a[j].n
      <3>1. s[j] = [op |-> op[t].id, i |-> j, k |-> a[j].k, n |-> a[j].n]
        BY <1>4
      <3>2. QED
        BY <3>1
    <2>2. a[j].k = "arr" => j = h /\ a[j].n = Len(a) - h
      BY <1>2 DEF Fits
    <2>3. j = h /\ a[j].k # "arr" => Len(a) = h
      BY <1>2 DEF Fits
    <2>4. QED
      BY <2>1, <2>2, <2>3 DEF InPlace
  <1>7. InStepSoFar(t)' /\ Len(got'[t]) = 0
    BY <1>5 DEF InStepSoFar
  <1>8. RepliesOf(op'[t]) = h /\ left'[t] = h
    BY DEF h
  <1>9. Stream(t)' = s
    BY DEF s
  <1>10. QED
    BY <1>3, <1>4, <1>5, <1>6, <1>7, <1>8, <1>9 DEF Aligned

\* What a task that has just written will read first is a reply to somebody
\* else, or its own answer from the first unit on.
LEMMA StreamWrite ==
  ASSUME StreamInv, NEW t \in Tasks, Write(t)
  PROVE  StreamInv'
  <1> DEFINE c == lent[t]
  <1>1. /\ pc[t] = "write" /\ pc' = [pc EXCEPT ![t] = "read"]
        /\ left' = [left EXCEPT ![t] = RepliesOf(op[t])]
        /\ UNCHANGED <<poolVars, rdbuf, torn, cmds, op, open, got, result, issued>>
    BY DEF Write
  <1>2. ClientInv /\ ClientInv' /\ Numbered
    BY WriteStep DEF StreamInv
  <1>3. /\ c \in Conns /\ wire[c] \in Seq(Units) /\ Busy(op[t])
        /\ op[t].id \in 1..issued /\ op[t].id \in 0..MaxOps
        /\ wire \in [Conns -> Seq(Units)]
    BY <1>1, <1>2, LentConn DEF ClientInv, Typed, TypeOK
  <1>4. PICK w \in Seq(Units) :
           /\ wire' = [wire EXCEPT ![c] = @ \o w]
           /\ \/ sent' = sent /\ \A j \in 1..Len(w) : w[j].op = 0
              \/ \E a \in Answers(op[t]) : /\ w = Tagged(op[t].id, a)
                                           /\ sent' = [sent EXCEPT ![t] = Len(a)]
    BY <1>2, WriteSends
  <1>5. /\ wire'[c] = wire[c] \o w
        /\ \A d \in Conns \ {c} : wire'[d] = wire[d]
    BY <1>3, <1>4
  <1>6. \A v \in Tasks : /\ pc'[v] = IF v = t THEN "read" ELSE pc[v]
                         /\ left'[v] = IF v = t THEN RepliesOf(op[t]) ELSE left[v]
    BY <1>1, <1>2 DEF ClientInv, Typed, TypeOK
  <1>7. \A j \in 1..Len(w) : w[j].op \in {0, op[t].id}
    <2>1. CASE \A j \in 1..Len(w) : w[j].op = 0
      BY <2>1
    <2>2. CASE \E a \in Answers(op[t]) : w = Tagged(op[t].id, a)
      <3>1. PICK a \in Answers(op[t]) : w = Tagged(op[t].id, a)
        BY <2>2
      <3>2. a \in Seq(Shapes)
        BY <1>3, AnswersFit DEF Fits
      <3>3. /\ Len(w) = Len(a)
            /\ \A j \in 1..Len(a) :
                 w[j] = [op |-> op[t].id, i |-> j, k |-> a[j].k, n |-> a[j].n]
        BY <1>3, <3>1, <3>2, TaggedUnits
      <3>4. ASSUME NEW j \in 1..Len(w)
            PROVE  w[j].op = op[t].id
        <4>1. w[j] = [op |-> op[t].id, i |-> j, k |-> a[j].k, n |-> a[j].n]
          BY <3>3
        <4>2. QED
          BY <4>1
      <3>5. QED
        BY <3>4
    <2>3. QED
      BY <1>4, <2>1, <2>2
  <1>8. ASSUME NEW d \in Conns
        PROVE  WireOps(d)' \subseteq WireOps(d) \cup {0, op[t].id}
    <2>1. CASE d = c
      <3>1. wire[d] \in Seq(Units) /\ wire'[d] = wire[d] \o w
        BY <1>3, <1>5, <2>1
      <3>2. QED
        BY <1>7, <3>1, MoreWireOps
    <2>2. CASE d # c
      BY <1>5, <2>2, SameWireOps
    <2>3. QED
      BY <2>1, <2>2
  <1>9. Numbered'
    BY <1>1, <1>2, <1>6, <1>8, NumberedFrame
  <1>10. \A v \in Tasks : v # t => sent'[v] = sent[v]
    BY <1>2, <1>4 DEF ClientInv, Typed, TypeOK
  <1>11. InStep'
    <2>1. got'[t] = <<>>
      BY <1>1, <1>2 DEF Numbered
    <2>2. QED
      BY <1>1, <1>10, <2>1 DEF StreamInv, InStep, InStepSoFar
  <1>12. ASSUME StartsInStep(t)'
         PROVE  Aligned(t)'
    <2>1. got'[t] = <<>> /\ rdbuf'[lent'[t]] = <<>> /\ lent'[t] = c
      BY <1>1, <1>2, WritesEmpty DEF Numbered, LentEmpty, poolVars
    <2>2. Stream(t)' = wire[c] \o w
      <3>1. wire[c] \o w \in Seq(Units)
        BY <1>3, <1>4, ConcatProperties
      <3>2. QED
        BY <1>5, <2>1, <3>1, ConcatEmptySeq DEF Stream
    <2>3. Stream(t)' # <<>> /\ Stream(t)'[1].op = op[t].id
      BY <1>1, <1>12, <2>1 DEF StartsInStep
    <2>4. wire[c] = <<>>
      <3>1. SUFFICES ASSUME wire[c] # <<>>
                     PROVE  FALSE
        OBVIOUS
      <3>2. Len(wire[c]) \in Nat \ {0} /\ Len(w) \in Nat
        BY <1>3, <3>1, LenProperties, EmptySeq
      <3>3. (wire[c] \o w)[1] = wire[c][1]
        BY <1>3, <3>2, ConcatProperties
      <3>4. wire[c][1].op \in WireOps(c)
        BY <3>2 DEF WireOps
      <3>5. op[t].id \notin WireOps(c)
        BY <1>1, <1>2, <1>3 DEF Numbered
      <3>6. QED
        BY <2>2, <2>3, <3>3, <3>4, <3>5
    <2>5. Stream(t)' = w
      BY <2>2, <2>4, <1>4, ConcatEmptySeq
    <2>6. w # <<>> /\ w[1].op = op[t].id /\ Len(w) \in Nat \ {0}
      BY <2>3, <2>5, LenProperties, EmptySeq
    <2>7. w[1].op # 0
      BY <1>3, <2>6
    <2>8. PICK a \in Answers(op[t]) : /\ w = Tagged(op[t].id, a)
                                      /\ sent' = [sent EXCEPT ![t] = Len(a)]
      BY <1>4, <2>6, <2>7
    <2>9. sent'[t] = Len(a) /\ left'[t] = RepliesOf(op[t])
      BY <1>2, <1>6, <2>8 DEF ClientInv, Typed, TypeOK
    <2>10. QED
      BY <1>1, <1>2, <2>5, <2>8, <2>9, AnswerAligned
  <1>13. \A v \in Tasks : v # t /\ pc[v] = "read" =>
          (StartsInStep(v)' <=> StartsInStep(v)) /\ (Aligned(v)' <=> Aligned(v))
    BY <1>1, <1>2, <1>5, <1>6, <1>10, OthersFollow DEF poolVars
  <1>14. Followed'
    BY <1>6, <1>12, <1>13 DEF StreamInv, Followed
  <1>15. QED
    BY <1>2, <1>9, <1>11, <1>14 DEF StreamInv

-----------------------------------------------------------------------------
(* The end of an operation                                                   *)

LEMMA StreamDrop ==
  ASSUME StreamInv, NEW t \in Tasks, pc[t] \in {"write", "read"}, Drops(t), ClientInv',
         UNCHANGED <<op, issued>>,
         \A v \in Tasks \ {t} :
           /\ left'[v] = left[v] /\ open'[v] = open[v] /\ got'[v] = got[v]
           /\ sent'[v] = sent[v] /\ result'[v] = result[v],
         \A d \in Conns : WireOps(d)' \subseteq WireOps(d) \cup {0, op[t].id},
         (got'[t] # <<>> /\ Head(got'[t]) = <<op[t].id, 1>>) =>
           InStepSoFar(t)' /\ (result'[t] = "ok" => Len(got'[t]) = sent'[t])
  PROVE  StreamInv'
  <1>1. \A v \in Tasks : /\ pc'[v] = IF v = t THEN "rest" ELSE pc[v]
                         /\ v # t => lent'[v] = lent[v]
    BY DEF StreamInv, Drops, ClientInv, Typed, TypeOK
  <1>2. Numbered'
    BY <1>1, NumberedFrame DEF StreamInv
  <1>3. InStep'
    BY DEF StreamInv, InStep, InStepSoFar
  <1>4. \A d \in Conns \ {lent[t]} : rdbuf'[d] = rdbuf[d] /\ wire'[d] = wire[d]
    BY DEF Drops
  <1>5. \A v \in Tasks : v # t /\ pc[v] = "read" =>
          (StartsInStep(v)' <=> StartsInStep(v)) /\ (Aligned(v)' <=> Aligned(v))
    BY <1>1, <1>4, OthersFollow DEF StreamInv
  <1>6. Followed'
    BY <1>1, <1>5 DEF StreamInv, Followed
  <1>7. QED
    BY <1>2, <1>3, <1>6 DEF StreamInv

LEMMA FinishWireOps ==
  ASSUME ClientInv, NEW t \in Tasks, Drops(t), wire'[lent[t]] \in {wire[lent[t]], <<>>}
  PROVE  \A d \in Conns : WireOps(d)' \subseteq WireOps(d)
  <1>1. \A d \in Conns : wire'[d] \in {wire[d], <<>>}
    BY DEF Drops
  <1>2. QED
    BY <1>1, SameWireOps

LEMMA StreamGiveUp ==
  ASSUME StreamInv, NEW t \in Tasks, WriteErr(t) \/ ReadEof(t) \/ AbandonRead(t)
  PROVE  StreamInv'
  <1>1. PICK res \in {"io", "abandoned"} : Finish(t, res, rdbuf[lent[t]])
    BY DEF WriteErr, ReadEof, AbandonRead
  <1>2. /\ pc[t] \in {"write", "read"}
        /\ UNCHANGED <<cmds, op, left, open, got, sent, issued>>
    BY DEF WriteErr, ReadEof, AbandonRead
  <1>3. ClientInv /\ ClientInv' /\ res \in Results /\ rdbuf[lent[t]] \in Seq(Units)
    BY <1>2, GiveUpSteps, LentConn DEF StreamInv, Results
  <1>4. /\ Drops(t) /\ result' = [result EXCEPT ![t] = res]
        /\ wire'[lent[t]] \in {wire[lent[t]], <<>>}
    BY <1>1, <1>2, <1>3, FinishDrops
  <1>5. /\ result'[t] # "ok"
        /\ \A v \in Tasks \ {t} : result'[v] = result[v]
    BY <1>3, <1>4 DEF ClientInv, Typed, TypeOK
  <1>6. \A d \in Conns : WireOps(d)' \subseteq WireOps(d)
    BY <1>3, <1>4, FinishWireOps
  <1>7. (got[t] # <<>> /\ Head(got[t]) = <<op[t].id, 1>>) => InStepSoFar(t)'
    BY <1>2 DEF StreamInv, InStep, InStepSoFar
  <1>8. QED
    BY <1>2, <1>3, <1>4, <1>5, <1>6, <1>7, StreamDrop

LEMMA StreamAbandonWrite ==
  ASSUME StreamInv, NEW t \in Tasks, AbandonWrite(t)
  PROVE  StreamInv'
  <1>1. /\ Drops(t) /\ pc[t] = "write"
        /\ result' = [result EXCEPT ![t] = "abandoned"]
        /\ \A u \in Tasks \ {t} : sent'[u] = sent[u]
        /\ UNCHANGED <<cmds, op, left, open, got, issued>>
        /\ \/ wire'[lent[t]] \in {wire[lent[t]], <<>>}
           \/ \E s \in Seq(Shapes) :
                wire'[lent[t]] = wire[lent[t]] \o Tagged(op[t].id, s)
    BY AbandonWriteDrops DEF StreamInv
  <1>2. ClientInv /\ ClientInv'
    BY AbandonWriteStep DEF StreamInv
  <1>3. \A v \in Tasks \ {t} : result'[v] = result[v]
    BY <1>1, <1>2 DEF ClientInv, Typed, TypeOK
  <1>4. ASSUME NEW d \in Conns
        PROVE  WireOps(d)' \subseteq WireOps(d) \cup {0, op[t].id}
    <2>1. CASE wire'[d] \in {wire[d], <<>>}
      BY <2>1, SameWireOps
    <2>2. CASE \E s \in Seq(Shapes) : wire'[d] = wire[d] \o Tagged(op[t].id, s)
      <3>1. PICK s \in Seq(Shapes) : wire'[d] = wire[d] \o Tagged(op[t].id, s)
        BY <2>2
      <3>2. op[t].id \in 0..MaxOps /\ wire[d] \in Seq(Units)
        BY <1>1, <1>2, LentConn DEF ClientInv, Typed, TypeOK
      <3>3. /\ Tagged(op[t].id, s) \in Seq(Units)
            /\ Len(Tagged(op[t].id, s)) = Len(s)
            /\ \A j \in 1..Len(s) : Tagged(op[t].id, s)[j]
                 = [op |-> op[t].id, i |-> j, k |-> s[j].k, n |-> s[j].n]
        BY <3>2, TaggedUnits
      <3>4. ASSUME NEW j \in 1..Len(Tagged(op[t].id, s))
            PROVE  Tagged(op[t].id, s)[j].op \in {0, op[t].id}
        <4>1. Tagged(op[t].id, s)[j]
                = [op |-> op[t].id, i |-> j, k |-> s[j].k, n |-> s[j].n]
          BY <3>3
        <4>2. QED
          BY <4>1
      <3>5. QED
        BY <3>1, <3>2, <3>3, <3>4, MoreWireOps
    <2>3. QED
      BY <1>1, <2>1, <2>2 DEF Drops
  <1>5. got'[t] = <<>>
    BY <1>1 DEF StreamInv, Numbered
  <1>6. QED
    BY <1>1, <1>2, <1>3, <1>4, <1>5, StreamDrop

-----------------------------------------------------------------------------
(* Reading                                                                   *)

\* A fill moves the boundary between the BufReader and the socket.
LEMMA FillStream ==
  ASSUME ClientInv, NEW t \in Tasks, Fill(t)
  PROVE  Stream(t)' = Stream(t)
  <1> DEFINE c == lent[t]
  <1>1. pc[t] = "read" /\ rdbuf[c] = <<>> /\ UNCHANGED poolVars
    BY DEF Fill
  <1>2. /\ c \in Conns /\ wire[c] \in Seq(Units) /\ Len(wire[c]) \in Nat
        /\ wire \in [Conns -> Seq(Units)] /\ rdbuf \in [Conns -> Seq(Units)]
    BY <1>1, LentConn, LenProperties DEF ClientInv, Typed, TypeOK
  <1>3. PICK n \in 1..Len(wire[c]) :
          /\ rdbuf' = [rdbuf EXCEPT ![c] = SubSeq(wire[c], 1, n)]
          /\ wire' = [wire EXCEPT ![c] = SubSeq(wire[c], n + 1, Len(wire[c]))]
    BY DEF Fill
  <1>4. /\ rdbuf'[c] = SubSeq(wire[c], 1, n)
        /\ wire'[c] = SubSeq(wire[c], n + 1, Len(wire[c]))
    BY <1>2, <1>3
  <1>5. SubSeq(wire[c], 1, n) \o SubSeq(wire[c], n + 1, Len(wire[c]))
          = SubSeq(wire[c], 1, Len(wire[c]))
    BY <1>2, ConcatAdjacentSubSeq
  <1>6. SubSeq(wire[c], 1, Len(wire[c])) = wire[c]
    BY <1>2, SubSeqFull
  <1>7. Stream(t) = wire[c]
    BY <1>1, <1>2, ConcatEmptySeq DEF Stream
  <1>8. QED
    BY <1>1, <1>4, <1>5, <1>6, <1>7 DEF Stream, poolVars

LEMMA StreamFill ==
  ASSUME StreamInv, NEW t \in Tasks, Fill(t)
  PROVE  StreamInv'
  <1> DEFINE c == lent[t]
  <1>1. /\ pc[t] = "read" /\ rdbuf[c] = <<>>
        /\ UNCHANGED <<poolVars, broken, torn, taskVars>>
    BY DEF Fill
  <1>2. ClientInv /\ ClientInv' /\ Numbered
    BY FillStep DEF StreamInv
  <1>3. /\ c \in Conns /\ wire[c] \in Seq(Units) /\ Len(wire[c]) \in Nat
        /\ wire \in [Conns -> Seq(Units)] /\ rdbuf \in [Conns -> Seq(Units)]
    BY <1>1, <1>2, LentConn, LenProperties DEF ClientInv, Typed, TypeOK
  <1>4. PICK n \in 1..Len(wire[c]) :
          /\ rdbuf' = [rdbuf EXCEPT ![c] = SubSeq(wire[c], 1, n)]
          /\ wire' = [wire EXCEPT ![c] = SubSeq(wire[c], n + 1, Len(wire[c]))]
    BY DEF Fill
  <1>5. /\ rdbuf'[c] = SubSeq(wire[c], 1, n)
        /\ wire'[c] = SubSeq(wire[c], n + 1, Len(wire[c]))
        /\ \A d \in Conns \ {c} : rdbuf'[d] = rdbuf[d] /\ wire'[d] = wire[d]
    BY <1>3, <1>4
  <1>6. Stream(t)' = Stream(t)
    BY <1>2, FillStream
  <1>7. \A v \in Tasks : v # t /\ pc[v] = "read" =>
          (StartsInStep(v)' <=> StartsInStep(v)) /\ (Aligned(v)' <=> Aligned(v))
    BY <1>1, <1>2, <1>5, OthersFollow DEF poolVars, taskVars
  <1>8. (StartsInStep(t)' <=> StartsInStep(t)) /\ (Aligned(t)' <=> Aligned(t))
    <2>1. InStepSoFar(t)' <=> InStepSoFar(t)
      BY <1>1 DEF InStepSoFar, taskVars
    <2>2. StartsInStep(t)' <=> StartsInStep(t)
      BY <1>1, <1>6 DEF StartsInStep, taskVars
    <2>3. Aligned(t)' <=> Aligned(t)
      BY <1>1, <1>6, <2>1 DEF Aligned, RepliesOf, taskVars
    <2>4. QED
      BY <2>2, <2>3
  <1>9. Followed'
    BY <1>1, <1>7, <1>8 DEF StreamInv, Followed, taskVars
  <1>10. ASSUME NEW d \in Conns
         PROVE  WireOps(d)' \subseteq WireOps(d)
    <2>1. CASE d = c
      <3>1. ASSUME NEW j \in 1..Len(wire'[d])
            PROVE  wire'[d][j].op \in WireOps(d)
        <4>1. Len(wire'[d]) = Len(wire[d]) - n /\ wire'[d][j] = wire[d][n + j]
          <5>1. /\ wire[d] \in Seq(Units) /\ Len(wire[d]) \in Nat
                /\ n \in 1..Len(wire[d]) /\ n + 1 \in 1..(Len(wire[d]) + 1)
                /\ Len(wire[d]) \in (n + 1) - 1 .. Len(wire[d])
                /\ wire'[d] = SubSeq(wire[d], n + 1, Len(wire[d]))
            BY <1>3, <1>5, <2>1
          <5>2. Len(wire'[d]) = Len(wire[d]) - (n + 1) + 1
            BY <5>1, SubSeqProperties
          <5>3. \A i \in 1..(Len(wire[d]) - (n + 1) + 1) :
                  wire'[d][i] = wire[d][(n + 1) + i - 1]
            BY <5>1, SubSeqProperties
          <5>4. j \in 1..(Len(wire[d]) - (n + 1) + 1) /\ (n + 1) + j - 1 = n + j
            BY <5>1, <5>2
          <5>5. QED
            BY <5>1, <5>2, <5>3, <5>4
        <4>2. n + j \in 1..Len(wire[d])
          BY <1>3, <2>1, <4>1
        <4>3. QED
          BY <4>1, <4>2 DEF WireOps
      <3>2. QED
        BY <3>1 DEF WireOps
    <2>2. CASE d # c
      BY <1>5, <2>2, SameWireOps
    <2>3. QED
      BY <2>1, <2>2
  <1>11. Numbered'
    BY <1>1, <1>2, <1>10, NumberedFrame DEF taskVars
  <1>12. InStep'
    BY <1>1 DEF StreamInv, InStep, InStepSoFar, taskVars
  <1>13. QED
    BY <1>2, <1>9, <1>11, <1>12 DEF StreamInv

\* The next unit to parse is the first one of the stream.
LEMMA StreamHead ==
  ASSUME ClientInv, NEW t \in Tasks, pc[t] = "read", rdbuf[lent[t]] # <<>>
  PROVE  /\ Len(Stream(t)) \in Nat \ {0} /\ Stream(t) # <<>>
         /\ Stream(t)[1] = Head(rdbuf[lent[t]])
  <1> DEFINE r == rdbuf[lent[t]]
             w == wire[lent[t]]
  <1>1. r \in Seq(Units) /\ Len(r) \in Nat \ {0} /\ Head(r) = r[1]
    BY LentConn, EmptySeq
  <1>2. Len(Stream(t)) = Len(r) + Len(w) /\ Len(w) \in Nat
    BY StreamProperties
  <1>3. \A j \in 1..Len(Stream(t)) :
          Stream(t)[j] = IF j <= Len(r) THEN r[j] ELSE w[j - Len(r)]
    BY StreamProperties
  <1> HIDE DEF r, w
  <1>4. Len(Stream(t)) \in Nat \ {0} /\ 1 \in 1..Len(Stream(t)) /\ 1 <= Len(r)
    BY <1>1, <1>2
  <1>5. Stream(t)[1] = Head(r)
    BY <1>1, <1>3, <1>4
  <1>6. Stream(t) # <<>>
    BY <1>4
  <1>7. QED
    BY <1>4, <1>5, <1>6 DEF r

\* What is left of the stream behind it.
LEMMA StreamTail ==
  ASSUME ClientInv, NEW t \in Tasks, pc[t] = "read", rdbuf[lent[t]] # <<>>,
         UNCHANGED <<lent, wire>>, rdbuf'[lent[t]] = Tail(rdbuf[lent[t]])
  PROVE  /\ Stream(t)' \in Seq(Units)
         /\ Len(Stream(t)') = Len(Stream(t)) - 1
         /\ \A j \in 1..Len(Stream(t)') : Stream(t)'[j] = Stream(t)[j + 1]
  <1> DEFINE r == rdbuf[lent[t]]
             w == wire[lent[t]]
             q == Tail(r)
  <1>1. r \in Seq(Units) /\ w \in Seq(Units) /\ Len(r) \in Nat \ {0}
    BY LentConn, EmptySeq
  <1>2. /\ q \in Seq(Units) /\ Len(q) = Len(r) - 1
        /\ \A j \in 1..Len(q) : q[j] = r[j + 1]
    BY <1>1, HeadTailProperties
  <1>3. /\ Len(Stream(t)) = Len(r) + Len(w) /\ Len(w) \in Nat
        /\ \A j \in 1..Len(Stream(t)) :
             Stream(t)[j] = IF j <= Len(r) THEN r[j] ELSE w[j - Len(r)]
    BY StreamProperties
  <1>4. Stream(t)' = q \o w
    BY DEF Stream
  <1> HIDE DEF r, w, q
  <1>5. /\ Stream(t)' \in Seq(Units) /\ Len(Stream(t)') = Len(q) + Len(w)
        /\ \A j \in 1..(Len(q) + Len(w)) :
             Stream(t)'[j] = IF j <= Len(q) THEN q[j] ELSE w[j - Len(q)]
    <2>1. /\ q \o w \in Seq(Units) /\ Len(q \o w) = Len(q) + Len(w)
          /\ \A j \in 1..(Len(q) + Len(w)) :
               (q \o w)[j] = IF j <= Len(q) THEN q[j] ELSE w[j - Len(q)]
      BY <1>1, <1>2, ConcatProperties
    <2>2. QED
      BY <1>4, <2>1
  <1>6. ASSUME NEW j \in 1..Len(Stream(t)')
        PROVE  Stream(t)'[j] = Stream(t)[j + 1]
    <2>1. j \in Nat \ {0} /\ j + 1 \in 1..Len(Stream(t))
      BY <1>1, <1>2, <1>3, <1>5
    <2>2. CASE j <= Len(q)
      BY <1>1, <1>2, <1>3, <1>5, <2>1, <2>2
    <2>3. CASE j > Len(q)
      <3>1. ~(j <= Len(q)) /\ ~(j + 1 <= Len(r)) /\ j - Len(q) = (j + 1) - Len(r)
        BY <1>1, <1>2, <2>1, <2>3
      <3>2. Stream(t)'[j] = w[j - Len(q)]
        BY <1>5, <3>1
      <3>3. Stream(t)[j + 1] = w[(j + 1) - Len(r)]
        BY <1>3, <2>1, <3>1
      <3>4. QED
        BY <3>1, <3>2, <3>3
    <2>4. QED
      BY <1>1, <1>2, <2>1, <2>2, <2>3
  <1>7. QED
    BY <1>1, <1>2, <1>3, <1>5, <1>6

\* The unit that an aligned task parses: it is the next one of its answer, the
\* counters follow it, and the operation's end is the answer's end.
LEMMA ParseInStep ==
  ASSUME ClientInv, NEW t \in Tasks, Parse(t), Aligned(t)
  PROVE  LET u == Head(rdbuf[lent[t]])
             p == Len(got[t])
             h == RepliesOf(op[t])
         IN  /\ InStepSoFar(t)' /\ Len(got'[t]) = p + 1 /\ p + 1 <= sent[t]
             /\ InPlace(u, op[t].id, p + 1, h, sent[t])
             /\ EndsReply(t, u) /\ left[t] = 1 => p + 1 = sent[t]
             /\ ~(EndsReply(t, u) /\ left[t] = 1) =>
                  /\ p + 1 < h => open'[t] = 0 /\ left'[t] = h - (p + 1)
                  /\ p + 1 >= h => /\ open'[t] = sent[t] - (p + 1) /\ open'[t] >= 1
                                   /\ left'[t] = 1
  <1> DEFINE u == Head(rdbuf[lent[t]])
             p == Len(got[t])
             h == RepliesOf(op[t])
             m == sent[t]
  <1>1. /\ pc[t] = "read" /\ rdbuf[lent[t]] # <<>>
        /\ u \in Units
        /\ left[t] \in Nat \ {0} /\ open[t] \in 0..MaxBatch
        /\ left'[t] = IF EndsReply(t, u) THEN left[t] - 1 ELSE left[t]
        /\ open'[t] = ElementsLeft(t, u)
        /\ got'[t] = Append(got[t], <<u.op, u.i>>)
        /\ UNCHANGED <<cmds, op, sent, issued>>
    BY ParseCounts
  <1>2. /\ got[t] \in Seq((0..MaxOps) \X Nat) /\ p \in Nat /\ m \in Nat
        /\ open[t] \in Nat /\ u.n \in Nat
    <2>1. got[t] \in Seq((0..MaxOps) \X Nat) /\ m \in Nat
      BY DEF ClientInv, Typed, TypeOK
    <2>2. p \in Nat
      BY <2>1, LenProperties
    <2>3. u.n \in 0..MaxBatch
      BY <1>1 DEF Units
    <2>4. open[t] \in Nat /\ u.n \in Nat
      BY <1>1, <2>3, BoundsAssumption
    <2>5. QED
      BY <2>1, <2>2, <2>4
  <1>3. h \in Nat \ {0}
    BY <1>1, LentConn, BoundsAssumption DEF Busy, RepliesOf
  <1>5. Len(Stream(t)) \in Nat \ {0} /\ Stream(t)[1] = u
    BY <1>1, StreamHead
  <1>6. InPlace(u, op[t].id, p + 1, h, m) /\ p + 1 <= m
    BY <1>2, <1>5 DEF Aligned
  <1>7. /\ p < h => open[t] = 0 /\ left[t] = h - p
        /\ p >= h => open[t] = m - p /\ open[t] >= 1 /\ left[t] = 1
    BY DEF Aligned
  <1>8. InStepSoFar(t)' /\ Len(got'[t]) = p + 1
    <2>1. u.op = op[t].id /\ u.i = p + 1
      BY <1>6 DEF InPlace
    <2>2. <<u.op, u.i>> \in (0..MaxOps) \X Nat
      BY <1>1 DEF Units
    <2>3. /\ Len(got'[t]) = p + 1 /\ got'[t] \in Seq((0..MaxOps) \X Nat)
          /\ \A j \in 1..p : got'[t][j] = got[t][j]
          /\ got'[t][p + 1] = <<u.op, u.i>>
      <3> DEFINE e == <<u.op, u.i>>
      <3>1. e \in (0..MaxOps) \X Nat /\ got'[t] = Append(got[t], e)
        BY <1>1, <2>2
      <3> HIDE DEF e
      <3>2. /\ Append(got[t], e) \in Seq((0..MaxOps) \X Nat)
            /\ Len(Append(got[t], e)) = Len(got[t]) + 1
            /\ \A j \in 1..Len(got[t]) : Append(got[t], e)[j] = got[t][j]
            /\ Append(got[t], e)[Len(got[t]) + 1] = e
        BY <1>2, <3>1, AppendProperties
      <3>3. QED
        BY <3>1, <3>2 DEF e
    <2>4. \A j \in 1..p : got[t][j] = <<op[t].id, j>>
      BY <1>2 DEF Aligned, InStepSoFar
    <2>5. ASSUME NEW j \in 1..(p + 1)
          PROVE  got'[t][j] = <<op'[t].id, j>>
      <3>1. CASE j = p + 1
        BY <1>1, <2>1, <2>3, <3>1
      <3>2. CASE j # p + 1
        <4>1. j \in 1..p
          BY <1>2, <3>2
        <4>2. QED
          BY <1>1, <2>3, <2>4, <4>1
      <3>3. QED
        BY <3>1, <3>2
    <2>6. DOMAIN got'[t] = 1..(p + 1)
      BY <2>3, LenProperties
    <2>7. QED
      BY <2>3, <2>5, <2>6 DEF InStepSoFar
  <1>9. /\ u.k = "arr" => p + 1 = h /\ u.n = m - h
        /\ p + 1 = h /\ u.k # "arr" => m = h
    BY <1>6 DEF InPlace
  <1> HIDE DEF u, p, h, m
  <1>10. EndsReply(t, u) /\ left[t] = 1 => p + 1 = m
    BY <1>1, <1>2, <1>3, <1>7, <1>9 DEF EndsReply
  <1>11. ASSUME ~(EndsReply(t, u) /\ left[t] = 1)
         PROVE  /\ p + 1 < h => open'[t] = 0 /\ left'[t] = h - (p + 1)
                /\ p + 1 >= h => /\ open'[t] = m - (p + 1) /\ open'[t] >= 1
                                 /\ left'[t] = 1
    <2>1. CASE u.k = "arr"
      BY <1>1, <1>2, <1>3, <1>7, <1>9, <1>11, <2>1 DEF EndsReply, ElementsLeft
    <2>2. CASE u.k # "arr" /\ p < h
      BY <1>1, <1>2, <1>3, <1>7, <1>9, <1>11, <2>2 DEF EndsReply, ElementsLeft
    <2>3. CASE u.k # "arr" /\ p >= h
      BY <1>1, <1>2, <1>3, <1>7, <1>9, <1>11, <2>3 DEF EndsReply, ElementsLeft
    <2>4. QED
      BY <1>2, <1>3, <2>1, <2>2, <2>3
  <1>12. QED
    BY <1>6, <1>8, <1>10, <1>11 DEF u, p, h, m

\* A task that goes on reading stays aligned.
LEMMA ParseAligned ==
  ASSUME ClientInv, NEW t \in Tasks, Parse(t), Aligned(t),
         LET u == Head(rdbuf[lent[t]])
         IN  ~(FailsOp(t, u) \/ (EndsReply(t, u) /\ left[t] = 1))
  PROVE  Aligned(t)'
  <1> DEFINE u == Head(rdbuf[lent[t]])
             p == Len(got[t])
             h == RepliesOf(op[t])
  <1>1. /\ InStepSoFar(t)' /\ Len(got'[t]) = p + 1 /\ p + 1 <= sent[t]
        /\ p + 1 < h => open'[t] = 0 /\ left'[t] = h - (p + 1)
        /\ p + 1 >= h => /\ open'[t] = sent[t] - (p + 1) /\ open'[t] >= 1
                         /\ left'[t] = 1
    BY ParseInStep
  <1>2. pc[t] = "read" /\ rdbuf[lent[t]] # <<>> /\ UNCHANGED <<op, sent>>
    BY DEF Parse
  <1>3. /\ rdbuf' = [rdbuf EXCEPT ![lent[t]] = Tail(@)]
        /\ UNCHANGED <<poolVars, wire>>
    BY DEF Parse
  <1>4. rdbuf'[lent[t]] = Tail(rdbuf[lent[t]]) /\ UNCHANGED <<lent, wire>>
    BY <1>2, <1>3, LentConn DEF poolVars, ClientInv, Typed, TypeOK
  <1>5. /\ Stream(t)' \in Seq(Units)
        /\ Len(Stream(t)') = Len(Stream(t)) - 1
        /\ \A j \in 1..Len(Stream(t)') : Stream(t)'[j] = Stream(t)[j + 1]
    BY <1>2, <1>4, StreamTail
  <1>6. p \in Nat /\ Len(Stream(t)) \in Nat \ {0}
    BY <1>2, StreamHead, LenProperties DEF ClientInv, Typed, TypeOK
  <1>7. p + Len(Stream(t)) <= sent[t] /\ sent[t] \in Nat
    BY DEF Aligned, ClientInv, Typed, TypeOK
  <1>8. ASSUME NEW j \in 1..Len(Stream(t)')
        PROVE  InPlace(Stream(t)'[j], op[t].id, (p + 1) + j, h, sent[t])
    <2>1. j + 1 \in 1..Len(Stream(t)) /\ Stream(t)'[j] = Stream(t)[j + 1]
      BY <1>5, <1>6
    <2>2. InPlace(Stream(t)[j + 1], op[t].id, p + (j + 1), h, sent[t])
      BY <2>1 DEF Aligned
    <2>3. j \in Int /\ p \in Nat
      BY <1>6
    <2> HIDE DEF p
    <2>4. p + (j + 1) = (p + 1) + j
      BY <2>3
    <2>5. QED
      BY <2>1, <2>2, <2>4
  <1>9. RepliesOf(op'[t]) = h
    BY <1>2
  <1> HIDE DEF p, h
  <1>10. (p + 1) + Len(Stream(t)') <= sent[t]
    BY <1>5, <1>6, <1>7
  <1>11. QED
    BY <1>1, <1>2, <1>8, <1>9, <1>10 DEF Aligned

\* A task that parses a first unit of its own answer was in step before.
LEMMA ParseStarts ==
  ASSUME ClientInv, NEW t \in Tasks, Parse(t),
         got'[t] # <<>> /\ Head(got'[t]) = <<op[t].id, 1>>
  PROVE  StartsInStep(t)
  <1> DEFINE u == Head(rdbuf[lent[t]])
  <1>1. /\ pc[t] = "read" /\ rdbuf[lent[t]] # <<>>
        /\ got'[t] = Append(got[t], <<u.op, u.i>>)
    BY ParseCounts
  <1>2. Stream(t) # <<>> /\ Stream(t)[1] = u
    BY <1>1, StreamHead
  <1> HIDE DEF u
  <1>3. got[t] \in Seq((0..MaxOps) \X Nat)
    BY DEF ClientInv, Typed, TypeOK
  <1>4. Head(got'[t]) = IF got[t] = <<>> THEN <<u.op, u.i>> ELSE Head(got[t])
    BY <1>1, <1>3, HeadTailAppend
  <1>5. CASE got[t] = <<>>
    <2>1. <<u.op, u.i>> = <<op[t].id, 1>>
      BY <1>4, <1>5
    <2>2. u.op = op[t].id
      BY <2>1
    <2>3. QED
      BY <1>2, <1>5, <2>2 DEF StartsInStep
  <1>6. CASE got[t] # <<>>
    BY <1>4, <1>6 DEF StartsInStep
  <1>7. QED
    BY <1>5, <1>6

LEMMA StreamParse ==
  ASSUME StreamInv, NEW t \in Tasks, Parse(t)
  PROVE  StreamInv'
  <1> DEFINE c    == lent[t]
             u    == Head(rdbuf[c])
             last == EndsReply(t, u) /\ left[t] = 1
  <1>1. ClientInv /\ ClientInv' /\ Numbered
    BY ParseStep DEF StreamInv
  <1>2. /\ pc[t] = "read" /\ rdbuf[c] # <<>> /\ Tail(rdbuf[c]) \in Seq(Units)
        /\ \A v \in Tasks \ {t} :
             left'[v] = left[v] /\ open'[v] = open[v] /\ got'[v] = got[v]
        /\ UNCHANGED <<cmds, op, sent, issued>>
    BY <1>1, ParseCounts
  <1>3. got'[t] # <<>> /\ Head(got'[t]) = <<op[t].id, 1>> => Aligned(t)
    BY <1>1, <1>2, ParseStarts DEF StreamInv, Followed
  <1>4. Aligned(t) => /\ InStepSoFar(t)' /\ Len(got'[t]) = Len(got[t]) + 1
                      /\ last => Len(got[t]) + 1 = sent[t]
    BY <1>1, ParseInStep
  <1>5. CASE FailsOp(t, u) \/ last
    <2>1. PICK res \in {"reply_err", "ok"} :
            Finish(t, res, Tail(rdbuf[c])) /\ (res = "ok" => ~FailsOp(t, u))
      BY <1>5 DEF Parse
    <2>2. res \in Results
      BY DEF Results
    <2>3. /\ Drops(t) /\ result' = [result EXCEPT ![t] = res]
          /\ wire'[c] \in {wire[c], <<>>}
      BY <1>1, <1>2, <2>1, <2>2, FinishDrops
    <2>4. result'[t] = res /\ \A v \in Tasks \ {t} : result'[v] = result[v]
      BY <1>1, <2>3 DEF ClientInv, Typed, TypeOK
    <2>5. \A d \in Conns : WireOps(d)' \subseteq WireOps(d)
      BY <1>1, <2>3, FinishWireOps
    <2>6. (got'[t] # <<>> /\ Head(got'[t]) = <<op[t].id, 1>>) =>
            InStepSoFar(t)' /\ (result'[t] = "ok" => Len(got'[t]) = sent'[t])
      BY <1>2, <1>3, <1>4, <1>5, <2>1, <2>4
    <2>7. QED
      BY <1>1, <1>2, <2>3, <2>4, <2>5, <2>6, StreamDrop
  <1>6. CASE ~(FailsOp(t, u) \/ last)
    <2>1. /\ rdbuf' = [rdbuf EXCEPT ![c] = Tail(@)]
          /\ UNCHANGED <<poolVars, wire, broken, torn, pc, result>>
      BY <1>6 DEF Parse
    <2>2. Aligned(t) => Aligned(t)'
      BY <1>1, <1>6, ParseAligned
    <2>3. got'[t] # <<>>
      BY <1>1, ParseCounts
    <2>4. StartsInStep(t)' => Aligned(t)'
      BY <1>2, <1>3, <2>2, <2>3 DEF StartsInStep
    <2>5. \A d \in Conns \ {c} : rdbuf'[d] = rdbuf[d] /\ wire'[d] = wire[d]
      BY <1>1, <2>1 DEF ClientInv, Typed, TypeOK
    <2>6. \A v \in Tasks : v # t /\ pc[v] = "read" =>
            (StartsInStep(v)' <=> StartsInStep(v)) /\ (Aligned(v)' <=> Aligned(v))
      BY <1>1, <1>2, <2>1, <2>5, OthersFollow DEF poolVars
    <2>7. Followed'
      BY <2>1, <2>4, <2>6 DEF StreamInv, Followed
    <2>8. \A d \in Conns : WireOps(d)' \subseteq WireOps(d)
      BY <2>1, SameWireOps
    <2>9. Numbered'
      BY <1>1, <1>2, <2>1, <2>8, NumberedFrame
    <2>10. InStep'
      <3>1. result'[t] # "ok"
        BY <1>1, <1>2, <2>1 DEF Numbered
      <3>2. ASSUME NEW v \in Tasks, got'[v] # <<>>, Head(got'[v]) = <<op'[v].id, 1>>
            PROVE  InStepSoFar(v)' /\ (result'[v] = "ok" => Len(got'[v]) = sent'[v])
        <4>1. CASE v = t
          BY <1>2, <1>3, <1>4, <3>1, <3>2, <4>1
        <4>2. CASE v # t
          BY <1>2, <2>1, <3>2, <4>2 DEF StreamInv, InStep, InStepSoFar
        <4>3. QED
          BY <4>1, <4>2
      <3>3. QED
        BY <3>2 DEF InStep
    <2>11. QED
      BY <1>1, <2>7, <2>9, <2>10 DEF StreamInv
  <1>7. QED
    BY <1>5, <1>6

-----------------------------------------------------------------------------
(* Steps of the pool and of the other end                                    *)

LEMMA StreamPool ==
  ASSUME StreamInv,
         (\E c \in Conns : Settle(c) \/ Reap(c)) \/ CloseBegins \/ CloseEnds
  PROVE  /\ StreamInv'
         /\ UNCHANGED <<lent, taskVars>> /\ torn' \subseteq torn
         /\ \A d \in Conns : wire'[d] \in {wire[d], <<>>}
         /\ \A v \in Tasks : pc[v] = "read" => (Aligned(v)' <=> Aligned(v))
         /\ \A v \in Tasks : pc[v] = "read" => Stream(v)' = Stream(v)
  <1>1. ClientInv /\ ClientInv'
    BY PoolSteps DEF StreamInv
  <1>2. UNCHANGED <<lent, taskVars>>
    BY DEF Settle, Reap, CloseBegins, CloseEnds, Pool!Settle, Pool!DropReturning,
           Pool!Evict, Pool!SetClosed, Pool!ClearIdle
  <1>3. PICK C \in SUBSET (idle \cup returning) :
          CloseSockets(C) \/ UNCHANGED connVars
    <2>1. CASE CloseBegins \/ \E c \in Conns : Settle(c)
      BY <2>1 DEF CloseBegins, Settle
    <2>2. ASSUME NEW c \in Conns, Reap(c)
          PROVE  {c} \in SUBSET (idle \cup returning) /\ CloseSockets({c})
      BY <2>2 DEF Reap, Pool!DropReturning, Pool!Evict
    <2>3. CASE CloseEnds
      BY <2>3 DEF CloseEnds
    <2>4. QED
      BY <2>1, <2>2, <2>3
  <1>4. /\ \A d \in Conns : wire'[d] \in {wire[d], <<>>}
        /\ \A d \in Conns \ C : wire'[d] = wire[d] /\ rdbuf'[d] = rdbuf[d]
        /\ torn' \subseteq torn
    BY <1>3 DEF CloseSockets, connVars
  <1>5. ASSUME NEW v \in Tasks, pc[v] = "read"
        PROVE  /\ (StartsInStep(v)' <=> StartsInStep(v)) /\ (Aligned(v)' <=> Aligned(v))
               /\ Stream(v)' = Stream(v)
    <2>1. lent[v] \in Conns \ C
      BY <1>1, <1>5, LentConn DEF ClientInv, Owners
    <2>2. wire'[lent[v]] = wire[lent[v]] /\ rdbuf'[lent[v]] = rdbuf[lent[v]]
      BY <1>4, <2>1
    <2>3. (StartsInStep(v)' <=> StartsInStep(v)) /\ (Aligned(v)' <=> Aligned(v))
      BY <1>2, <2>2, TaskFrame DEF taskVars
    <2>4. Stream(v)' = Stream(v)
      BY <1>2, <2>2 DEF Stream
    <2>5. QED
      BY <2>3, <2>4
  <1>6. Followed'
    BY <1>2, <1>5 DEF StreamInv, Followed, taskVars
  <1>7. \A d \in Conns : WireOps(d)' \subseteq WireOps(d)
    BY <1>4, SameWireOps
  <1>8. Numbered'
    BY <1>2, <1>7 DEF StreamInv, Numbered, taskVars
  <1>9. InStep'
    BY <1>2 DEF StreamInv, InStep, InStepSoFar, taskVars
  <1>10. QED
    BY <1>1, <1>2, <1>4, <1>5, <1>6, <1>8, <1>9 DEF StreamInv

\* What the other end leaves of a stream when it closes the connection.
LEMMA StreamCut ==
  ASSUME ClientInv, NEW c \in Conns, Break(c),
         NEW t \in Tasks, pc[t] \in {"write", "read"}
  PROVE  /\ Stream(t)' \in Seq(Units)
         /\ Len(Stream(t)') <= Len(Stream(t))
         /\ \A j \in 1..Len(Stream(t)') : Remains(Stream(t)[j], Stream(t)'[j])
  <1> DEFINE r == rdbuf[lent[t]]
             w == wire[lent[t]]
             q == wire'[lent[t]]
  <1>1. lent[t] \in Conns /\ r \in Seq(Units) /\ w \in Seq(Units)
        /\ Len(r) \in Nat /\ Len(w) \in Nat
    BY LentConn, LenProperties
  <1>2. /\ Len(Stream(t)) = Len(r) + Len(w)
        /\ \A j \in 1..Len(Stream(t)) :
             Stream(t)[j] = IF j <= Len(r) THEN r[j] ELSE w[j - Len(r)]
    BY StreamProperties
  <1>3. UNCHANGED <<lent, rdbuf>>
    BY DEF Break, poolVars
  <1>4. /\ q \in Seq(Units) /\ Len(q) <= Len(w) /\ Len(q) \in Nat
        /\ \A j \in 1..Len(q) : Remains(w[j], q[j])
    <2>1. PICK rest \in CutOff(wire[c]) : wire' = [wire EXCEPT ![c] = rest]
      BY DEF Break
    <2>2. CASE lent[t] = c
      <3>1. q = rest /\ w = wire[c]
        BY <2>1, <2>2 DEF ClientInv, Typed, TypeOK
      <3>2. /\ rest \in Seq(Units) /\ Len(rest) <= Len(wire[c])
            /\ \A j \in 1..Len(rest) : Remains(wire[c][j], rest[j])
        BY <1>1, <2>2, CutOffUnits
      <3>3. Len(rest) \in Nat
        BY <3>2, LenProperties
      <3>4. QED
        BY <3>1, <3>2, <3>3
    <2>3. CASE lent[t] # c
      <3>1. q = w
        BY <1>1, <2>1, <2>3 DEF ClientInv, Typed, TypeOK
      <3>2. QED
        BY <1>1, <3>1 DEF Remains
    <2>4. QED
      BY <2>2, <2>3
  <1>5. Stream(t)' = r \o q
    BY <1>3 DEF Stream
  <1> HIDE DEF r, w, q
  <1>6. /\ r \o q \in Seq(Units) /\ Len(r \o q) = Len(r) + Len(q)
        /\ \A j \in 1..(Len(r) + Len(q)) :
             (r \o q)[j] = IF j <= Len(r) THEN r[j] ELSE q[j - Len(r)]
    BY <1>1, <1>4, ConcatProperties
  <1>7. ASSUME NEW j \in 1..Len(r \o q)
        PROVE  Remains(Stream(t)[j], (r \o q)[j])
    <2>1. j \in Nat \ {0} /\ j \in 1..Len(Stream(t))
      BY <1>1, <1>2, <1>4, <1>6
    <2>2. CASE j <= Len(r)
      BY <1>1, <1>2, <1>4, <1>6, <2>1, <2>2 DEF Remains
    <2>3. CASE j > Len(r)
      <3>1. j - Len(r) \in 1..Len(q) /\ ~(j <= Len(r))
        BY <1>1, <1>4, <1>6, <2>1, <2>3
      <3>2. Stream(t)[j] = w[j - Len(r)] /\ (r \o q)[j] = q[j - Len(r)]
        BY <1>2, <1>6, <2>1, <3>1
      <3>3. QED
        BY <1>4, <3>1, <3>2
    <2>4. QED
      BY <1>1, <2>1, <2>2, <2>3
  <1>8. QED
    BY <1>1, <1>2, <1>4, <1>5, <1>6, <1>7

\* A task that was aligned is so with what remains.
LEMMA CutAligned ==
  ASSUME ClientInv, NEW c \in Conns, Break(c), NEW t \in Tasks, pc[t] = "read"
  PROVE  (StartsInStep(t)' => StartsInStep(t)) /\ (Aligned(t) => Aligned(t)')
  <1>1. /\ Stream(t)' \in Seq(Units)
        /\ Len(Stream(t)') <= Len(Stream(t))
        /\ \A j \in 1..Len(Stream(t)') : Remains(Stream(t)[j], Stream(t)'[j])
    BY StreamCut
  <1>2. UNCHANGED <<got, op, sent, open, left>>
    BY DEF Break, taskVars
  <1>3. Len(Stream(t)') \in Nat /\ Len(Stream(t)) \in Nat /\ Stream(t) \in Seq(Units)
    BY <1>1, StreamProperties, LenProperties
  <1>4. ASSUME StartsInStep(t)'
        PROVE  StartsInStep(t)
    <2>1. CASE got[t] # <<>>
      BY <1>2, <1>4, <2>1 DEF StartsInStep
    <2>2. CASE got[t] = <<>>
      <3>1. Stream(t)' # <<>> /\ Stream(t)'[1].op = op[t].id
        BY <1>2, <1>4, <2>2 DEF StartsInStep
      <3>2. Len(Stream(t)') \in Nat \ {0}
        BY <1>1, <3>1, EmptySeq
      <3>3. 1 \in 1..Len(Stream(t)') /\ Len(Stream(t)) # 0
        BY <1>1, <1>3, <3>2
      <3>4. Stream(t)[1].op = Stream(t)'[1].op
        BY <1>1, <3>3 DEF Remains
      <3>5. Stream(t) # <<>>
        BY <3>3
      <3>6. QED
        BY <2>2, <3>1, <3>4, <3>5 DEF StartsInStep
    <2>3. QED
      BY <2>1, <2>2
  <1>5. ASSUME Aligned(t)
        PROVE  Aligned(t)'
    <2> DEFINE p == Len(got[t])
               h == RepliesOf(op[t])
    <2>1. p \in Nat /\ sent[t] \in Nat
      BY LenProperties DEF ClientInv, Typed, TypeOK
    <2>2. p + Len(Stream(t)') <= sent[t]
      <3>1. p + Len(Stream(t)) <= sent[t]
        BY <1>5 DEF Aligned
      <3> HIDE DEF p
      <3>2. QED
        BY <1>1, <1>3, <2>1, <3>1
    <2>3. ASSUME NEW j \in 1..Len(Stream(t)')
          PROVE  InPlace(Stream(t)'[j], op[t].id, p + j, h, sent[t])
      <3>1. j \in 1..Len(Stream(t)) /\ Remains(Stream(t)[j], Stream(t)'[j])
        BY <1>1, <1>3
      <3>2. InPlace(Stream(t)[j], op[t].id, p + j, h, sent[t])
        BY <1>5, <3>1 DEF Aligned
      <3> HIDE DEF p, h
      <3>3. QED
        BY <3>1, <3>2 DEF InPlace, Remains
    <2>4. InStepSoFar(t)' <=> InStepSoFar(t)
      BY <1>2 DEF InStepSoFar
    <2>5. QED
      BY <1>2, <1>5, <2>2, <2>3, <2>4 DEF Aligned, RepliesOf
  <1>6. QED
    BY <1>4, <1>5

LEMMA StreamBreak ==
  ASSUME StreamInv, NEW c \in Conns, Break(c)
  PROVE  StreamInv'
  <1>1. ClientInv /\ ClientInv'
    BY BreakStep DEF StreamInv
  <1>2. UNCHANGED <<poolVars, rdbuf, torn, taskVars>>
    BY DEF Break
  <1>3. Followed'
    BY <1>1, <1>2, CutAligned DEF StreamInv, Followed, taskVars
  <1>4. ASSUME NEW d \in Conns
        PROVE  WireOps(d)' \subseteq WireOps(d)
    <2>1. PICK rest \in CutOff(wire[c]) : wire' = [wire EXCEPT ![c] = rest]
      BY DEF Break
    <2>2. wire \in [Conns -> Seq(Units)]
      BY <1>1 DEF ClientInv, Typed, TypeOK
    <2>3. CASE d = c
      <3>1. /\ rest \in Seq(Units) /\ Len(rest) <= Len(wire[c])
            /\ \A j \in 1..Len(rest) : Remains(wire[c][j], rest[j])
        BY <2>2, CutOffUnits
      <3>2. Len(rest) \in Nat /\ Len(wire[c]) \in Nat
        BY <2>2, <3>1, LenProperties
      <3>3. wire'[d] = rest
        BY <2>1, <2>2, <2>3
      <3>4. ASSUME NEW j \in 1..Len(rest)
            PROVE  rest[j].op \in WireOps(c)
        <4>1. j \in 1..Len(wire[c]) /\ rest[j].op = wire[c][j].op
          BY <3>1, <3>2 DEF Remains
        <4>2. QED
          BY <4>1 DEF WireOps
      <3>5. QED
        BY <2>3, <3>3, <3>4 DEF WireOps
    <2>4. CASE d # c
      <3>1. wire'[d] = wire[d]
        BY <2>1, <2>2, <2>4
      <3>2. QED
        BY <3>1, SameWireOps
    <2>5. QED
      BY <2>3, <2>4
  <1>5. Numbered'
    BY <1>2, <1>4 DEF StreamInv, Numbered, taskVars
  <1>6. InStep'
    BY <1>2 DEF StreamInv, InStep, InStepSoFar, taskVars
  <1>7. QED
    BY <1>1, <1>3, <1>5, <1>6 DEF StreamInv

-----------------------------------------------------------------------------
(* In step                                                                   *)

LEMMA StreamNext == StreamInv /\ [Next]_vars => StreamInv'
  <1> SUFFICES ASSUME StreamInv, [Next]_vars PROVE StreamInv'
    OBVIOUS
  <1>1. ASSUME NEW t \in Tasks, Queue(t) \/ Clear(t)
        PROVE  StreamInv'
    BY <1>1, StreamQueue
  <1>2. ASSUME NEW t \in Tasks, NEW kind \in Ops, Start(t, kind)
        PROVE  StreamInv'
    BY <1>2, StreamStart
  <1>3. ASSUME NEW t \in Tasks, (\E c \in Conns : Acquire(t, c)) \/ AcquireErr(t)
        PROVE  StreamInv'
    BY <1>3, StreamAcquire
  <1>4. ASSUME NEW t \in Tasks, Write(t)
        PROVE  StreamInv'
    BY <1>4, StreamWrite
  <1>5. ASSUME NEW t \in Tasks, AbandonWrite(t)
        PROVE  StreamInv'
    BY <1>5, StreamAbandonWrite
  <1>6. ASSUME NEW t \in Tasks, WriteErr(t) \/ ReadEof(t) \/ AbandonRead(t)
        PROVE  StreamInv'
    BY <1>6, StreamGiveUp
  <1>7. ASSUME NEW t \in Tasks, Fill(t)
        PROVE  StreamInv'
    BY <1>7, StreamFill
  <1>8. ASSUME NEW t \in Tasks, Parse(t)
        PROVE  StreamInv'
    BY <1>8, StreamParse
  <1>9. CASE (\E c \in Conns : Settle(c) \/ Reap(c)) \/ CloseBegins \/ CloseEnds
    BY <1>9, StreamPool
  <1>10. ASSUME NEW c \in Conns, Break(c)
         PROVE  StreamInv'
    BY <1>10, StreamBreak
  <1>11. CASE UNCHANGED vars
    <2>1. ClientInv'
      BY <1>11, ClientNext DEF StreamInv
    <2>2. \A v \in Tasks :
            (StartsInStep(v)' <=> StartsInStep(v)) /\ (Aligned(v)' <=> Aligned(v))
      BY <1>11, TaskFrame DEF vars, poolVars, connVars, taskVars
    <2>3. Followed' /\ InStep'
      BY <1>11, <2>2 DEF StreamInv, Followed, InStep, InStepSoFar, vars, taskVars
    <2>4. Numbered'
      BY <1>11 DEF StreamInv, Numbered, WireOps, vars, connVars, taskVars
    <2>5. QED
      BY <2>1, <2>3, <2>4 DEF StreamInv
  <1>12. QED
    BY <1>1, <1>2, <1>3, <1>4, <1>5, <1>6, <1>7, <1>8, <1>9, <1>10, <1>11
       DEF Next, ReadStep

\* Every reachable state, with timeouts, dropped futures, aborted pipelines,
\* failed transactions and connections that break.
THEOREM StreamInvariant == Spec => []StreamInv
  <1>1. Init => StreamInv
    BY StreamInit
  <1>2. StreamInv /\ [Next]_vars => StreamInv'
    BY StreamNext
  <1>3. QED
    BY <1>1, <1>2, PTL DEF Spec

\* Client::process_cmd, Pipeline::execute and Multi::exec: an operation whose
\* first unit is the first of its own answer reads its own answer only, and if
\* it succeeds it has read that answer to the last unit.
THEOREM StaysInStep == Spec => []InStep
  <1>1. StreamInv => InStep
    BY DEF StreamInv
  <1>2. QED
    BY <1>1, StreamInvariant, PTL

-----------------------------------------------------------------------------
(* Single commands that nobody abandons                                      *)

\* An error on its way to t is all that the server answers it.
Plain(t) == \A j \in 1..Len(Stream(t)) : Stream(t)[j].k = "err" => sent[t] = 1

Quiet ==
  /\ StreamInv
  /\ torn = {}
  /\ \A c \in Conns :
       wire[c] # <<>> => \E t \in Tasks : pc[t] = "read" /\ lent[t] = c
  /\ \A t \in Tasks : pc[t] # "rest" => op[t].kind = "cmd"
  /\ \A t \in Tasks : pc[t] = "read" => Aligned(t) /\ Plain(t)
  /\ OwnReplies

\* The errors among the answers to a command.
LEMMA CmdErrors ==
  ASSUME NEW a \in CmdAnswers, NEW j \in 1..Len(a), a[j].k = "err"
  PROVE  Len(a) = 1
  <1>1. \/ a \in Scalars({"val", "nil", "err"}, 1)
        \/ \E n \in 0..MaxBatch : a \in ArraysOf({"val", "nil"}, n)
    BY DEF CmdAnswers
  <1>2. CASE a \in Scalars({"val", "nil", "err"}, 1)
    <2>1. {"val", "nil", "err"} \in SUBSET (Kinds \ {"arr"}) /\ 1 \in Nat
      BY DEF Kinds
    <2>2. Flat(a, 1)
      BY <1>2, <2>1, ScalarsFlat
    <2>3. QED
      BY <2>2 DEF Flat
  <1>3. ASSUME NEW n \in 0..MaxBatch, a \in ArraysOf({"val", "nil"}, n)
        PROVE  FALSE
    <2> DEFINE h == <<[k |-> "arr", n |-> n]>>
    <2>1. PICK e \in Scalars({"val", "nil"}, n) : a = h \o e
      BY <1>3 DEF ArraysOf
    <2>2. {"val", "nil"} \in SUBSET Kinds /\ n \in Nat
      BY BoundsAssumption DEF Kinds
    <2>3. /\ e \in Seq(Shapes) /\ Len(e) = n
          /\ \A i \in 1..n : e[i].k \in {"val", "nil"}
      BY <2>2, ScalarsShape
    <2>4. h \in Seq(Shapes) /\ Len(h) = 1 /\ h[1] = [k |-> "arr", n |-> n]
      BY DEF Shapes, Kinds
    <2> HIDE DEF h
    <2>5. /\ Len(a) = 1 + n
          /\ \A i \in 1..(1 + n) : a[i] = IF i <= 1 THEN h[i] ELSE e[i - 1]
      <3>1. e \in Seq(Shapes) /\ Len(e) = n /\ h \in Seq(Shapes) /\ Len(h) = 1
        BY <2>3, <2>4
      <3>2. /\ Len(h \o e) = Len(h) + Len(e)
            /\ \A i \in 1..(Len(h) + Len(e)) :
                 (h \o e)[i] = IF i <= Len(h) THEN h[i] ELSE e[i - Len(h)]
        BY <3>1, ConcatProperties
      <3>3. QED
        BY <2>1, <3>1, <3>2
    <2>6. CASE j = 1
      <3>1. a[j] = [k |-> "arr", n |-> n]
        BY <2>2, <2>4, <2>5, <2>6
      <3>2. QED
        BY <1>3, <3>1
    <2>7. CASE j # 1
      <3>1. j - 1 \in 1..n /\ a[j] = e[j - 1]
        BY <2>2, <2>5, <2>7
      <3>2. QED
        BY <2>3, <3>1
    <2>8. QED
      BY <2>6, <2>7
  <1>4. QED
    BY <1>1, <1>2, <1>3

LEMMA QuietInit == Init => Quiet
  <1> SUFFICES ASSUME Init PROVE Quiet
    OBVIOUS
  <1>1. StreamInv
    BY StreamInit
  <1>2. OwnReplies
    BY DEF Init, OwnReplies, InStepSoFar
  <1>3. QED
    BY <1>1, <1>2 DEF Init, Quiet

\* A step that leaves connections and readers alone.
LEMMA QuietFrame ==
  ASSUME Quiet, StreamInv', UNCHANGED connVars,
         \A v \in Tasks : pc'[v] = "read" <=> pc[v] = "read",
         \A v \in Tasks : pc[v] = "read" =>
           /\ lent'[v] = lent[v] /\ got'[v] = got[v] /\ op'[v] = op[v]
           /\ sent'[v] = sent[v] /\ open'[v] = open[v] /\ left'[v] = left[v],
         \A v \in Tasks : InStepSoFar(v)',
         \A v \in Tasks : pc'[v] # "rest" => op'[v].kind = "cmd"
  PROVE  Quiet'
  <1>1. \A v \in Tasks : pc[v] = "read" =>
          Stream(v)' = Stream(v) /\ (Aligned(v)' <=> Aligned(v))
    BY TaskFrame DEF connVars
  <1>2. \A v \in Tasks : pc[v] = "read" => Aligned(v)' /\ Plain(v)'
    BY <1>1 DEF Quiet, Plain
  <1>3. OwnReplies'
    BY DEF OwnReplies
  <1>4. \A c \in Conns :
          wire'[c] # <<>> => \E t \in Tasks : pc'[t] = "read" /\ lent'[t] = c
    BY DEF Quiet, connVars
  <1>5. QED
    BY <1>2, <1>3, <1>4 DEF Quiet, connVars

LEMMA QuietOutside ==
  ASSUME Ops \subseteq {"cmd"}, Quiet, NEW t \in Tasks,
         \/ Queue(t) \/ Clear(t) \/ AcquireErr(t)
         \/ \E kind \in Ops : Start(t, kind)
         \/ \E c \in Conns : Acquire(t, c)
  PROVE  Quiet'
  <1>1. StreamInv /\ StreamInv' /\ ClientInv
    BY StreamQueue, StreamStart, StreamAcquire DEF Quiet, StreamInv
  <1>2. UNCHANGED connVars /\ pc[t] # "read" /\ pc'[t] # "read"
    BY <1>1 DEF Queue, Clear, AcquireErr, Start, Acquire, ClientInv, Typed, TypeOK
  <1>3. \A v \in Tasks : v # t =>
          /\ pc'[v] = pc[v] /\ got'[v] = got[v] /\ op'[v] = op[v]
          /\ sent'[v] = sent[v] /\ open'[v] = open[v] /\ left'[v] = left[v]
    BY <1>1 DEF Queue, Clear, AcquireErr, Start, Acquire, ClientInv, Typed, TypeOK
  <1>4. \A v \in Tasks : v # t => lent'[v] = lent[v]
    BY <1>1 DEF Queue, Clear, AcquireErr, Start, Acquire, Pool!Reuse, Pool!Connect,
                Pool!Lend, poolVars, ClientInv, Typed, TypeOK
  <1>5. InStepSoFar(t)' /\ (pc'[t] # "rest" => op'[t].kind = "cmd")
    <2>1. ASSUME NEW kind \in Ops, Start(t, kind)
          PROVE  got'[t] = <<>> /\ op'[t].kind = "cmd"
      <3>1. got'[t] = <<>> /\ op'[t].kind = kind
        BY <1>1, <2>1 DEF Start, ClientInv, Typed, TypeOK
      <3>2. QED
        BY <3>1
    <2>2. CASE Queue(t) \/ Clear(t) \/ AcquireErr(t) \/ \E c \in Conns : Acquire(t, c)
      <3>1. UNCHANGED <<got, op>> /\ (pc'[t] # "rest" => pc[t] # "rest")
        BY <2>2 DEF Queue, Clear, AcquireErr, Acquire, ClientInv
      <3>2. QED
        BY <3>1 DEF Quiet, OwnReplies, InStepSoFar
    <2>3. QED
      BY <2>1, <2>2 DEF InStepSoFar
  <1>6. \A v \in Tasks : InStepSoFar(v)' /\ (pc'[v] # "rest" => op'[v].kind = "cmd")
    BY <1>3, <1>5 DEF Quiet, OwnReplies, InStepSoFar
  <1>7. QED
    BY <1>1, <1>2, <1>3, <1>4, <1>6, QuietFrame

\* A connection that nobody reads from has nothing on the wire.
LEMMA QuietWriter ==
  ASSUME Quiet, NEW t \in Tasks, pc[t] = "write"
  PROVE  wire[lent[t]] = <<>>
  <1>1. lent[t] \in Conns /\ lent[t] # NoConn
    BY LentConn DEF Quiet, StreamInv
  <1>2. \A u \in Tasks : lent[u] = lent[t] => u = t
    BY <1>1 DEF Quiet, StreamInv, ClientInv, Owners
  <1>3. QED
    BY <1>1, <1>2 DEF Quiet

LEMMA QuietWrite ==
  ASSUME Quiet, NEW t \in Tasks, Write(t)
  PROVE  Quiet'
  <1> DEFINE c == lent[t]
  <1>1. /\ pc[t] = "write" /\ pc' = [pc EXCEPT ![t] = "read"]
        /\ left' = [left EXCEPT ![t] = RepliesOf(op[t])]
        /\ UNCHANGED <<poolVars, rdbuf, torn, cmds, op, open, got, result, issued>>
    BY DEF Write
  <1>2. StreamInv /\ StreamInv' /\ ClientInv /\ Numbered
    BY StreamWrite DEF Quiet, StreamInv
  <1>3. /\ c \in Conns /\ wire[c] = <<>> /\ rdbuf[c] = <<>> /\ Busy(op[t])
        /\ op[t].id \in 0..MaxOps /\ wire \in [Conns -> Seq(Units)]
        /\ sent \in [Tasks -> Nat]
    BY <1>1, <1>2, LentConn, QuietWriter, WritesEmpty
       DEF LentEmpty, ClientInv, Typed, TypeOK
  <1>4. PICK w \in Seq(Units) :
           /\ wire' = [wire EXCEPT ![c] = @ \o w]
           /\ \/ sent' = sent /\ w = <<>>
              \/ \E a \in Answers(op[t]) : /\ w = Tagged(op[t].id, a)
                                           /\ sent' = [sent EXCEPT ![t] = Len(a)]
    BY <1>2, WriteSends DEF Quiet
  <1>5. /\ wire'[c] = w /\ \A d \in Conns \ {c} : wire'[d] = wire[d]
    <2>1. wire'[c] = <<>> \o w /\ \A d \in Conns \ {c} : wire'[d] = wire[d]
      BY <1>3, <1>4
    <2>2. QED
      BY <2>1, ConcatEmptySeq
  <1>6. \A v \in Tasks : /\ pc'[v] = IF v = t THEN "read" ELSE pc[v]
                         /\ left'[v] = IF v = t THEN RepliesOf(op[t]) ELSE left[v]
                         /\ v # t => sent'[v] = sent[v]
    BY <1>1, <1>2, <1>3, <1>4 DEF ClientInv, Typed, TypeOK
  <1>7. Stream(t)' = w
    <2>1. Stream(t)' = <<>> \o w
      BY <1>1, <1>3, <1>5 DEF Stream, poolVars
    <2>2. QED
      BY <2>1, ConcatEmptySeq
  <1>8. op[t].kind = "cmd" /\ RepliesOf(op[t]) = 1 /\ got'[t] = <<>> /\ open'[t] = 0
    BY <1>1, <1>2, <1>3 DEF Quiet, RepliesOf, Busy, Numbered
  <1>9. Aligned(t)' /\ Plain(t)'
    <2>1. CASE sent' = sent /\ w = <<>>
      <3>1. Stream(t)' = <<>> /\ sent'[t] \in Nat
        BY <1>3, <1>7, <2>1
      <3>2. InStepSoFar(t)'
        BY <1>8 DEF InStepSoFar
      <3>3. RepliesOf(op'[t]) = 1 /\ left'[t] = 1
        BY <1>1, <1>6, <1>8
      <3>4. QED
        BY <1>8, <3>1, <3>2, <3>3 DEF Aligned, Plain
    <2>2. ASSUME NEW a \in Answers(op[t]), w = Tagged(op[t].id, a),
                 sent' = [sent EXCEPT ![t] = Len(a)]
          PROVE  Aligned(t)' /\ Plain(t)'
      <3>1. sent'[t] = Len(a) /\ left'[t] = RepliesOf(op[t])
        BY <1>3, <1>6, <2>2
      <3>2. Aligned(t)'
        BY <1>1, <1>2, <1>7, <2>2, <3>1, AnswerAligned
      <3>3. a \in CmdAnswers
        BY <1>8 DEF Answers
      <3>4. a \in Seq(Shapes)
        BY <1>3, AnswersFit DEF Fits
      <3>5. /\ Len(w) = Len(a)
            /\ \A j \in 1..Len(a) :
                 w[j] = [op |-> op[t].id, i |-> j, k |-> a[j].k, n |-> a[j].n]
        BY <1>3, <2>2, <3>4, TaggedUnits
      <3>6. ASSUME NEW j \in 1..Len(w), w[j].k = "err"
            PROVE  sent'[t] = 1
        <4>1. j \in 1..Len(a)
              /\ w[j] = [op |-> op[t].id, i |-> j, k |-> a[j].k, n |-> a[j].n]
          BY <3>5
        <4>2. a[j].k = "err"
          BY <3>6, <4>1
        <4>3. QED
          BY <3>1, <3>3, <4>1, <4>2, CmdErrors
      <3>7. Plain(t)'
        BY <1>7, <3>6 DEF Plain
      <3>8. QED
        BY <3>2, <3>7
    <2>3. QED
      BY <1>4, <2>1, <2>2
  <1>10. \A v \in Tasks : v # t /\ pc[v] = "read" =>
           Stream(v)' = Stream(v) /\ (Aligned(v)' <=> Aligned(v))
    BY <1>1, <1>2, <1>5, <1>6, OthersFollow DEF poolVars
  <1>11. \A v \in Tasks : pc'[v] = "read" => Aligned(v)' /\ Plain(v)'
    BY <1>6, <1>9, <1>10 DEF Quiet, Plain
  <1>12. OwnReplies'
    BY <1>1 DEF Quiet, OwnReplies, InStepSoFar
  <1>13. ASSUME NEW d \in Conns, wire'[d] # <<>>
         PROVE  \E v \in Tasks : pc'[v] = "read" /\ lent'[v] = d
    <2>1. CASE d = c
      BY <1>1, <1>6, <2>1 DEF poolVars
    <2>2. CASE d # c
      <3>1. PICK v \in Tasks : pc[v] = "read" /\ lent[v] = d
        BY <1>5, <1>13, <2>2 DEF Quiet
      <3>2. QED
        BY <1>1, <1>6, <3>1 DEF poolVars
    <2>3. QED
      BY <2>1, <2>2
  <1>14. \A v \in Tasks : pc'[v] # "rest" => op'[v].kind = "cmd"
    BY <1>1, <1>6, <1>8 DEF Quiet
  <1>15. QED
    BY <1>1, <1>2, <1>11, <1>12, <1>13, <1>14 DEF Quiet

\* The connection that a task gives back has nothing on the wire.
LEMMA QuietDrop ==
  ASSUME Quiet, StreamInv', NEW t \in Tasks, pc[t] \in {"write", "read"}, Drops(t),
         wire'[lent[t]] = <<>>, torn' \subseteq torn, UNCHANGED op, InStepSoFar(t)',
         \A v \in Tasks \ {t} : /\ left'[v] = left[v] /\ open'[v] = open[v]
                                /\ got'[v] = got[v] /\ sent'[v] = sent[v]
  PROVE  Quiet'
  <1>1. \A v \in Tasks : /\ pc'[v] = IF v = t THEN "rest" ELSE pc[v]
                         /\ v # t => lent'[v] = lent[v]
    BY DEF Quiet, StreamInv, Drops, ClientInv, Typed, TypeOK
  <1>2. \A d \in Conns \ {lent[t]} : rdbuf'[d] = rdbuf[d] /\ wire'[d] = wire[d]
    BY DEF Drops
  <1>3. \A v \in Tasks : v # t /\ pc[v] = "read" =>
          Stream(v)' = Stream(v) /\ (Aligned(v)' <=> Aligned(v))
    BY <1>1, <1>2, OthersFollow DEF Quiet, StreamInv
  <1>4. \A v \in Tasks : pc'[v] = "read" => Aligned(v)' /\ Plain(v)'
    BY <1>1, <1>3 DEF Quiet, Plain
  <1>5. OwnReplies'
    BY DEF Quiet, OwnReplies, InStepSoFar
  <1>6. ASSUME NEW d \in Conns, wire'[d] # <<>>
        PROVE  \E v \in Tasks : pc'[v] = "read" /\ lent'[v] = d
    <2>1. d # lent[t] /\ wire[d] # <<>>
      BY <1>2, <1>6
    <2>2. PICK v \in Tasks : pc[v] = "read" /\ lent[v] = d
      BY <2>1 DEF Quiet
    <2>3. QED
      BY <1>1, <2>1, <2>2
  <1>7. QED
    BY <1>1, <1>4, <1>5, <1>6 DEF Quiet

LEMMA QuietGiveUp ==
  ASSUME ~MayAbandon, Quiet, NEW t \in Tasks, WriteErr(t) \/ ReadEof(t) \/ AbandonRead(t)
  PROVE  Quiet'
  <1>1. ~AbandonRead(t)
    BY DEF AbandonRead
  <1>2. /\ Finish(t, "io", rdbuf[lent[t]]) /\ pc[t] \in {"write", "read"}
        /\ UNCHANGED <<cmds, op, left, open, got, sent, issued>>
    BY <1>1 DEF WriteErr, ReadEof
  <1>3. StreamInv' /\ ClientInv /\ "io" \in Results /\ rdbuf[lent[t]] \in Seq(Units)
    BY <1>2, StreamGiveUp, LentConn DEF Quiet, StreamInv, Results
  <1>4. Drops(t) /\ wire'[lent[t]] \in {wire[lent[t]], <<>>} /\ torn' \subseteq torn
    BY <1>2, <1>3, FinishDrops
  <1>5. wire[lent[t]] = <<>>
    BY <1>1, QuietWriter DEF WriteErr, ReadEof
  <1>6. InStepSoFar(t)'
    BY <1>2 DEF Quiet, OwnReplies, InStepSoFar
  <1>7. QED
    BY <1>2, <1>3, <1>4, <1>5, <1>6, QuietDrop

LEMMA QuietFill ==
  ASSUME Quiet, NEW t \in Tasks, Fill(t)
  PROVE  Quiet'
  <1> DEFINE c == lent[t]
  <1>1. /\ pc[t] = "read" /\ rdbuf[c] = <<>>
        /\ UNCHANGED <<poolVars, broken, torn, taskVars>>
    BY DEF Fill
  <1>2. StreamInv' /\ ClientInv
    BY StreamFill DEF Quiet, StreamInv
  <1>3. \A d \in Conns \ {c} : rdbuf'[d] = rdbuf[d] /\ wire'[d] = wire[d]
    BY <1>2 DEF Fill, ClientInv, Typed, TypeOK
  <1>4. Stream(t)' = Stream(t)
    BY <1>2, FillStream
  <1>5. Aligned(t)' /\ Plain(t)'
    <2>1. InStepSoFar(t)' <=> InStepSoFar(t)
      BY <1>1 DEF InStepSoFar, taskVars
    <2>2. Aligned(t)' <=> Aligned(t)
      BY <1>1, <1>4, <2>1 DEF Aligned, RepliesOf, taskVars
    <2>3. Plain(t)' <=> Plain(t)
      BY <1>1, <1>4 DEF Plain, taskVars
    <2>4. QED
      BY <1>1, <2>2, <2>3 DEF Quiet
  <1>6. \A v \in Tasks : v # t /\ pc[v] = "read" =>
          Stream(v)' = Stream(v) /\ (Aligned(v)' <=> Aligned(v))
    BY <1>1, <1>2, <1>3, OthersFollow DEF poolVars, taskVars
  <1>7. \A v \in Tasks : pc'[v] = "read" => Aligned(v)' /\ Plain(v)'
    BY <1>1, <1>5, <1>6 DEF Quiet, Plain, taskVars
  <1>8. OwnReplies'
    BY <1>1 DEF Quiet, OwnReplies, InStepSoFar, taskVars
  <1>9. \A d \in Conns :
          wire'[d] # <<>> => \E v \in Tasks : pc'[v] = "read" /\ lent'[v] = d
    BY <1>1, <1>3 DEF Quiet, poolVars, taskVars
  <1>10. QED
    BY <1>1, <1>2, <1>7, <1>8, <1>9 DEF Quiet, taskVars

\* A command ends with the last unit of its answer, in success and in failure.
LEMMA CmdEndsWhole ==
  ASSUME Quiet, NEW t \in Tasks, Parse(t),
         LET u == Head(rdbuf[lent[t]])
         IN  FailsOp(t, u) \/ (EndsReply(t, u) /\ left[t] = 1)
  PROVE  wire[lent[t]] = <<>>
  <1> DEFINE u == Head(rdbuf[lent[t]])
             p == Len(got[t])
             r == rdbuf[lent[t]]
             w == wire[lent[t]]
  <1>1. ClientInv /\ pc[t] = "read" /\ rdbuf[lent[t]] # <<>> /\ Aligned(t) /\ Plain(t)
        /\ op[t].kind = "cmd"
    BY DEF Parse, Quiet, StreamInv
  <1>2. RepliesOf(op[t]) = 1
    BY <1>1, LentConn DEF RepliesOf, Busy
  <1>3. /\ p + 1 <= sent[t] /\ InPlace(u, op[t].id, p + 1, 1, sent[t])
        /\ EndsReply(t, u) /\ left[t] = 1 => p + 1 = sent[t]
    BY <1>1, <1>2, ParseInStep
  <1>4. Len(Stream(t)) \in Nat \ {0} /\ Stream(t)[1] = u
    BY <1>1, StreamHead
  <1>5. u.k = "err" => sent[t] = 1
    BY <1>1, <1>4 DEF Plain
  <1>6. p \in Nat /\ sent[t] \in Nat
    BY <1>1, LenProperties DEF ClientInv, Typed, TypeOK
  <1>7. p < 1 => open[t] = 0
    BY <1>1, <1>2 DEF Aligned
  <1>8. p >= 1 => open[t] >= 1
    BY <1>1, <1>2 DEF Aligned
  <1>9. p + Len(Stream(t)) <= sent[t]
    BY <1>1 DEF Aligned
  <1>10. /\ Len(Stream(t)) = Len(r) + Len(w) /\ Len(w) \in Nat
         /\ Len(r) \in Nat \ {0} /\ w \in Seq(Units)
    BY <1>1, StreamProperties, LentConn, EmptySeq
  <1>11. p + 1 = 1 /\ u.k # "arr" => sent[t] = 1
    BY <1>3 DEF InPlace
  <1>12. FailsOp(t, u) \/ (EndsReply(t, u) /\ left[t] = 1)
    OBVIOUS
  <1> HIDE DEF u, p, r, w
  <1>13. p + 1 = sent[t]
    <2>1. CASE EndsReply(t, u) /\ left[t] = 1
      BY <1>3, <2>1
    <2>2. CASE u.k = "err"
      BY <1>3, <1>5, <1>6, <2>2
    <2>3. CASE u.k = "nil" /\ open[t] = 0
      <3>1. p = 0
        BY <1>6, <1>8, <2>3
      <3>2. QED
        BY <1>11, <2>3, <3>1
    <2>4. QED
      BY <1>12, <2>1, <2>2, <2>3 DEF FailsOp
  <1>14. Len(w) = 0
    BY <1>6, <1>9, <1>10, <1>13
  <1>15. w = <<>>
    BY <1>10, <1>14, EmptySeq
  <1>16. QED
    BY <1>15 DEF w

LEMMA QuietParse ==
  ASSUME Quiet, NEW t \in Tasks, Parse(t)
  PROVE  Quiet'
  <1> DEFINE c    == lent[t]
             u    == Head(rdbuf[c])
             last == EndsReply(t, u) /\ left[t] = 1
  <1>1. StreamInv' /\ ClientInv
    BY StreamParse DEF Quiet, StreamInv
  <1>2. /\ pc[t] = "read" /\ rdbuf[c] # <<>> /\ Tail(rdbuf[c]) \in Seq(Units)
        /\ \A v \in Tasks \ {t} :
             left'[v] = left[v] /\ open'[v] = open[v] /\ got'[v] = got[v]
        /\ UNCHANGED <<cmds, op, sent, issued>>
    BY <1>1, ParseCounts
  <1>3. Aligned(t) /\ Plain(t)
    BY <1>2 DEF Quiet
  <1>4. InStepSoFar(t)'
    BY <1>1, <1>3, ParseInStep
  <1>5. CASE FailsOp(t, u) \/ last
    <2>1. PICK res \in {"reply_err", "ok"} : Finish(t, res, Tail(rdbuf[c]))
      BY <1>5 DEF Parse
    <2>2. res \in Results
      BY DEF Results
    <2>3. Drops(t) /\ wire'[c] \in {wire[c], <<>>} /\ torn' \subseteq torn
      BY <1>1, <1>2, <2>1, <2>2, FinishDrops
    <2>4. wire[c] = <<>>
      BY <1>5, CmdEndsWhole
    <2>5. QED
      BY <1>1, <1>2, <1>4, <2>3, <2>4, QuietDrop
  <1>6. CASE ~(FailsOp(t, u) \/ last)
    <2>1. /\ rdbuf' = [rdbuf EXCEPT ![c] = Tail(@)]
          /\ UNCHANGED <<poolVars, wire, broken, torn, pc, result>>
      BY <1>6 DEF Parse
    <2>2. Aligned(t)'
      BY <1>1, <1>3, <1>6, ParseAligned
    <2>3. /\ rdbuf'[c] = Tail(rdbuf[c]) /\ UNCHANGED <<lent, wire>>
          /\ \A d \in Conns \ {c} : rdbuf'[d] = rdbuf[d] /\ wire'[d] = wire[d]
      BY <1>1, <1>2, <2>1, LentConn DEF poolVars, ClientInv, Typed, TypeOK
    <2>4. /\ Len(Stream(t)') = Len(Stream(t)) - 1
          /\ \A j \in 1..Len(Stream(t)') : Stream(t)'[j] = Stream(t)[j + 1]
      BY <1>1, <1>2, <2>3, StreamTail
    <2>5. Len(Stream(t)) \in Nat
      BY <1>1, <1>2, StreamHead
    <2>6. ASSUME NEW j \in 1..Len(Stream(t)'), Stream(t)'[j].k = "err"
          PROVE  sent'[t] = 1
      <3>1. j + 1 \in 1..Len(Stream(t)) /\ Stream(t)[j + 1].k = "err"
        BY <2>4, <2>5, <2>6
      <3>2. QED
        BY <1>2, <1>3, <3>1 DEF Plain
    <2>7. Plain(t)'
      BY <2>6 DEF Plain
    <2>8. \A v \in Tasks : v # t /\ pc[v] = "read" =>
            Stream(v)' = Stream(v) /\ (Aligned(v)' <=> Aligned(v))
      BY <1>1, <1>2, <2>1, <2>3, OthersFollow DEF poolVars
    <2>9. \A v \in Tasks : pc'[v] = "read" => Aligned(v)' /\ Plain(v)'
      BY <1>2, <2>1, <2>2, <2>7, <2>8 DEF Quiet, Plain
    <2>10. OwnReplies'
      BY <1>2, <1>4 DEF Quiet, OwnReplies, InStepSoFar
    <2>11. QED
      BY <1>1, <1>2, <2>1, <2>3, <2>9, <2>10 DEF Quiet
  <1>7. QED
    BY <1>5, <1>6

LEMMA QuietPool ==
  ASSUME Quiet, (\E c \in Conns : Settle(c) \/ Reap(c)) \/ CloseBegins \/ CloseEnds
  PROVE  Quiet'
  <1>1. /\ StreamInv'
        /\ UNCHANGED <<lent, taskVars>> /\ torn' \subseteq torn
        /\ \A d \in Conns : wire'[d] \in {wire[d], <<>>}
        /\ \A v \in Tasks : pc[v] = "read" => (Aligned(v)' <=> Aligned(v))
        /\ \A v \in Tasks : pc[v] = "read" => Stream(v)' = Stream(v)
    BY StreamPool DEF Quiet
  <1>2. \A v \in Tasks : pc'[v] = "read" => Aligned(v)' /\ Plain(v)'
    BY <1>1 DEF Quiet, Plain, taskVars
  <1>3. OwnReplies'
    BY <1>1 DEF Quiet, OwnReplies, InStepSoFar, taskVars
  <1>4. \A d \in Conns :
          wire'[d] # <<>> => \E v \in Tasks : pc'[v] = "read" /\ lent'[v] = d
    BY <1>1 DEF Quiet, taskVars
  <1>5. QED
    BY <1>1, <1>2, <1>3, <1>4 DEF Quiet, taskVars

LEMMA QuietBreak ==
  ASSUME Quiet, NEW c \in Conns, Break(c)
  PROVE  Quiet'
  <1>1. StreamInv' /\ ClientInv
    BY StreamBreak DEF Quiet, StreamInv
  <1>2. UNCHANGED <<poolVars, rdbuf, torn, taskVars>>
    BY DEF Break
  <1>3. ASSUME NEW v \in Tasks, pc[v] = "read"
        PROVE  Aligned(v)' /\ Plain(v)'
    <2>1. Aligned(v)'
      BY <1>1, <1>3, CutAligned DEF Quiet
    <2>2. /\ Stream(v)' \in Seq(Units) /\ Len(Stream(v)') <= Len(Stream(v))
          /\ \A j \in 1..Len(Stream(v)') : Remains(Stream(v)[j], Stream(v)'[j])
      BY <1>1, <1>3, StreamCut
    <2>3. Len(Stream(v)) \in Nat /\ Len(Stream(v)') \in Nat
      BY <1>1, <1>3, <2>2, StreamProperties, LenProperties
    <2>4. ASSUME NEW j \in 1..Len(Stream(v)'), Stream(v)'[j].k = "err"
          PROVE  sent'[v] = 1
      <3>1. j \in 1..Len(Stream(v)) /\ Stream(v)[j].k = "err"
        BY <2>2, <2>3, <2>4 DEF Remains
      <3>2. QED
        BY <1>2, <1>3, <3>1 DEF Quiet, Plain, taskVars
    <2>5. QED
      BY <2>1, <2>4 DEF Plain
  <1>4. OwnReplies'
    BY <1>2 DEF Quiet, OwnReplies, InStepSoFar, taskVars
  <1>5. ASSUME NEW d \in Conns, wire'[d] # <<>>
        PROVE  wire[d] # <<>>
    <2>1. PICK rest \in CutOff(wire[c]) : wire' = [wire EXCEPT ![c] = rest]
      BY DEF Break
    <2>2. wire \in [Conns -> Seq(Units)]
      BY <1>1 DEF ClientInv, Typed, TypeOK
    <2>3. CASE d = c
      <3>1. rest \in Seq(Units) /\ Len(rest) <= Len(wire[c]) /\ rest # <<>>
        BY <1>5, <2>1, <2>2, <2>3, CutOffUnits
      <3>2. Len(rest) \in Nat \ {0} /\ Len(wire[c]) \in Nat
        BY <2>2, <3>1, EmptySeq, LenProperties
      <3>3. QED
        BY <2>3, <3>1, <3>2
    <2>4. CASE d # c
      BY <1>5, <2>1, <2>2, <2>4
    <2>5. QED
      BY <2>3, <2>4
  <1>6. \A d \in Conns :
          wire'[d] # <<>> => \E v \in Tasks : pc'[v] = "read" /\ lent'[v] = d
    BY <1>2, <1>5 DEF Quiet, taskVars, poolVars
  <1>7. QED
    BY <1>1, <1>2, <1>3, <1>4, <1>6 DEF Quiet, taskVars

LEMMA QuietNext ==
  ASSUME Ops \subseteq {"cmd"}, ~MayAbandon
  PROVE  Quiet /\ [Next]_vars => Quiet'
  <1> SUFFICES ASSUME Quiet, [Next]_vars PROVE Quiet'
    OBVIOUS
  <1>1. ASSUME NEW t \in Tasks,
               \/ Queue(t) \/ Clear(t) \/ AcquireErr(t)
               \/ \E kind \in Ops : Start(t, kind)
               \/ \E c \in Conns : Acquire(t, c)
        PROVE  Quiet'
    BY <1>1, QuietOutside
  <1>2. ASSUME NEW t \in Tasks, Write(t)
        PROVE  Quiet'
    BY <1>2, QuietWrite
  <1>3. ASSUME NEW t \in Tasks
        PROVE  ~AbandonWrite(t)
    BY DEF AbandonWrite
  <1>4. ASSUME NEW t \in Tasks, WriteErr(t) \/ ReadEof(t) \/ AbandonRead(t)
        PROVE  Quiet'
    BY <1>4, QuietGiveUp
  <1>5. ASSUME NEW t \in Tasks, Fill(t)
        PROVE  Quiet'
    BY <1>5, QuietFill
  <1>6. ASSUME NEW t \in Tasks, Parse(t)
        PROVE  Quiet'
    BY <1>6, QuietParse
  <1>7. CASE (\E c \in Conns : Settle(c) \/ Reap(c)) \/ CloseBegins \/ CloseEnds
    BY <1>7, QuietPool
  <1>8. ASSUME NEW c \in Conns, Break(c)
        PROVE  Quiet'
    BY <1>8, QuietBreak
  <1>9. CASE UNCHANGED vars
    <2>1. StreamInv'
      BY <1>9, StreamNext DEF Quiet
    <2>2. \A v \in Tasks : InStepSoFar(v)'
      BY <1>9 DEF Quiet, OwnReplies, InStepSoFar, vars, taskVars
    <2>3. QED
      BY <1>9, <2>1, <2>2, QuietFrame DEF vars, poolVars, connVars, taskVars, Quiet
  <1>10. QED
    BY <1>1, <1>2, <1>3, <1>4, <1>5, <1>6, <1>7, <1>8, <1>9 DEF Next, ReadStep

\* A client that sends single commands, sets no timeouts and drops no futures.
THEOREM QuietInvariant ==
  ASSUME Ops \subseteq {"cmd"}, ~MayAbandon
  PROVE  Spec => []Quiet
  <1>1. Init => Quiet
    BY QuietInit
  <1>2. Quiet /\ [Next]_vars => Quiet'
    BY QuietNext
  <1>3. QED
    BY <1>1, <1>2, PTL DEF Spec

\* Client::process_cmd: no caller of such a client ever reads a reply to another
\* caller's command, however many share the pool and whatever breaks.
THEOREM CommandsReadTheirOwn ==
  ASSUME Ops \subseteq {"cmd"}, ~MayAbandon
  PROVE  Spec => []OwnReplies
  <1>1. Quiet => OwnReplies
    BY DEF Quiet
  <1>2. Spec => []Quiet
    BY QuietInvariant
  <1>3. QED
    BY <1>1, <1>2, PTL

\* PoolGuard::drop: the test of the BufReader is enough for such a client, no
\* idle connection has a reply on its way.
THEOREM IdleConnectionsQuiet ==
  ASSUME Ops \subseteq {"cmd"}, ~MayAbandon
  PROVE  Spec => []IdleQuiet
  <1>1. Quiet => IdleQuiet
    BY DEF Quiet, IdleQuiet, StreamInv, ClientInv, Owners, Typed
  <1>2. Spec => []Quiet
    BY QuietInvariant
  <1>3. QED
    BY <1>1, <1>2, PTL
=============================================================================
