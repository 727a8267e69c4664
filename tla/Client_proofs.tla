---------------------------- MODULE Client_proofs ----------------------------
(* Types and ownership in Client, for any set of tasks and connections, any  *)
(* size of batches and any number of operations.                             *)
EXTENDS Client, SequenceTheorems, TLAPS

\* A function on 1..n is a sequence.
LEMMA FcnIsSeq ==
  ASSUME NEW S, NEW n \in Nat, NEW f \in [1..n -> S]
  PROVE  f \in Seq(S) /\ Len(f) = n
  <1>1. f \in Seq(S)
    BY SeqDef
  <1>2. Len(f) = n
    BY <1>1, LenProperties
  <1>3. QED
    BY <1>1, <1>2

Shapes == [k : Kinds, n : 0..MaxBatch]

LEMMA ScalarsShape ==
  ASSUME NEW K \in SUBSET Kinds, NEW n \in Nat, NEW a \in Scalars(K, n)
  PROVE  /\ a \in Seq(Shapes)
         /\ Len(a) = n
         /\ \A j \in 1..n : a[j].k \in K /\ a[j].n = 0
  <1>1. PICK f \in [1..n -> K] : a = [j \in 1..n |-> Shape(f[j])]
    BY DEF Scalars
  <1>2. a \in [1..n -> Shapes]
    BY <1>1, BoundsAssumption DEF Shape, Shapes
  <1>3. a \in Seq(Shapes) /\ Len(a) = n
    BY <1>2, FcnIsSeq
  <1>4. \A j \in 1..n : a[j] = Shape(f[j]) /\ f[j] \in K
    BY <1>1
  <1>5. QED
    BY <1>3, <1>4 DEF Shape

\* An operation that needs a connection: one command, or a batch of some.
Busy(o) ==
  /\ o.kind \in {"cmd", "eval", "pipeline", "multi"}
  /\ o.kind \in {"cmd", "eval"} => o.n = 1
  /\ o.kind \in {"pipeline", "multi"} => o.n \in 1..MaxBatch

\* Only the last of h replies can be an array, and the answer ends with it.
Fits(a, h) ==
  /\ a \in Seq(Shapes)
  /\ h \in 1..Len(a)
  /\ \A j \in 1..Len(a) : a[j].k = "arr" => j = h /\ a[j].n = Len(a) - h
  /\ a[h].k # "arr" => Len(a) = h

\* A sequence of scalars.
Flat(a, m) == /\ a \in Seq(Shapes)
              /\ Len(a) = m
              /\ \A j \in 1..m : a[j].k # "arr"

LEMMA ScalarsFlat ==
  ASSUME NEW K \in SUBSET (Kinds \ {"arr"}), NEW n \in Nat, NEW a \in Scalars(K, n)
  PROVE  Flat(a, n)
  <1>1. K \in SUBSET Kinds
    OBVIOUS
  <1>2. a \in Seq(Shapes) /\ Len(a) = n /\ \A j \in 1..n : a[j].k \in K /\ a[j].n = 0
    BY <1>1, ScalarsShape
  <1>3. QED
    BY <1>2 DEF Flat

LEMMA FlatFits ==
  ASSUME NEW n \in Nat \ {0}, NEW a, Flat(a, n)
  PROVE  Fits(a, n)
  BY DEF Flat, Fits

LEMMA ArrayFits ==
  ASSUME NEW K \in SUBSET (Kinds \ {"arr"}), NEW n \in 0..MaxBatch,
         NEW a \in ArraysOf(K, n)
  PROVE  Fits(a, 1)
  <1> DEFINE h == <<[k |-> "arr", n |-> n]>>
  <1>1. PICK e \in Scalars(K, n) : a = h \o e
    BY DEF ArraysOf
  <1>2. n \in Nat
    BY BoundsAssumption
  <1>3. Flat(e, n)
    BY <1>2, ScalarsFlat
  <1>4. e \in Seq(Shapes) /\ Len(e) = n
    BY <1>3 DEF Flat
  <1>5. h \in Seq(Shapes) /\ Len(h) = 1
    BY DEF Shapes, Kinds
  <1>6. h[1] = [k |-> "arr", n |-> n]
    OBVIOUS
  <1> HIDE DEF h
  <1>7. /\ a \in Seq(Shapes) /\ Len(a) = 1 + n
        /\ \A j \in 1..(1 + n) : a[j] = IF j <= 1 THEN h[j] ELSE e[j - 1]
    <2>1. /\ h \o e \in Seq(Shapes) /\ Len(h \o e) = Len(h) + Len(e)
          /\ \A j \in 1..(Len(h) + Len(e)) :
               (h \o e)[j] = IF j <= Len(h) THEN h[j] ELSE e[j - Len(h)]
      BY <1>4, <1>5, ConcatProperties
    <2>2. QED
      BY <1>1, <1>4, <1>5, <2>1
  <1>8. a[1] = [k |-> "arr", n |-> n]
    BY <1>2, <1>6, <1>7
  <1>9. \A j \in 2..(n + 1) : a[j] = e[j - 1] /\ j - 1 \in 1..n
    BY <1>2, <1>7
  <1>10. \A j \in 2..(n + 1) : a[j].k # "arr"
    BY <1>3, <1>9 DEF Flat
  <1>11. QED
    BY <1>2, <1>7, <1>8, <1>10 DEF Fits

\* Scalars may precede.
LEMMA PrefixFits ==
  ASSUME NEW m \in Nat, NEW q, Flat(q, m), NEW e, Fits(e, 1)
  PROVE  Fits(q \o e, m + 1)
  <1> DEFINE a == q \o e
  <1>1. q \in Seq(Shapes) /\ e \in Seq(Shapes) /\ Len(q) = m /\ Len(e) \in Nat \ {0}
    BY DEF Flat, Fits
  <1>2. /\ a \in Seq(Shapes) /\ Len(a) = m + Len(e)
        /\ \A j \in 1..(m + Len(e)) : a[j] = IF j <= m THEN q[j] ELSE e[j - m]
    BY <1>1, ConcatProperties
  <1> HIDE DEF a
  <1>3. ASSUME NEW j \in 1..Len(a), a[j].k = "arr"
        PROVE  j = m + 1 /\ a[j].n = Len(a) - (m + 1)
    <2>1. j > m
      BY <1>1, <1>2, <1>3 DEF Flat
    <2>2. j - m \in 1..Len(e) /\ a[j] = e[j - m]
      BY <1>1, <1>2, <2>1
    <2>3. j - m = 1 /\ e[j - m].n = Len(e) - 1
      BY <1>3, <2>2 DEF Fits
    <2>4. QED
      BY <1>1, <1>2, <2>2, <2>3
  <1>4. a[m + 1] = e[1]
    BY <1>1, <1>2
  <1>5. a[m + 1].k # "arr" => Len(a) = m + 1
    BY <1>1, <1>2, <1>4 DEF Fits
  <1>6. Fits(a, m + 1)
    BY <1>1, <1>2, <1>3, <1>5 DEF Fits
  <1>7. QED
    BY <1>6 DEF a

LEMMA ConcatFlat ==
  ASSUME NEW m \in Nat, NEW q, Flat(q, m), NEW n \in Nat, NEW e, Flat(e, n)
  PROVE  Flat(q \o e, m + n)
  <1> DEFINE a == q \o e
  <1>1. /\ a \in Seq(Shapes) /\ Len(a) = m + n
        /\ \A j \in 1..(m + n) : a[j] = IF j <= m THEN q[j] ELSE e[j - m]
    BY ConcatProperties DEF Flat
  <1> HIDE DEF a
  <1>2. ASSUME NEW j \in 1..(m + n)
        PROVE  a[j].k # "arr"
    <2>1. CASE j <= m
      BY <1>1, <2>1 DEF Flat
    <2>2. CASE j > m
      <3>1. j - m \in 1..n /\ a[j] = e[j - m]
        BY <1>1, <2>2
      <3>2. QED
        BY <3>1 DEF Flat
    <2>3. QED
      BY <2>1, <2>2
  <1>3. Flat(a, m + n)
    BY <1>1, <1>2 DEF Flat
  <1>4. QED
    BY <1>3 DEF a

\* What the server answers to an operation is what the operation reads.
LEMMA AnswersFit ==
  ASSUME NEW o, Busy(o), NEW a \in Answers(o)
  PROVE  Fits(a, RepliesOf(o))
  <1> USE BoundsAssumption DEF RepliesOf
  <1>1. CASE o.kind \in {"cmd", "eval"}
    <2>1. RepliesOf(o) = 1
      BY <1>1 DEF Busy
    <2>2. a \in CmdAnswers \cup EvalAnswers
      BY <1>1 DEF Answers
    <2>3. \/ a \in Scalars({"val", "nil", "err"}, 1)
          \/ \E n \in 0..MaxBatch : a \in ArraysOf({"val", "nil"}, n)
          \/ \E n \in 0..MaxBatch : a \in ArraysOf({"val", "err"}, n)
      BY <2>2 DEF CmdAnswers, EvalAnswers
    <2>4. CASE a \in Scalars({"val", "nil", "err"}, 1)
      <3>1. {"val", "nil", "err"} \in SUBSET (Kinds \ {"arr"})
        BY DEF Kinds
      <3>2. Flat(a, 1)
        BY <2>4, <3>1, ScalarsFlat
      <3>3. QED
        BY <2>1, <3>2, FlatFits
    <2>5. ASSUME NEW n \in 0..MaxBatch, a \in ArraysOf({"val", "nil"}, n)
          PROVE  Fits(a, 1)
      <3>1. {"val", "nil"} \in SUBSET (Kinds \ {"arr"})
        BY DEF Kinds
      <3>2. QED
        BY <2>5, <3>1, ArrayFits
    <2>6. ASSUME NEW n \in 0..MaxBatch, a \in ArraysOf({"val", "err"}, n)
          PROVE  Fits(a, 1)
      <3>1. {"val", "err"} \in SUBSET (Kinds \ {"arr"})
        BY DEF Kinds
      <3>2. QED
        BY <2>6, <3>1, ArrayFits
    <2>7. QED
      BY <2>1, <2>3, <2>4, <2>5, <2>6
  <1>2. CASE o.kind = "pipeline"
    <2>1. RepliesOf(o) = o.n /\ o.n \in Nat \ {0} /\ o.n \in Nat
      BY <1>2 DEF Busy
    <2>2. a \in Scalars({"val", "nil", "err"}, o.n)
      BY <1>2 DEF Answers, PipelineAnswers
    <2>3. {"val", "nil", "err"} \in SUBSET (Kinds \ {"arr"})
      BY DEF Kinds
    <2>4. Flat(a, o.n)
      BY <2>1, <2>2, <2>3, ScalarsFlat
    <2>5. Fits(a, o.n)
      BY <2>1, <2>4, FlatFits
    <2>6. QED
      BY <2>1, <2>5
  <1>3. CASE o.kind = "multi"
    <2>1. RepliesOf(o) = (1 + o.n) + 1 /\ o.n \in 0..MaxBatch /\ o.n \in Nat
      BY <1>3 DEF Busy
    <2>2. PICK q, e : /\ a = <<Shape("val")>> \o q \o e
                      /\ q \in Scalars({"val"}, o.n) \cup Scalars({"val", "err"}, o.n)
                      /\ \/ e \in ArraysOf({"val", "nil", "err"}, o.n)
                         \/ e \in Scalars({"nil"}, 1)
                         \/ e \in Scalars({"err"}, 1)
      <3>1. a \in MultiAnswers(o.n)
        BY <1>3 DEF Answers
      <3>2. \/ \E q \in Scalars({"val"}, o.n),
                  e \in ArraysOf({"val", "nil", "err"}, o.n) \cup Scalars({"nil"}, 1) :
                 a = <<Shape("val")>> \o q \o e
            \/ \E q \in Scalars({"val", "err"}, o.n) \ Scalars({"val"}, o.n),
                  e \in Scalars({"err"}, 1) : a = <<Shape("val")>> \o q \o e
        BY <3>1 DEF MultiAnswers
      <3>3. QED
        BY <3>2
    <2>3. {{"val"}, {"val", "err"}, {"nil"}, {"err"}, {"val", "nil", "err"}}
            \subseteq SUBSET (Kinds \ {"arr"})
      BY DEF Kinds
    <2>4. Flat(q, o.n)
      <3>1. CASE q \in Scalars({"val"}, o.n)
        BY <2>1, <2>3, <3>1, ScalarsFlat
      <3>2. CASE q \in Scalars({"val", "err"}, o.n)
        BY <2>1, <2>3, <3>2, ScalarsFlat
      <3>3. QED
        BY <2>2, <3>1, <3>2
    <2>5. Fits(e, 1)
      <3>1. CASE e \in ArraysOf({"val", "nil", "err"}, o.n)
        BY <2>1, <2>3, <3>1, ArrayFits
      <3>2. CASE e \in Scalars({"nil"}, 1)
        BY <2>3, <3>2, ScalarsFlat, FlatFits
      <3>3. CASE e \in Scalars({"err"}, 1)
        BY <2>3, <3>3, ScalarsFlat, FlatFits
      <3>4. QED
        BY <2>2, <3>1, <3>2, <3>3
    <2>6. Flat(<<Shape("val")>>, 1)
      BY DEF Flat, Shapes, Shape, Kinds
    <2>7. Flat(<<Shape("val")>> \o q, 1 + o.n)
      BY <2>1, <2>4, <2>6, ConcatFlat
    <2>8. Fits((<<Shape("val")>> \o q) \o e, (1 + o.n) + 1)
      BY <2>1, <2>5, <2>7, PrefixFits
    <2>9. QED
      BY <2>1, <2>2, <2>8
  <1>4. QED
    BY <1>1, <1>2, <1>3 DEF Busy

-----------------------------------------------------------------------------
(* Units on the wire                                                         *)

LEMMA TaggedUnits ==
  ASSUME NEW id \in 0..MaxOps, NEW a \in Seq(Shapes)
  PROVE  /\ Tagged(id, a) \in Seq(Units)
         /\ Len(Tagged(id, a)) = Len(a)
         /\ \A j \in 1..Len(a) :
              Tagged(id, a)[j] = [op |-> id, i |-> j, k |-> a[j].k, n |-> a[j].n]
  <1>1. Len(a) \in Nat /\ \A j \in 1..Len(a) : a[j] \in Shapes
    BY LenProperties
  <1>2. Tagged(id, a) \in [1..Len(a) -> Units]
    BY <1>1 DEF Tagged, Units, Shapes
  <1>3. Tagged(id, a) \in Seq(Units) /\ Len(Tagged(id, a)) = Len(a)
    BY <1>1, <1>2, FcnIsSeq
  <1>4. QED
    BY <1>3 DEF Tagged

\* Unit v is unit u, whole or with the end of its line missing.
Remains(u, v) ==
  /\ v.op = u.op /\ v.i = u.i /\ v.n = u.n
  /\ v.k = u.k \/ (u.k = "val" /\ v.k = "cut")

LEMMA CutOffUnits ==
  ASSUME NEW s \in Seq(Units), NEW rest \in CutOff(s)
  PROVE  /\ rest \in Seq(Units)
         /\ Len(rest) <= Len(s)
         /\ \A j \in 1..Len(rest) : Remains(s[j], rest[j])
  <1>1. Len(s) \in Nat /\ \A j \in 1..Len(s) : s[j] \in Units
    BY LenProperties
  <1>2. ASSUME NEW n \in 0..Len(s)
        PROVE  /\ SubSeq(s, 1, n) \in Seq(Units)
               /\ Len(SubSeq(s, 1, n)) = n
               /\ \A j \in 1..n : SubSeq(s, 1, n)[j] = s[j]
    BY <1>1, SubSeqProperties
  <1>3. ASSUME NEW n \in 0..Len(s), rest = SubSeq(s, 1, n)
        PROVE  /\ rest \in Seq(Units)
               /\ Len(rest) <= Len(s)
               /\ \A j \in 1..Len(rest) : Remains(s[j], rest[j])
    BY <1>1, <1>2, <1>3 DEF Remains
  <1>4. ASSUME NEW n \in 1..Len(s), s[n].k = "val",
               rest = Append(SubSeq(s, 1, n - 1), [s[n] EXCEPT !.k = "cut"])
        PROVE  /\ rest \in Seq(Units)
               /\ Len(rest) <= Len(s)
               /\ \A j \in 1..Len(rest) : Remains(s[j], rest[j])
    <2> DEFINE b == SubSeq(s, 1, n - 1)
               v == [s[n] EXCEPT !.k = "cut"]
    <2>1. /\ b \in Seq(Units) /\ Len(b) = n - 1
          /\ \A j \in 1..(n - 1) : b[j] = s[j]
      BY <1>1, <1>2
    <2>2. v \in Units /\ Remains(s[n], v)
      BY <1>1, <1>4 DEF Units, Kinds, Remains
    <2> HIDE DEF b, v
    <2>3. /\ rest \in Seq(Units) /\ Len(rest) = n
          /\ \A j \in 1..(n - 1) : rest[j] = b[j]
          /\ rest[n] = v
      <3>1. rest = Append(b, v)
        BY <1>4 DEF b, v
      <3>2. QED
        BY <1>1, <2>1, <2>2, <3>1, AppendProperties
    <2>4. ASSUME NEW j \in 1..n
          PROVE  Remains(s[j], rest[j])
      <3>1. CASE j = n
        BY <2>2, <2>3, <3>1
      <3>2. CASE j # n
        <4>1. j \in 1..(n - 1)
          BY <1>1, <3>2
        <4>2. QED
          BY <2>1, <2>3, <4>1 DEF Remains
      <3>3. QED
        BY <3>1, <3>2
    <2>5. QED
      BY <1>1, <2>3, <2>4
  <1>5. QED
    BY <1>3, <1>4 DEF CutOff

-----------------------------------------------------------------------------
(* The invariant                                                             *)

Typed == TypeOK /\ idle \in SUBSET Conns /\ returning \in SUBSET Conns

\* A task that is at work has an operation, and reads while a reply is due.
Working ==
  \A t \in Tasks :
    /\ pc[t] # "rest" => Busy(op[t]) /\ op[t].id \in 1..issued
    /\ pc[t] = "read" => left[t] >= 1

\* A connection is lent to one task, idle, on its way back, or unused.
Owners ==
  /\ \A t \in Tasks : pc[t] \in {"write", "read"} <=> lent[t] # NoConn
  /\ \A t, u \in Tasks : t # u /\ lent[t] = lent[u] => lent[t] = NoConn
  /\ \A t \in Tasks : lent[t] \notin idle \cup returning
  /\ idle \cap returning = {}
  /\ removed = {}

\* Only a task that reads has something in its BufReader.
Buffered ==
  \A c \in Conns :
    rdbuf[c] # <<>> => \E t \in Tasks : pc[t] = "read" /\ lent[t] = c

ClientInv == Typed /\ Working /\ Owners /\ Buffered

LEMMA ClientInit == Init => ClientInv
  <1> SUFFICES ASSUME Init PROVE ClientInv
    OBVIOUS
  <1> USE BoundsAssumption
  <1>1. Typed
    BY DEF Init, Pool!Init, Typed, TypeOK, Results, NoOp
  <1>2. Working /\ Owners /\ Buffered
    BY DEF Init, Pool!Init, Working, Owners, Buffered
  <1>3. QED
    BY <1>1, <1>2 DEF ClientInv

-----------------------------------------------------------------------------
(* Steps of a task outside its connection                                    *)

\* A step that leaves the connections alone, and gives and takes none.
LEMMA OwnersFrame ==
  ASSUME Owners, UNCHANGED <<idle, returning, removed, lent>>,
         \A u \in Tasks : pc'[u] \in {"write", "read"} <=> pc[u] \in {"write", "read"}
  PROVE  Owners'
  BY DEF Owners

LEMMA QueueStep ==
  ASSUME ClientInv, NEW t \in Tasks, Queue(t) \/ Clear(t)
  PROVE  ClientInv'
  <1>1. cmds' \in [Tasks -> 0..MaxBatch]
    <2>1. CASE Queue(t)
      BY <2>1, BoundsAssumption DEF Queue, ClientInv, Typed, TypeOK
    <2>2. CASE Clear(t)
      BY <2>2, BoundsAssumption DEF Clear, ClientInv, Typed, TypeOK
    <2>3. QED
      BY <2>1, <2>2
  <1>2. UNCHANGED <<poolVars, connVars, pc, op, left, open, got, sent, result, issued>>
    BY DEF Queue, Clear
  <1>3. Typed'
    BY <1>1, <1>2 DEF ClientInv, Typed, TypeOK, poolVars, connVars
  <1>4. Working' /\ Owners' /\ Buffered'
    BY <1>2 DEF ClientInv, Working, Owners, Buffered, poolVars, connVars
  <1>5. QED
    BY <1>3, <1>4 DEF ClientInv

LEMMA StartStep ==
  ASSUME ClientInv, NEW t \in Tasks, NEW kind \in Ops, Start(t, kind)
  PROVE  ClientInv'
  <1> DEFINE n == IF kind \in {"cmd", "eval"} THEN 1 ELSE cmds[t]
             o == [kind |-> kind, n |-> n, id |-> issued + 1]
  <1>1. /\ pc[t] = "rest" /\ issued < MaxOps /\ issued' = issued + 1
        /\ op' = [op EXCEPT ![t] = o]
        /\ pc' = [pc EXCEPT ![t] = IF n = 0 THEN "rest" ELSE "get"]
        /\ UNCHANGED <<poolVars, connVars>>
    BY DEF Start
  <1>2. issued \in 0..MaxOps /\ cmds[t] \in 0..MaxBatch
    BY DEF ClientInv, Typed, TypeOK
  <1>3. n \in 0..MaxBatch \cup {1} /\ (kind \notin {"cmd", "eval"} => n \in 0..MaxBatch)
    BY <1>2
  <1>4. o \in [kind : Ops, n : 0..MaxBatch \cup {1}, id : 1..MaxOps]
    BY <1>1, <1>2, <1>3, BoundsAssumption
  <1>5. n # 0 => Busy(o)
    BY <1>2, <1>3, OpsAssumption, BoundsAssumption DEF Busy
  <1>6. Typed'
    <2>1. /\ op' \in [Tasks -> {NoOp} \cup [kind : Ops, n : 0..MaxBatch \cup {1}, id : 1..MaxOps]]
      BY <1>1, <1>4 DEF ClientInv, Typed, TypeOK
    <2>2. pc' \in [Tasks -> {"rest", "get", "write", "read"}]
      BY <1>1 DEF ClientInv, Typed, TypeOK
    <2>3. cmds' \in [Tasks -> 0..MaxBatch]
      BY BoundsAssumption DEF Start, ClientInv, Typed, TypeOK
    <2>4. left' \in [Tasks -> Nat] /\ sent' \in [Tasks -> Nat]
      BY DEF Start, ClientInv, Typed, TypeOK
    <2>5. open' \in [Tasks -> 0..MaxBatch]
      BY BoundsAssumption DEF Start, ClientInv, Typed, TypeOK
    <2>6. got' \in [Tasks -> Seq((0..MaxOps) \X Nat)]
      BY DEF Start, ClientInv, Typed, TypeOK
    <2>7. result' \in [Tasks -> Results]
      BY DEF Start, ClientInv, Typed, TypeOK, Results
    <2>8. issued' \in 0..MaxOps
      BY <1>1, <1>2, BoundsAssumption
    <2>9. QED
      BY <1>1, <2>1, <2>2, <2>3, <2>4, <2>5, <2>6, <2>7, <2>8
         DEF ClientInv, Typed, TypeOK, poolVars, connVars
  <1>7. Working'
    <2>1. ASSUME NEW u \in Tasks
          PROVE  /\ pc'[u] # "rest" => Busy(op'[u]) /\ op'[u].id \in 1..issued'
                 /\ pc'[u] = "read" => left'[u] >= 1
      <3>1. CASE u = t
        <4>1. op'[u] = o /\ pc'[u] = IF n = 0 THEN "rest" ELSE "get"
          BY <1>1, <3>1 DEF ClientInv, Typed, TypeOK
        <4>2. o.id \in 1..issued'
          BY <1>1, <1>2
        <4> HIDE DEF o, n
        <4>3. QED
          BY <1>5, <4>1, <4>2
      <3>2. CASE u # t
        <4>1. op'[u] = op[u] /\ pc'[u] = pc[u] /\ left'[u] = left[u]
          BY <3>2 DEF Start, ClientInv, Typed, TypeOK
        <4>2. 1..issued \subseteq 1..issued'
          BY <1>1, <1>2
        <4>3. QED
          BY <4>1, <4>2 DEF ClientInv, Working
      <3>3. QED
        BY <3>1, <3>2
    <2>2. QED
      BY <2>1 DEF Working
  <1>8. \A u \in Tasks : pc'[u] \in {"write", "read"} => pc'[u] = pc[u]
    BY <1>1 DEF ClientInv, Typed, TypeOK
  <1>9. \A u \in Tasks : pc[u] \in {"write", "read"} => pc'[u] = pc[u]
    BY <1>1 DEF ClientInv, Typed, TypeOK
  <1>10. Owners'
    BY <1>1, <1>8, <1>9, OwnersFrame DEF ClientInv, poolVars
  <1>11. Buffered'
    BY <1>1, <1>9 DEF ClientInv, Buffered, poolVars, connVars
  <1>12. QED
    BY <1>6, <1>7, <1>10, <1>11 DEF ClientInv

\* pool.get() hands out a connection, or none.
LEMMA AcquireStep ==
  ASSUME ClientInv, NEW t \in Tasks,
         (\E c \in Conns : Acquire(t, c)) \/ AcquireErr(t)
  PROVE  ClientInv'
  <1>1. ASSUME NEW c \in Conns, Acquire(t, c)
        PROVE  ClientInv'
    <2>1. /\ pc[t] = "get" /\ pc' = [pc EXCEPT ![t] = "write"]
          /\ UNCHANGED <<connVars, cmds, op, left, open, got, sent, result, issued>>
      BY <1>1 DEF Acquire
    <2>2. /\ lent[t] = NoConn /\ lent' = [lent EXCEPT ![t] = c]
          /\ UNCHANGED <<returning, removed>>
      BY <1>1 DEF Acquire, Pool!Reuse, Pool!Connect, Pool!Lend, Pool!Borrowers
    <2>3. idle' = idle \ {c} /\ c \notin returning
      BY <1>1 DEF Acquire, Pool!Reuse, Pool!Connect, Pool!Lend, Pool!InUse, ClientInv, Owners
    <2>4. \A u \in Tasks : lent[u] # c
      BY <1>1, NoConnAssumption
         DEF Acquire, Pool!Reuse, Pool!Connect, Pool!InUse, Pool!Borrowers, ClientInv, Owners
    <2>5. \A u \in Tasks : /\ pc'[u] = IF u = t THEN "write" ELSE pc[u]
                           /\ lent'[u] = IF u = t THEN c ELSE lent[u]
      BY <2>1, <2>2 DEF ClientInv, Typed, TypeOK
    <2>6. Typed'
      BY <2>1, <2>2, <2>3 DEF ClientInv, Typed, TypeOK, connVars
    <2>7. Working'
      BY <2>1, <2>5 DEF ClientInv, Working
    <2>8. Owners'
      BY <2>2, <2>3, <2>4, <2>5, NoConnAssumption DEF ClientInv, Owners
    <2>9. Buffered'
      BY <2>1, <2>5 DEF ClientInv, Buffered, connVars
    <2>10. QED
      BY <2>6, <2>7, <2>8, <2>9 DEF ClientInv
  <1>2. CASE AcquireErr(t)
    <2>1. /\ pc[t] = "get" /\ pc' = [pc EXCEPT ![t] = "rest"]
          /\ result' = [result EXCEPT ![t] = "no_conn"]
          /\ UNCHANGED <<poolVars, connVars, cmds, op, left, open, got, sent, issued>>
      BY <1>2 DEF AcquireErr
    <2>2. \A u \in Tasks : pc'[u] = IF u = t THEN "rest" ELSE pc[u]
      BY <2>1 DEF ClientInv, Typed, TypeOK
    <2>3. Typed'
      BY <2>1 DEF ClientInv, Typed, TypeOK, Results, poolVars, connVars
    <2>4. Working'
      BY <2>1, <2>2 DEF ClientInv, Working
    <2>5. Owners'
      BY <2>1, <2>2, OwnersFrame DEF ClientInv, poolVars
    <2>6. Buffered'
      BY <2>1, <2>2 DEF ClientInv, Buffered, poolVars, connVars
    <2>7. QED
      BY <2>3, <2>4, <2>5, <2>6 DEF ClientInv
  <1>3. QED
    BY <1>1, <1>2

-----------------------------------------------------------------------------
(* Steps on a connection                                                     *)

LEMMA LentConn ==
  ASSUME ClientInv, NEW t \in Tasks, pc[t] \in {"write", "read"}
  PROVE  /\ lent[t] \in Conns /\ lent[t] # NoConn
         /\ rdbuf[lent[t]] \in Seq(Units) /\ wire[lent[t]] \in Seq(Units)
         /\ Busy(op[t]) /\ op[t].id \in 1..issued /\ op[t].id \in 0..MaxOps
  <1>1. lent[t] # NoConn /\ lent[t] \in Conns
    BY DEF ClientInv, Owners, Typed, TypeOK
  <1>2. rdbuf[lent[t]] \in Seq(Units) /\ wire[lent[t]] \in Seq(Units)
    BY <1>1 DEF ClientInv, Typed, TypeOK
  <1>3. Busy(op[t]) /\ op[t].id \in 1..issued
    BY DEF ClientInv, Working
  <1>4. issued \in 0..MaxOps
    BY DEF ClientInv, Typed, TypeOK
  <1>5. QED
    BY <1>1, <1>2, <1>3, <1>4, BoundsAssumption

\* The BufReader of a task that has not begun to read is empty.
LEMMA WritesEmpty == ClientInv => LentEmpty
  <1> SUFFICES ASSUME ClientInv, NEW t \in Tasks, pc[t] = "write"
               PROVE  rdbuf[lent[t]] = <<>>
    BY DEF LentEmpty
  <1>1. lent[t] \in Conns /\ lent[t] # NoConn
    BY LentConn
  <1>2. \A u \in Tasks : lent[u] = lent[t] => u = t
    BY <1>1 DEF ClientInv, Owners
  <1>3. QED
    BY <1>1, <1>2 DEF ClientInv, Buffered

LEMMA TornFlat ==
  ASSUME NEW a \in TornAnswers
  PROVE  a \in Seq(Shapes) /\ \A j \in 1..Len(a) : a[j].k # "arr"
  <1>1. CASE a = <<>>
    BY <1>1
  <1>2. CASE a \in Scalars({"val", "err"}, 1)
    <2>1. {"val", "err"} \in SUBSET (Kinds \ {"arr"})
      BY DEF Kinds
    <2>2. Flat(a, 1)
      BY <1>2, <2>1, ScalarsFlat
    <2>3. QED
      BY <2>2 DEF Flat
  <1>3. QED
    BY <1>1, <1>2 DEF TornAnswers

\* What a write puts on the wire: nothing, an answer to nobody, or the answer.
LEMMA WriteSends ==
  ASSUME ClientInv, NEW t \in Tasks, Write(t)
  PROVE  \E w \in Seq(Units) :
           /\ wire' = [wire EXCEPT ![lent[t]] = @ \o w]
           /\ \/ /\ sent' = sent /\ \A j \in 1..Len(w) : w[j].op = 0
                 /\ lent[t] \notin torn => w = <<>>
              \/ \E a \in Answers(op[t]) : /\ w = Tagged(op[t].id, a)
                                           /\ sent' = [sent EXCEPT ![t] = Len(a)]
  <1> DEFINE c == lent[t]
  <1>1. pc[t] = "write" /\ c \in Conns /\ wire[c] \in Seq(Units) /\ Busy(op[t])
        /\ op[t].id \in 0..MaxOps /\ wire \in [Conns -> Seq(Units)]
    BY LentConn DEF Write, ClientInv, Typed, TypeOK
  <1>2. CASE c \in broken /\ UNCHANGED <<wire, sent, broken>>
    <2>1. wire' = [wire EXCEPT ![c] = @ \o <<>>]
      BY <1>1, <1>2, ConcatEmptySeq
    <2>2. <<>> \in Seq(Units) /\ \A j \in 1..Len(<<>>) : <<>>[j].op = 0
      OBVIOUS
    <2>3. QED
      BY <1>2, <2>1, <2>2
  <1>3. CASE /\ c \in torn
             /\ \E a \in TornAnswers :
                  wire' = [wire EXCEPT ![c] = @ \o Tagged(0, a)] /\ UNCHANGED sent
    <2>1. PICK a \in TornAnswers :
            wire' = [wire EXCEPT ![c] = @ \o Tagged(0, a)] /\ UNCHANGED sent
      BY <1>3
    <2>2. a \in Seq(Shapes) /\ 0 \in 0..MaxOps
      BY TornFlat, BoundsAssumption
    <2>3. /\ Tagged(0, a) \in Seq(Units) /\ Len(Tagged(0, a)) = Len(a)
          /\ \A j \in 1..Len(a) :
               Tagged(0, a)[j] = [op |-> 0, i |-> j, k |-> a[j].k, n |-> a[j].n]
      BY <2>2, TaggedUnits
    <2>4. ASSUME NEW j \in 1..Len(Tagged(0, a))
          PROVE  Tagged(0, a)[j].op = 0
      <3>1. Tagged(0, a)[j] = [op |-> 0, i |-> j, k |-> a[j].k, n |-> a[j].n]
        BY <2>3
      <3>2. QED
        BY <3>1
    <2>5. QED
      BY <1>3, <2>1, <2>3, <2>4
  <1>4. CASE \E a \in Answers(op[t]) :
               /\ wire' = [wire EXCEPT ![c] = @ \o Tagged(op[t].id, a)]
               /\ sent' = [sent EXCEPT ![t] = Len(a)]
    <2>1. PICK a \in Answers(op[t]) :
               /\ wire' = [wire EXCEPT ![c] = @ \o Tagged(op[t].id, a)]
               /\ sent' = [sent EXCEPT ![t] = Len(a)]
      BY <1>4
    <2>2. a \in Seq(Shapes)
      BY <1>1, AnswersFit DEF Fits
    <2>3. Tagged(op[t].id, a) \in Seq(Units)
      BY <1>1, <2>2, TaggedUnits
    <2>4. QED
      BY <2>1, <2>3
  <1>5. QED
    BY <1>2, <1>3, <1>4 DEF Write

LEMMA WriteStep ==
  ASSUME ClientInv, NEW t \in Tasks, Write(t)
  PROVE  ClientInv'
  <1>1. /\ pc[t] = "write" /\ pc' = [pc EXCEPT ![t] = "read"]
        /\ left' = [left EXCEPT ![t] = RepliesOf(op[t])]
        /\ UNCHANGED <<poolVars, rdbuf, torn, cmds, op, open, got, result, issued>>
    BY DEF Write
  <1>2. \A u \in Tasks : pc'[u] = IF u = t THEN "read" ELSE pc[u]
    BY <1>1 DEF ClientInv, Typed, TypeOK
  <1>3. lent[t] \in Conns /\ wire[lent[t]] \in Seq(Units) /\ Busy(op[t])
    BY <1>1, LentConn
  <1>4. RepliesOf(op[t]) \in Nat /\ RepliesOf(op[t]) >= 1
    BY <1>3, BoundsAssumption DEF Busy, RepliesOf
  <1>5. wire' \in [Conns -> Seq(Units)]
    <2>1. PICK w \in Seq(Units) : wire' = [wire EXCEPT ![lent[t]] = @ \o w]
      BY WriteSends
    <2>2. wire[lent[t]] \o w \in Seq(Units)
      BY <1>3, ConcatProperties
    <2>3. QED
      BY <2>1, <2>2 DEF ClientInv, Typed, TypeOK
  <1>6. sent' \in [Tasks -> Nat]
    <2>1. \/ sent' = sent
          \/ \E a \in Answers(op[t]) : sent' = [sent EXCEPT ![t] = Len(a)]
      BY WriteSends
    <2>2. \A a \in Answers(op[t]) : a \in Seq(Shapes)
      BY <1>3, AnswersFit DEF Fits
    <2>3. \A a \in Answers(op[t]) : Len(a) \in Nat
      BY <2>2, LenProperties
    <2>4. QED
      BY <2>1, <2>3 DEF ClientInv, Typed, TypeOK
  <1>7. broken' \subseteq Conns
    BY <1>3 DEF Write, ClientInv, Typed, TypeOK
  <1>8. Typed'
    BY <1>1, <1>4, <1>5, <1>6, <1>7 DEF ClientInv, Typed, TypeOK, poolVars
  <1>9. Working'
    <2>1. \A u \in Tasks : left'[u] = IF u = t THEN RepliesOf(op[t]) ELSE left[u]
      BY <1>1 DEF ClientInv, Typed, TypeOK
    <2>2. QED
      BY <1>1, <1>2, <1>4, <2>1 DEF ClientInv, Working
  <1>10. Owners'
    BY <1>1, <1>2, OwnersFrame DEF ClientInv, poolVars
  <1>11. Buffered'
    BY <1>1, <1>2 DEF ClientInv, Buffered, poolVars
  <1>12. QED
    BY <1>8, <1>9, <1>10, <1>11 DEF ClientInv

-----------------------------------------------------------------------------
(* The end of an operation                                                   *)

\* Task t drops its guard: the connection is closed or on its way back, in both
\* cases with an empty BufReader, and the other connections are not touched.
Drops(t) ==
  /\ pc' = [pc EXCEPT ![t] = "rest"]
  /\ lent' = [lent EXCEPT ![t] = NoConn]
  /\ returning' \in {returning, returning \cup {lent[t]}}
  /\ UNCHANGED <<closed, idle, removed>>
  /\ rdbuf' \in [Conns -> Seq(Units)]
  /\ \A c \in Conns : rdbuf'[c] = IF c = lent[t] THEN <<>> ELSE rdbuf[c]
  /\ wire' \in [Conns -> Seq(Units)]
  /\ \A c \in Conns \ {lent[t]} : wire'[c] = wire[c]
  /\ broken' \subseteq broken
  /\ torn' \subseteq torn \cup {lent[t]}

\* ClientInv survives the end of an operation.
LEMMA DropStep ==
  ASSUME ClientInv, NEW t \in Tasks, pc[t] \in {"write", "read"}, Drops(t),
         UNCHANGED <<cmds, op, issued>>,
         result' \in [Tasks -> Results], sent' \in [Tasks -> Nat],
         left' \in [Tasks -> Nat], open' \in [Tasks -> 0..MaxBatch],
         got' \in [Tasks -> Seq((0..MaxOps) \X Nat)],
         \A u \in Tasks \ {t} : left'[u] = left[u]
  PROVE  ClientInv'
  <1>1. lent[t] \in Conns /\ lent[t] # NoConn
    BY LentConn
  <1>2. \A u \in Tasks : /\ pc'[u] = IF u = t THEN "rest" ELSE pc[u]
                         /\ lent'[u] = IF u = t THEN NoConn ELSE lent[u]
    BY DEF Drops, ClientInv, Typed, TypeOK
  <1>3. Typed'
    <2>1. lent' \in [Tasks -> Conns \cup {NoConn}]
          /\ pc' \in [Tasks -> {"rest", "get", "write", "read"}]
      BY DEF Drops, ClientInv, Typed, TypeOK
    <2>2. broken' \subseteq Conns /\ torn' \subseteq Conns
          /\ idle' \in SUBSET Conns /\ returning' \in SUBSET Conns
      BY <1>1 DEF Drops, ClientInv, Typed, TypeOK
    <2>3. rdbuf' \in [Conns -> Seq(Units)] /\ wire' \in [Conns -> Seq(Units)]
      BY DEF Drops
    <2>4. /\ cmds' \in [Tasks -> 0..MaxBatch] /\ issued' \in 0..MaxOps
          /\ op' \in [Tasks -> {NoOp} \cup [kind : Ops, n : 0..MaxBatch \cup {1},
                                            id : 1..MaxOps]]
      BY DEF ClientInv, Typed, TypeOK
    <2>5. QED
      BY <2>1, <2>2, <2>3, <2>4 DEF Typed, TypeOK
  <1>4. Working'
    BY <1>2 DEF ClientInv, Working
  <1>5. Owners'
    <2>1. \A u \in Tasks : u # t => lent[u] # lent[t]
      BY <1>1 DEF ClientInv, Owners
    <2>2. \A u \in Tasks : lent'[u] \notin idle' \cup returning'
      BY <1>1, <1>2, <2>1, NoConnAssumption DEF Drops, ClientInv, Owners, Typed
    <2>3. idle' \cap returning' = {}
      BY DEF Drops, ClientInv, Owners
    <2>4. \A u \in Tasks : pc'[u] \in {"write", "read"} <=> lent'[u] # NoConn
      BY <1>2 DEF ClientInv, Owners
    <2>5. \A u, v \in Tasks : u # v /\ lent'[u] = lent'[v] => lent'[u] = NoConn
      BY <1>2 DEF ClientInv, Owners
    <2>6. QED
      BY <2>2, <2>3, <2>4, <2>5 DEF Owners, Drops, ClientInv
  <1>6. Buffered'
    <2>1. ASSUME NEW c \in Conns, rdbuf'[c] # <<>>
          PROVE  \E u \in Tasks : pc'[u] = "read" /\ lent'[u] = c
      <3>1. c # lent[t] /\ rdbuf[c] # <<>>
        BY <2>1 DEF Drops
      <3>2. PICK u \in Tasks : pc[u] = "read" /\ lent[u] = c
        BY <3>1 DEF ClientInv, Buffered
      <3>3. QED
        BY <1>2, <3>1, <3>2
    <2>2. QED
      BY <2>1 DEF Buffered
  <1>7. QED
    BY <1>3, <1>4, <1>5, <1>6 DEF ClientInv

\* What Finish does, on either branch.
LEMMA FinishDrops ==
  ASSUME ClientInv, NEW t \in Tasks, pc[t] \in {"write", "read"},
         NEW res \in Results, NEW buf \in Seq(Units), Finish(t, res, buf)
  PROVE  /\ Drops(t)
         /\ result' = [result EXCEPT ![t] = res]
         /\ result' \in [Tasks -> Results]
         /\ wire'[lent[t]] \in {wire[lent[t]], <<>>}
         /\ torn' \subseteq torn
         /\ buf # <<>> => wire'[lent[t]] = <<>>
  <1> DEFINE c == lent[t]
  <1>1. c \in Conns /\ wire \in [Conns -> Seq(Units)] /\ rdbuf \in [Conns -> Seq(Units)]
    BY LentConn DEF ClientInv, Typed, TypeOK
  <1>2. /\ result' = [result EXCEPT ![t] = res]
        /\ result' \in [Tasks -> Results]
        /\ pc' = [pc EXCEPT ![t] = "rest"]
    BY DEF Finish, ClientInv, Typed, TypeOK
  <1>3. CASE buf = <<>>
    <2>1. /\ Pool!GiveBack(t)
          /\ rdbuf' = [rdbuf EXCEPT ![c] = <<>>]
          /\ UNCHANGED <<wire, broken, torn>>
      BY <1>3 DEF Finish, KeepsConn
    <2>2. /\ lent' = [lent EXCEPT ![t] = NoConn]
          /\ returning' = returning \cup {c}
          /\ UNCHANGED <<closed, idle, removed>>
      BY <2>1 DEF Pool!GiveBack, Pool!Release
    <2>3. /\ rdbuf' \in [Conns -> Seq(Units)]
          /\ \A d \in Conns : rdbuf'[d] = IF d = c THEN <<>> ELSE rdbuf[d]
      BY <1>1, <2>1
    <2>4. QED
      BY <1>1, <1>2, <1>3, <2>1, <2>2, <2>3 DEF Drops
  <1>4. CASE buf # <<>>
    <2>1. Pool!Discard(t) /\ CloseSockets({c})
      BY <1>4 DEF Finish, KeepsConn
    <2>2. /\ lent' = [lent EXCEPT ![t] = NoConn]
          /\ UNCHANGED <<closed, idle, removed, returning>>
      BY <2>1 DEF Pool!Discard, Pool!Release
    <2>3. /\ rdbuf' \in [Conns -> Seq(Units)]
          /\ \A d \in Conns : rdbuf'[d] = IF d = c THEN <<>> ELSE rdbuf[d]
      BY <1>1, <2>1 DEF CloseSockets
    <2>4. /\ wire' \in [Conns -> Seq(Units)]
          /\ \A d \in Conns : wire'[d] = IF d = c THEN <<>> ELSE wire[d]
      BY <1>1, <2>1 DEF CloseSockets
    <2>5. broken' \subseteq broken /\ torn' \subseteq torn
      BY <2>1 DEF CloseSockets
    <2>6. QED
      BY <1>1, <1>2, <2>2, <2>3, <2>4, <2>5 DEF Drops
  <1>5. QED
    BY <1>3, <1>4

\* An operation that ends without another unit: a failed write, the end of the
\* stream, a timeout or a dropped future.
LEMMA GiveUpStep ==
  ASSUME ClientInv, NEW t \in Tasks, pc[t] \in {"write", "read"},
         NEW res \in Results, Finish(t, res, rdbuf[lent[t]]),
         UNCHANGED <<cmds, op, left, open, got, sent, issued>>
  PROVE  ClientInv'
  <1>1. rdbuf[lent[t]] \in Seq(Units)
    BY LentConn
  <1>2. Drops(t) /\ result' \in [Tasks -> Results]
    BY <1>1, FinishDrops
  <1>3. QED
    BY <1>2, DropStep DEF ClientInv, Typed, TypeOK

LEMMA GiveUpSteps ==
  ASSUME ClientInv, NEW t \in Tasks, WriteErr(t) \/ ReadEof(t) \/ AbandonRead(t)
  PROVE  ClientInv'
  <1>1. pc[t] \in {"write", "read"}
        /\ UNCHANGED <<cmds, op, left, open, got, sent, issued>>
        /\ \E res \in Results : Finish(t, res, rdbuf[lent[t]])
    BY DEF WriteErr, ReadEof, AbandonRead, Results
  <1>2. QED
    BY <1>1, GiveUpStep

\* A write that is given up half way leaves on the wire the first units of an
\* answer, fewer than a whole one has.
LEMMA AbandonWriteDrops ==
  ASSUME ClientInv, NEW t \in Tasks, AbandonWrite(t)
  PROVE  /\ Drops(t)
         /\ pc[t] = "write"
         /\ result' = [result EXCEPT ![t] = "abandoned"]
         /\ sent' \in [Tasks -> Nat] /\ \A u \in Tasks \ {t} : sent'[u] = sent[u]
         /\ UNCHANGED <<cmds, op, left, open, got, issued>>
         /\ \/ wire'[lent[t]] \in {wire[lent[t]], <<>>}
            \/ \E s \in Seq(Shapes) :
                 wire'[lent[t]] = wire[lent[t]] \o Tagged(op[t].id, s)
  <1> DEFINE c == lent[t]
  <1>1. pc[t] = "write" /\ UNCHANGED <<cmds, op, left, open, got, issued>>
    BY DEF AbandonWrite
  <1>2. /\ c \in Conns /\ wire[c] \in Seq(Units) /\ Busy(op[t])
        /\ op[t].id \in 0..MaxOps /\ rdbuf[c] \in Seq(Units)
        /\ wire \in [Conns -> Seq(Units)] /\ rdbuf \in [Conns -> Seq(Units)]
        /\ sent \in [Tasks -> Nat] /\ "abandoned" \in Results
    BY <1>1, LentConn DEF ClientInv, Typed, TypeOK, Results
  <1>3. CASE c \in broken \cup torn
    <2>1. Finish(t, "abandoned", rdbuf[c]) /\ UNCHANGED sent
      BY <1>3 DEF AbandonWrite
    <2>2. /\ Drops(t) /\ result' = [result EXCEPT ![t] = "abandoned"]
          /\ wire'[c] \in {wire[c], <<>>}
      BY <1>1, <1>2, <2>1, FinishDrops
    <2>3. QED
      BY <1>1, <1>2, <2>1, <2>2
  <1>4. CASE c \notin broken \cup torn
    <2>1. /\ pc' = [pc EXCEPT ![t] = "rest"]
          /\ result' = [result EXCEPT ![t] = "abandoned"]
          /\ Pool!GiveBack(t)
          /\ torn' \in {torn, torn \cup {c}}
          /\ UNCHANGED <<rdbuf, broken>>
      BY <1>4 DEF AbandonWrite
    <2>2. PICK k \in 0..(RepliesOf(op[t]) - 1), a \in Answers(op[t]) :
            /\ wire' = [wire EXCEPT ![c] = @ \o Tagged(op[t].id, SubSeq(a, 1, k))]
            /\ sent' = [sent EXCEPT ![t] = k]
      BY <1>4 DEF AbandonWrite
    <2>3. /\ lent' = [lent EXCEPT ![t] = NoConn]
          /\ returning' = returning \cup {c}
          /\ UNCHANGED <<closed, idle, removed>>
      BY <2>1 DEF Pool!GiveBack, Pool!Release
    <2>4. Fits(a, RepliesOf(op[t]))
      BY <1>2, AnswersFit
    <2>5. a \in Seq(Shapes) /\ RepliesOf(op[t]) \in 1..Len(a) /\ Len(a) \in Nat
      BY <2>4, LenProperties DEF Fits
    <2>6. k \in 0..Len(a) /\ k \in Nat
      BY <2>5
    <2>7. SubSeq(a, 1, k) \in Seq(Shapes)
      BY <2>5, <2>6, SubSeqProperties
    <2>8. Tagged(op[t].id, SubSeq(a, 1, k)) \in Seq(Units)
      BY <1>2, <2>7, TaggedUnits
    <2>9. wire[c] \o Tagged(op[t].id, SubSeq(a, 1, k)) \in Seq(Units)
      BY <1>2, <2>8, ConcatProperties
    <2>10. /\ wire' \in [Conns -> Seq(Units)]
           /\ \A d \in Conns \ {c} : wire'[d] = wire[d]
           /\ wire'[c] = wire[c] \o Tagged(op[t].id, SubSeq(a, 1, k))
      BY <1>2, <2>2, <2>9
    <2>11. sent' \in [Tasks -> Nat] /\ \A u \in Tasks \ {t} : sent'[u] = sent[u]
      BY <1>2, <2>2, <2>6
    <2>12. rdbuf[c] = <<>>
      BY <1>1, WritesEmpty DEF LentEmpty
    <2>13. Drops(t)
      BY <1>2, <2>1, <2>3, <2>10, <2>12 DEF Drops
    <2>14. QED
      BY <1>1, <2>1, <2>7, <2>10, <2>11, <2>13
  <1>5. QED
    BY <1>3, <1>4

LEMMA AbandonWriteStep ==
  ASSUME ClientInv, NEW t \in Tasks, AbandonWrite(t)
  PROVE  ClientInv'
  <1>1. /\ Drops(t) /\ pc[t] = "write" /\ result' = [result EXCEPT ![t] = "abandoned"]
        /\ sent' \in [Tasks -> Nat]
        /\ UNCHANGED <<cmds, op, left, open, got, issued>>
    BY AbandonWriteDrops
  <1>2. result' \in [Tasks -> Results]
    BY <1>1 DEF ClientInv, Typed, TypeOK, Results
  <1>3. QED
    BY <1>1, <1>2, DropStep DEF ClientInv, Typed, TypeOK

-----------------------------------------------------------------------------
(* Reading                                                                   *)

\* A step of a reading task that keeps its connection.
LEMMA ReadingStep ==
  ASSUME ClientInv, NEW t \in Tasks, pc[t] = "read",
         UNCHANGED <<poolVars, broken, torn, pc, result, cmds, op, sent, issued>>,
         wire' \in [Conns -> Seq(Units)], rdbuf' \in [Conns -> Seq(Units)],
         \A c \in Conns \ {lent[t]} : rdbuf'[c] = rdbuf[c],
         left' \in [Tasks -> Nat], open' \in [Tasks -> 0..MaxBatch],
         got' \in [Tasks -> Seq((0..MaxOps) \X Nat)],
         left'[t] >= 1, \A u \in Tasks \ {t} : left'[u] = left[u]
  PROVE  ClientInv'
  <1>1. Typed'
    BY DEF ClientInv, Typed, TypeOK, poolVars
  <1>2. Working'
    BY DEF ClientInv, Working
  <1>3. Owners'
    BY OwnersFrame DEF ClientInv, poolVars
  <1>4. Buffered'
    BY DEF ClientInv, Buffered, poolVars
  <1>5. QED
    BY <1>1, <1>2, <1>3, <1>4 DEF ClientInv

LEMMA FillStep ==
  ASSUME ClientInv, NEW t \in Tasks, Fill(t)
  PROVE  ClientInv'
  <1> DEFINE c == lent[t]
  <1>1. pc[t] = "read" /\ UNCHANGED <<poolVars, broken, torn, taskVars>>
    BY DEF Fill
  <1>2. /\ c \in Conns /\ wire[c] \in Seq(Units)
        /\ wire \in [Conns -> Seq(Units)] /\ rdbuf \in [Conns -> Seq(Units)]
    BY <1>1, LentConn DEF ClientInv, Typed, TypeOK
  <1>3. PICK n \in 1..Len(wire[c]) :
          /\ rdbuf' = [rdbuf EXCEPT ![c] = SubSeq(wire[c], 1, n)]
          /\ wire' = [wire EXCEPT ![c] = SubSeq(wire[c], n + 1, Len(wire[c]))]
    BY DEF Fill
  <1>4. Len(wire[c]) \in Nat
    BY <1>2, LenProperties
  <1>5. SubSeq(wire[c], 1, n) \in Seq(Units)
    BY <1>2, <1>4, SubSeqProperties
  <1>6. SubSeq(wire[c], n + 1, Len(wire[c])) \in Seq(Units)
    BY <1>2, <1>4, SubSeqProperties
  <1>7. /\ wire' \in [Conns -> Seq(Units)] /\ rdbuf' \in [Conns -> Seq(Units)]
        /\ \A d \in Conns \ {c} : rdbuf'[d] = rdbuf[d]
    BY <1>2, <1>3, <1>5, <1>6
  <1>8. left'[t] >= 1
    BY <1>1 DEF taskVars, ClientInv, Working
  <1>9. QED
    BY <1>1, <1>7, <1>8, ReadingStep DEF taskVars, ClientInv, Typed, TypeOK

\* What a parsed unit does to the task's counters, whether or not it ends the
\* operation.
LEMMA ParseCounts ==
  ASSUME ClientInv, NEW t \in Tasks, Parse(t)
  PROVE  LET u == Head(rdbuf[lent[t]]) IN
         /\ pc[t] = "read" /\ rdbuf[lent[t]] # <<>>
         /\ u \in Units /\ Tail(rdbuf[lent[t]]) \in Seq(Units)
         /\ left[t] \in Nat \ {0} /\ open[t] \in 0..MaxBatch
         /\ left' \in [Tasks -> Nat] /\ open' \in [Tasks -> 0..MaxBatch]
         /\ got' \in [Tasks -> Seq((0..MaxOps) \X Nat)]
         /\ left'[t] = IF EndsReply(t, u) THEN left[t] - 1 ELSE left[t]
         /\ open'[t] = ElementsLeft(t, u)
         /\ got'[t] = Append(got[t], <<u.op, u.i>>) /\ got'[t] # <<>>
         /\ \A v \in Tasks \ {t} :
              left'[v] = left[v] /\ open'[v] = open[v] /\ got'[v] = got[v]
         /\ UNCHANGED <<cmds, op, sent, issued>>
  <1> DEFINE c == lent[t]
             u == Head(rdbuf[c])
  <1>1. /\ pc[t] = "read" /\ rdbuf[c] # <<>>
        /\ got' = [got EXCEPT ![t] = Append(@, <<u.op, u.i>>)]
        /\ open' = [open EXCEPT ![t] = ElementsLeft(t, u)]
        /\ left' = [left EXCEPT ![t] = IF EndsReply(t, u) THEN @ - 1 ELSE @]
        /\ UNCHANGED <<cmds, op, sent, issued>>
    BY DEF Parse
  <1>2. rdbuf[c] \in Seq(Units)
    BY <1>1, LentConn
  <1>3. u \in Units /\ Tail(rdbuf[c]) \in Seq(Units)
    BY <1>1, <1>2, HeadTailProperties
  <1>4. left[t] \in Nat \ {0} /\ open[t] \in 0..MaxBatch
    BY <1>1 DEF ClientInv, Working, Typed, TypeOK
  <1>5. /\ u.op \in 0..MaxOps /\ u.i \in Nat /\ u.n \in 0..MaxBatch
    BY <1>3 DEF Units
  <1> HIDE DEF u
  <1>6. ElementsLeft(t, u) \in 0..MaxBatch
    BY <1>4, <1>5, BoundsAssumption DEF ElementsLeft
  <1>7. /\ open' \in [Tasks -> 0..MaxBatch] /\ open'[t] = ElementsLeft(t, u)
        /\ \A v \in Tasks \ {t} : open'[v] = open[v]
    BY <1>1, <1>6 DEF ClientInv, Typed, TypeOK
  <1>8. /\ left' \in [Tasks -> Nat]
        /\ left'[t] = IF EndsReply(t, u) THEN left[t] - 1 ELSE left[t]
        /\ \A v \in Tasks \ {t} : left'[v] = left[v]
    BY <1>1, <1>4 DEF ClientInv, Typed, TypeOK
  <1>9. /\ Append(got[t], <<u.op, u.i>>) \in Seq((0..MaxOps) \X Nat)
        /\ Append(got[t], <<u.op, u.i>>) # <<>>
    <2> DEFINE e == <<u.op, u.i>>
    <2>1. e \in (0..MaxOps) \X Nat /\ got[t] \in Seq((0..MaxOps) \X Nat)
      BY <1>5 DEF ClientInv, Typed, TypeOK
    <2> HIDE DEF e
    <2>2. Append(got[t], e) \in Seq((0..MaxOps) \X Nat) /\ Append(got[t], e) # <<>>
      BY <2>1, AppendProperties
    <2>3. QED
      BY <2>2 DEF e
  <1>10. /\ got' \in [Tasks -> Seq((0..MaxOps) \X Nat)]
         /\ got'[t] = Append(got[t], <<u.op, u.i>>) /\ got'[t] # <<>>
         /\ \A v \in Tasks \ {t} : got'[v] = got[v]
    BY <1>1, <1>9 DEF ClientInv, Typed, TypeOK
  <1>11. QED
    BY <1>1, <1>3, <1>4, <1>7, <1>8, <1>10 DEF u

LEMMA ParseStep ==
  ASSUME ClientInv, NEW t \in Tasks, Parse(t)
  PROVE  ClientInv'
  <1> DEFINE c    == lent[t]
             u    == Head(rdbuf[c])
             last == EndsReply(t, u) /\ left[t] = 1
  <1>1. /\ pc[t] = "read" /\ rdbuf[c] # <<>>
        /\ u \in Units /\ Tail(rdbuf[c]) \in Seq(Units)
        /\ left[t] \in Nat \ {0}
        /\ left' \in [Tasks -> Nat] /\ open' \in [Tasks -> 0..MaxBatch]
        /\ got' \in [Tasks -> Seq((0..MaxOps) \X Nat)]
        /\ left'[t] = IF EndsReply(t, u) THEN left[t] - 1 ELSE left[t]
        /\ \A v \in Tasks \ {t} : left'[v] = left[v]
        /\ UNCHANGED <<cmds, op, sent, issued>>
    BY ParseCounts
  <1>2. c \in Conns
    BY <1>1, LentConn
  <1>3. CASE FailsOp(t, u) \/ last
    <2>1. PICK res \in {"reply_err", "ok"} : Finish(t, res, Tail(rdbuf[c]))
      BY <1>3 DEF Parse
    <2>2. res \in Results
      BY DEF Results
    <2>3. Drops(t) /\ result' \in [Tasks -> Results]
      BY <1>1, <2>1, <2>2, FinishDrops
    <2>4. sent' \in [Tasks -> Nat]
      BY <1>1 DEF ClientInv, Typed, TypeOK
    <2>5. QED
      BY <1>1, <2>3, <2>4, DropStep
  <1>4. CASE ~(FailsOp(t, u) \/ last)
    <2>1. /\ rdbuf' = [rdbuf EXCEPT ![c] = Tail(@)]
          /\ UNCHANGED <<poolVars, wire, broken, torn, pc, result>>
      BY <1>4 DEF Parse
    <2>2. left'[t] >= 1
      BY <1>1, <1>4
    <2>3. rdbuf' \in [Conns -> Seq(Units)] /\ \A d \in Conns \ {c} : rdbuf'[d] = rdbuf[d]
      BY <1>1, <1>2, <2>1 DEF ClientInv, Typed, TypeOK
    <2>4. wire' \in [Conns -> Seq(Units)]
      BY <2>1 DEF ClientInv, Typed, TypeOK
    <2>5. QED
      BY <1>1, <2>1, <2>2, <2>3, <2>4, ReadingStep
  <1>5. QED
    BY <1>3, <1>4

-----------------------------------------------------------------------------
(* Steps of the pool and of the other end                                    *)

LEMMA SocketsClosed ==
  ASSUME ClientInv, NEW C \in SUBSET Conns, CloseSockets(C),
         \A t \in Tasks : lent[t] \notin C
  PROVE  /\ wire' \in [Conns -> Seq(Units)] /\ rdbuf' \in [Conns -> Seq(Units)]
         /\ broken' \subseteq Conns /\ torn' \subseteq Conns
         /\ \A c \in Conns : rdbuf'[c] = rdbuf[c]
         /\ \A c \in Conns : wire'[c] = IF c \in C THEN <<>> ELSE wire[c]
  <1>1. wire' \in [Conns -> Seq(Units)] /\ rdbuf' \in [Conns -> Seq(Units)]
    BY DEF CloseSockets, ClientInv, Typed, TypeOK
  <1>2. broken' \subseteq Conns /\ torn' \subseteq Conns
    BY DEF CloseSockets, ClientInv, Typed, TypeOK
  <1>3. \A c \in Conns : rdbuf'[c] = IF c \in C THEN <<>> ELSE rdbuf[c]
    BY DEF CloseSockets
  <1>4. \A c \in C : rdbuf[c] = <<>>
    BY DEF ClientInv, Buffered
  <1>5. \A c \in Conns : wire'[c] = IF c \in C THEN <<>> ELSE wire[c]
    BY DEF CloseSockets
  <1>6. QED
    BY <1>1, <1>2, <1>3, <1>4, <1>5

\* A step that only moves connections nobody holds.
LEMMA PoolStep ==
  ASSUME ClientInv, UNCHANGED <<lent, removed, taskVars>>,
         idle' \in SUBSET Conns, returning' \in SUBSET Conns,
         idle' \cup returning' \subseteq idle \cup returning,
         idle' \cap returning' = {},
         wire' \in [Conns -> Seq(Units)], rdbuf' \in [Conns -> Seq(Units)],
         broken' \subseteq Conns, torn' \subseteq Conns,
         \A c \in Conns : rdbuf'[c] = rdbuf[c]
  PROVE  ClientInv'
  <1>1. Typed'
    BY DEF ClientInv, Typed, TypeOK, taskVars
  <1>2. Working'
    BY DEF ClientInv, Working, taskVars
  <1>3. Owners'
    BY DEF ClientInv, Owners, taskVars
  <1>4. Buffered'
    BY DEF ClientInv, Buffered, taskVars
  <1>5. QED
    BY <1>1, <1>2, <1>3, <1>4 DEF ClientInv

LEMMA PoolSteps ==
  ASSUME ClientInv,
         (\E c \in Conns : Settle(c) \/ Reap(c)) \/ CloseBegins \/ CloseEnds
  PROVE  ClientInv'
  <1>1. /\ \A t \in Tasks : lent[t] \notin idle \cup returning
        /\ idle \in SUBSET Conns /\ returning \in SUBSET Conns
        /\ idle \cap returning = {}
    BY DEF ClientInv, Owners, Typed
  <1>2. CASE CloseBegins \/ \E c \in Conns : Settle(c)
    <2>1. UNCHANGED <<lent, removed, connVars, taskVars>>
      BY <1>2 DEF CloseBegins, Settle, Pool!SetClosed, Pool!Settle
    <2>2. /\ idle' \in SUBSET Conns /\ returning' \in SUBSET Conns
          /\ idle' \cup returning' \subseteq idle \cup returning
          /\ idle' \cap returning' = {}
      BY <1>1, <1>2 DEF CloseBegins, Settle, Pool!SetClosed, Pool!Settle
    <2>3. QED
      BY <2>1, <2>2, PoolStep DEF connVars, ClientInv, Typed, TypeOK
  <1>3. ASSUME NEW C \in SUBSET Conns, CloseSockets(C), C \subseteq idle \cup returning,
               UNCHANGED <<lent, removed, taskVars>>,
               idle' \subseteq idle, returning' \subseteq returning
        PROVE  ClientInv'
    <2>1. \A t \in Tasks : lent[t] \notin C
      BY <1>1, <1>3
    <2>2. /\ wire' \in [Conns -> Seq(Units)] /\ rdbuf' \in [Conns -> Seq(Units)]
          /\ broken' \subseteq Conns /\ torn' \subseteq Conns
          /\ \A c \in Conns : rdbuf'[c] = rdbuf[c]
      BY <1>3, <2>1, SocketsClosed
    <2>3. /\ idle' \in SUBSET Conns /\ returning' \in SUBSET Conns
          /\ idle' \cup returning' \subseteq idle \cup returning
          /\ idle' \cap returning' = {}
      BY <1>1, <1>3
    <2>4. QED
      BY <1>3, <2>2, <2>3, PoolStep
  <1>4. ASSUME NEW c \in Conns, Reap(c)
        PROVE  ClientInv'
    <2>1. CloseSockets({c}) /\ UNCHANGED taskVars /\ {c} \in SUBSET Conns
      BY <1>4 DEF Reap
    <2>2. /\ UNCHANGED <<lent, removed>> /\ {c} \subseteq idle \cup returning
          /\ idle' \subseteq idle /\ returning' \subseteq returning
      BY <1>4 DEF Reap, Pool!DropReturning, Pool!Evict
    <2>3. QED
      BY <1>3, <2>1, <2>2
  <1>5. CASE CloseEnds
    <2>1. CloseSockets(idle) /\ UNCHANGED taskVars
      BY <1>5 DEF CloseEnds
    <2>2. /\ UNCHANGED <<lent, removed>>
          /\ idle' \subseteq idle /\ returning' \subseteq returning
      BY <1>5 DEF CloseEnds, Pool!ClearIdle
    <2>3. QED
      BY <1>1, <1>3, <2>1, <2>2
  <1>6. QED
    BY <1>2, <1>4, <1>5

LEMMA BreakStep ==
  ASSUME ClientInv, NEW c \in Conns, Break(c)
  PROVE  ClientInv'
  <1>1. broken' \subseteq Conns /\ UNCHANGED <<poolVars, rdbuf, torn, taskVars>>
    BY DEF Break, ClientInv, Typed, TypeOK
  <1>2. PICK rest \in CutOff(wire[c]) : wire' = [wire EXCEPT ![c] = rest]
    BY DEF Break
  <1>3. wire[c] \in Seq(Units)
    BY DEF ClientInv, Typed, TypeOK
  <1>4. rest \in Seq(Units)
    BY <1>3, CutOffUnits
  <1>5. wire' \in [Conns -> Seq(Units)]
    BY <1>2, <1>4 DEF ClientInv, Typed, TypeOK
  <1>6. UNCHANGED <<lent, removed, taskVars, idle, returning>>
    BY <1>1 DEF poolVars
  <1>7. QED
    BY <1>1, <1>5, <1>6, PoolStep DEF ClientInv, Typed, TypeOK, Owners

-----------------------------------------------------------------------------
(* Theorems                                                                  *)

LEMMA ClientNext == ClientInv /\ [Next]_vars => ClientInv'
  <1> SUFFICES ASSUME ClientInv, [Next]_vars PROVE ClientInv'
    OBVIOUS
  <1>1. ASSUME NEW t \in Tasks, Queue(t) \/ Clear(t)
        PROVE  ClientInv'
    BY <1>1, QueueStep
  <1>2. ASSUME NEW t \in Tasks, NEW kind \in Ops, Start(t, kind)
        PROVE  ClientInv'
    BY <1>2, StartStep
  <1>3. ASSUME NEW t \in Tasks, (\E c \in Conns : Acquire(t, c)) \/ AcquireErr(t)
        PROVE  ClientInv'
    BY <1>3, AcquireStep
  <1>4. ASSUME NEW t \in Tasks, Write(t)
        PROVE  ClientInv'
    BY <1>4, WriteStep
  <1>5. ASSUME NEW t \in Tasks, AbandonWrite(t)
        PROVE  ClientInv'
    BY <1>5, AbandonWriteStep
  <1>6. ASSUME NEW t \in Tasks, WriteErr(t) \/ ReadEof(t) \/ AbandonRead(t)
        PROVE  ClientInv'
    BY <1>6, GiveUpSteps
  <1>7. ASSUME NEW t \in Tasks, Fill(t)
        PROVE  ClientInv'
    BY <1>7, FillStep
  <1>8. ASSUME NEW t \in Tasks, Parse(t)
        PROVE  ClientInv'
    BY <1>8, ParseStep
  <1>9. CASE (\E c \in Conns : Settle(c) \/ Reap(c)) \/ CloseBegins \/ CloseEnds
    BY <1>9, PoolSteps
  <1>10. ASSUME NEW c \in Conns, Break(c)
         PROVE  ClientInv'
    BY <1>10, BreakStep
  <1>11. CASE UNCHANGED vars
    BY <1>11 DEF vars, poolVars, connVars, taskVars, ClientInv, Typed, TypeOK,
                 Working, Owners, Buffered
  <1>12. QED
    BY <1>1, <1>2, <1>3, <1>4, <1>5, <1>6, <1>7, <1>8, <1>9, <1>10, <1>11
       DEF Next, ReadStep

\* The invariant holds in every reachable state of the client, whatever is
\* abandoned and whatever breaks.
THEOREM ClientInvariant == Spec => []ClientInv
  <1>1. Init => ClientInv
    BY ClientInit
  <1>2. ClientInv /\ [Next]_vars => ClientInv'
    BY ClientNext
  <1>3. QED
    BY <1>1, <1>2, PTL DEF Spec

\* Types: in particular the counts of replies and of array elements that a task
\* has still to read never go below zero.
THEOREM TypeCorrect == Spec => []TypeOK
  <1>1. ClientInv => TypeOK
    BY DEF ClientInv, Typed
  <1>2. QED
    BY <1>1, ClientInvariant, PTL

\* PoolGuard::drop and the exclusive guard together: get() never hands out a
\* connection whose BufReader still holds a part of an earlier reply.
THEOREM HandedOutEmpty == Spec => []LentEmpty
  BY WritesEmpty, ClientInvariant, PTL
=============================================================================
