----------------------------- MODULE Resp_proofs -----------------------------
(* How the parser takes lines and bulk strings off a stream whose bytes      *)
(* arrive in chunks, for every stream, chunk size and limit.                 *)
EXTENDS Resp, Induction, SequenceTheorems

-----------------------------------------------------------------------------
(* Numbers in texts                                                          *)

LEMMA DigitType ==
  ASSUME NEW b \in Range(Digits)
  PROVE  DigitValue(b) \in 0..9
  <1>1. Range(Digits) = {"0", "1", "2", "3", "4", "5", "6", "7", "8", "9"}
    BY DEF Range, Digits
  <1>2. \E j \in 1..10 : Digits[j] = b
    <2>1. /\ Digits[1] = "0" /\ Digits[2] = "1" /\ Digits[3] = "2" /\ Digits[4] = "3"
          /\ Digits[5] = "4" /\ Digits[6] = "5" /\ Digits[7] = "6" /\ Digits[8] = "7"
          /\ Digits[9] = "8" /\ Digits[10] = "9"
      BY DEF Digits
    <2>2. \A j \in {1, 2, 3, 4, 5, 6, 7, 8, 9, 10} : j \in 1..10
      OBVIOUS
    <2>3. QED
      BY <1>1, <2>1, <2>2
  <1>3. (CHOOSE j \in 1..10 : Digits[j] = b) \in 1..10
    BY <1>2
  <1>4. QED
    BY <1>3 DEF DigitValue

\* v holds the values of the first n digits of s, and fewer.
Counts(v, s, n) ==
  v = [m \in 0..n |-> IF m = 0 THEN 0 ELSE 10 * v[m - 1] + DigitValue(s[m])]

LEMMA CountsExist ==
  ASSUME NEW s, NEW n \in Nat
  PROVE  \E v : Counts(v, s, n)
  <1> DEFINE T == {k \in Nat : \E v : Counts(v, s, k)}
  <1>1. 0 \in T
    <2>1. Counts([m \in 0..0 |-> 0], s, 0)
      BY DEF Counts
    <2>2. QED
      BY <2>1
  <1>2. ASSUME NEW k \in T
        PROVE  k + 1 \in T
    <2>1. k \in Nat
      OBVIOUS
    <2>2. PICK v : Counts(v, s, k)
      OBVIOUS
    <2> DEFINE w == [m \in 0..(k + 1) |->
                       IF m \in 0..k THEN v[m] ELSE 10 * v[k] + DigitValue(s[k + 1])]
    <2>3. /\ \A m \in 0..(k + 1) : m \in 0..k \/ m = k + 1
          /\ \A m \in 0..k : m # 0 => m - 1 \in 0..k
          /\ k + 1 \notin 0..k /\ k + 1 # 0 /\ (k + 1) - 1 = k /\ k \in 0..k
      BY <2>1
    <2>4. \A m \in 0..k : v[m] = IF m = 0 THEN 0 ELSE 10 * v[m - 1] + DigitValue(s[m])
      BY <2>2 DEF Counts
    <2>5. \A m \in 0..(k + 1) :
            w[m] = IF m = 0 THEN 0 ELSE 10 * w[m - 1] + DigitValue(s[m])
      <3> SUFFICES ASSUME NEW m \in 0..(k + 1)
                   PROVE  w[m] = IF m = 0 THEN 0 ELSE 10 * w[m - 1] + DigitValue(s[m])
        OBVIOUS
      <3>1. CASE m \in 0..k
        <4>1. m - 1 \in 0..(k + 1) \/ m = 0
          BY <2>1
        <4>2. w[m] = v[m] /\ (m # 0 => w[m - 1] = v[m - 1])
          BY <2>3, <3>1, <4>1
        <4>3. QED
          BY <2>4, <3>1, <4>2
      <3>2. CASE m = k + 1
        <4>1. k \in 0..(k + 1)
          BY <2>1
        <4>2. w[m] = 10 * v[k] + DigitValue(s[k + 1]) /\ w[k] = v[k]
          BY <2>3, <3>2, <4>1
        <4>3. QED
          BY <2>3, <3>2, <4>2
      <3>3. QED
        BY <2>3, <3>1, <3>2
    <2>6. w = [m \in 0..(k + 1) |-> w[m]]
      OBVIOUS
    <2> HIDE DEF w
    <2>7. Counts(w, s, k + 1)
      BY <2>5, <2>6 DEF Counts
    <2>8. QED
      BY <2>1, <2>7
  <1>3. T = Nat
    <2>1. T \in SUBSET Nat
      OBVIOUS
    <2> HIDE DEF T
    <2>2. QED
      BY <1>1, <1>2, <2>1, SetInduction
  <1>4. QED
    BY <1>3

LEMMA DecimalType ==
  ASSUME NEW s, Len(s) \in Nat, DOMAIN s = 1..Len(s), IsDecimal(s)
  PROVE  Decimal(s) \in Nat
  <1> DEFINE n == Len(s)
             v == CHOOSE f : Counts(f, s, n)
  <1>1. Decimal(s) = v[n]
    BY DEF Decimal, Counts
  <1>2. Counts(v, s, n)
    BY CountsExist
  <1>3. \A m \in 1..n : DigitValue(s[m]) \in 0..9
    BY DigitType DEF IsDecimal
  <1> HIDE DEF v
  <1> DEFINE T == {m \in Nat : m <= n => v[m] \in Nat}
  <1>4. 0 \in T
    BY <1>2 DEF Counts
  <1>5. ASSUME NEW m \in T
        PROVE  m + 1 \in T
    <2>1. SUFFICES ASSUME m + 1 <= n
                   PROVE  v[m + 1] \in Nat
      OBVIOUS
    <2>2. m \in Nat /\ v[m] \in Nat /\ m + 1 \in 0..n /\ m + 1 # 0 /\ (m + 1) - 1 = m
            /\ m + 1 \in 1..n
      BY <2>1
    <2>3. v[m + 1] = 10 * v[m] + DigitValue(s[m + 1])
      BY <1>2, <2>2 DEF Counts
    <2>4. DigitValue(s[m + 1]) \in Nat
      <3>1. DigitValue(s[m + 1]) \in 0..9
        BY <1>3, <2>2, Zenon
      <3>2. QED
        BY <3>1
    <2>5. ASSUME NEW x \in Nat, NEW y \in Nat
          PROVE  10 * x + y \in Nat
      OBVIOUS
    <2>6. QED
      BY <2>2, <2>3, <2>4, <2>5, Zenon
  <1>6. T = Nat
    <2>1. T \in SUBSET Nat
      OBVIOUS
    <2> HIDE DEF T
    <2>2. QED
      BY <1>4, <1>5, <2>1, SetInduction
  <1>7. QED
    BY <1>1, <1>6

LEMMA NumberType ==
  ASSUME NEW s \in Seq(STRING), IsNumber(s)
  PROVE  NumberOf(s) \in Int /\ (Head(s) # "-" => NumberOf(s) \in Nat)
  <1>1. CASE IsDecimal(s)
    <2>1. Decimal(s) \in Nat
      BY <1>1, DecimalType
    <2>2. s # <<>> /\ Head(s) \notin {"+", "-"}
      <3>1. s # <<>> /\ Head(s) \in Range(Digits)
        BY <1>1 DEF IsDecimal
      <3>2. Range(Digits) = {"0", "1", "2", "3", "4", "5", "6", "7", "8", "9"}
        BY DEF Range, Digits
      <3>3. QED
        BY <3>1, <3>2
    <2>3. QED
      BY <2>1, <2>2 DEF NumberOf
  <1>2. CASE s # <<>> /\ Head(s) \in {"+", "-"} /\ IsDecimal(Tail(s))
    <2>1. Tail(s) \in Seq(STRING)
      BY <1>2
    <2>2. Decimal(Tail(s)) \in Nat
      BY <1>2, <2>1, DecimalType
    <2>3. QED
      BY <1>2, <2>2 DEF NumberOf
  <1>3. QED
    BY <1>1, <1>2 DEF IsNumber

-----------------------------------------------------------------------------
(* What lines, bulk strings and results make of a call                       *)

IsStack(st) == \E S : st \in Seq(S)

\* A call between two tokens, or ended.
IsCall(c) ==
  /\ c.pc \in {"line", "bulk", "done", "panic"}
  /\ c.need \in Nat
  /\ IsStack(c.stack)

LEMMA CallIs ==
  ASSUME NEW st, NEW at, NEW n, NEW r
  PROVE  /\ Call(st, at, n, r).stack = st /\ Call(st, at, n, r).pc = at
         /\ Call(st, at, n, r).need = n /\ Call(st, at, n, r).out = r
  BY DEF Call

LEMMA EmptyStack == IsStack(<<>>)
  <1>1. <<>> \in Seq({})
    OBVIOUS
  <1>2. QED
    BY <1>1 DEF IsStack

LEMMA PushedStack ==
  ASSUME NEW st, IsStack(st), NEW f
  PROVE  IsStack(Append(st, f))
  <1>1. PICK S : st \in Seq(S)
    BY DEF IsStack
  <1>2. st \in Seq(S \cup {f})
    BY <1>1
  <1>3. Append(st, f) \in Seq(S \cup {f})
    BY <1>2
  <1>4. QED
    BY <1>3 DEF IsStack

LEMMA CutStack ==
  ASSUME NEW st, IsStack(st), NEW n \in 0..Len(st)
  PROVE  IsStack(SubSeq(st, 1, n))
  <1>1. PICK S : st \in Seq(S)
    BY DEF IsStack
  <1>2. SubSeq(st, 1, n) \in Seq(S)
    BY <1>1, SubSeqProperties
  <1>3. QED
    BY <1>2 DEF IsStack

LEMMA StackLength ==
  ASSUME NEW st, IsStack(st)
  PROVE  Len(st) \in Nat
  BY DEF IsStack

LEMMA HandedNotLong ==
  ASSUME NEW f, NEW r, r # TooLong
  PROVE  Handed(f, r) # TooLong
  <1>1. TooLong.ok = FALSE /\ Err # TooLong /\ Unfinished # TooLong
    BY DEF TooLong, Err, Unfinished
  <1>2. \A g : FrameResult(g) # TooLong
    BY <1>1 DEF FrameResult, Ok
  <1> DEFINE e == ElementOf(f, r)
  <1>3. CASE e = <<>>
    <2>1. Handed(f, r) = r
      BY <1>3 DEF Handed
    <2>2. QED
      BY <2>1
  <1>4. CASE e # <<>> /\ ~Accepts(f, e[1])
    <2>1. Handed(f, r) = Err
      BY <1>4 DEF Handed
    <2>2. QED
      BY <1>1, <2>1
  <1>5. CASE e # <<>> /\ Accepts(f, e[1])
    <2>1. Handed(f, r) \in {FrameResult(Took(f, e[1])), Unfinished}
      BY <1>5 DEF Handed
    <2>2. QED
      BY <1>1, <1>2, <2>1
  <1>6. QED
    BY <1>3, <1>4, <1>5

\* p holds what result r has become after 0..n frames of st.
Passes(p, st, r, n) ==
  p = [m \in 0..n |-> IF m = 0 THEN r ELSE Handed(st[Len(st) + 1 - m], p[m - 1])]

LEMMA PassesExist ==
  ASSUME NEW st, NEW r, NEW n \in Nat
  PROVE  \E p : Passes(p, st, r, n)
  <1> DEFINE F(m) == st[Len(st) + 1 - m]
             T == {k \in Nat : \E p : Passes(p, st, r, k)}
  <1>1. 0 \in T
    <2>1. Passes([m \in 0..0 |-> r], st, r, 0)
      BY DEF Passes
    <2>2. QED
      BY <2>1
  <1>2. ASSUME NEW k \in T
        PROVE  k + 1 \in T
    <2>1. k \in Nat
      OBVIOUS
    <2>2. PICK p : Passes(p, st, r, k)
      OBVIOUS
    <2> DEFINE w == [m \in 0..(k + 1) |->
                       IF m \in 0..k THEN p[m] ELSE Handed(F(k + 1), p[k])]
    <2>3. /\ \A m \in 0..(k + 1) : m \in 0..k \/ m = k + 1
          /\ \A m \in 0..k : m # 0 => m - 1 \in 0..k
          /\ k + 1 \notin 0..k /\ k + 1 # 0 /\ (k + 1) - 1 = k /\ k \in 0..k
      BY <2>1
    <2>4. \A m \in 0..k : p[m] = IF m = 0 THEN r ELSE Handed(F(m), p[m - 1])
      BY <2>2 DEF Passes
    <2> HIDE DEF F
    <2>5. \A m \in 0..(k + 1) : w[m] = IF m = 0 THEN r ELSE Handed(F(m), w[m - 1])
      <3> SUFFICES ASSUME NEW m \in 0..(k + 1)
                   PROVE  w[m] = IF m = 0 THEN r ELSE Handed(F(m), w[m - 1])
        OBVIOUS
      <3>1. CASE m \in 0..k
        <4>1. m - 1 \in 0..(k + 1) \/ m = 0
          BY <2>1
        <4>2. w[m] = p[m] /\ (m # 0 => w[m - 1] = p[m - 1])
          BY <2>3, <3>1, <4>1
        <4>3. QED
          BY <2>4, <3>1, <4>2
      <3>2. CASE m = k + 1
        <4>1. k \in 0..(k + 1)
          BY <2>1
        <4>2. w[m] = Handed(F(k + 1), p[k]) /\ w[k] = p[k]
          BY <2>3, <3>2, <4>1
        <4>3. QED
          BY <2>3, <3>2, <4>2
      <3>3. QED
        BY <2>3, <3>1, <3>2
    <2>6. w = [m \in 0..(k + 1) |-> w[m]]
      OBVIOUS
    <2> HIDE DEF w
    <2>7. Passes(w, st, r, k + 1)
      BY <2>5, <2>6 DEF Passes, F
    <2>8. QED
      BY <2>1, <2>7
  <1>3. T = Nat
    <2>1. T \in SUBSET Nat
      OBVIOUS
    <2> HIDE DEF T
    <2>2. QED
      BY <1>1, <1>2, <2>1, SetInduction
  <1>4. QED
    BY <1>3

\* A result other than TooLong does not become it on its way down the stack.
LEMMA ReturnForm ==
  ASSUME NEW st, IsStack(st), NEW r
  PROVE  /\ IsStack(Return(st, r).stack)
         /\ r # TooLong => Return(st, r).out # TooLong
  <1> DEFINE n == Len(st)
             p == CHOOSE q : Passes(q, st, r, n)
             waits == {m \in 1..n : p[m] = Unfinished}
             m == Min(waits)
             f == st[n + 1 - m]
             x == Took(f, ElementOf(f, p[m - 1])[1])
  <1>1. n \in Nat
    BY StackLength
  <1>2. Passes(p, st, r, n)
    BY <1>1, PassesExist
  <1>3. Return(st, r) = IF waits = {} THEN [stack |-> <<>>, out |-> p[n]]
                        ELSE [stack |-> Append(SubSeq(st, 1, n - m), x),
                              out   |-> Unfinished]
    BY DEF Return, Passes
  <1> HIDE DEF p
  <1>4. r # TooLong => p[n] # TooLong
    <2> SUFFICES ASSUME r # TooLong
                 PROVE  p[n] # TooLong
      OBVIOUS
    <2> DEFINE T == {k \in Nat : k <= n => p[k] # TooLong}
    <2>1. 0 \in T
      BY <1>1, <1>2 DEF Passes
    <2>2. ASSUME NEW k \in T
          PROVE  k + 1 \in T
      <3>1. SUFFICES ASSUME k + 1 <= n
                     PROVE  p[k + 1] # TooLong
        OBVIOUS
      <3>2. k \in Nat /\ p[k] # TooLong /\ k + 1 \in 0..n /\ k + 1 # 0 /\ (k + 1) - 1 = k
        BY <1>1, <3>1
      <3>3. p[k + 1] = Handed(st[Len(st) + 1 - (k + 1)], p[k])
        BY <1>2, <3>2 DEF Passes
      <3>4. QED
        BY <3>2, <3>3, HandedNotLong
    <2>3. T = Nat
      <3>1. T \in SUBSET Nat
        OBVIOUS
      <3> HIDE DEF T
      <3>2. QED
        BY <2>1, <2>2, <3>1, SetInduction
    <2>4. QED
      BY <1>1, <2>3
  <1>5. CASE waits = {}
    <2>1. Return(st, r).stack = <<>> /\ Return(st, r).out = p[n]
      BY <1>3, <1>5
    <2>2. QED
      BY <1>4, <2>1, EmptyStack
  <1>6. CASE waits # {}
    <2>1. waits \in SUBSET Nat
      OBVIOUS
    <2>2. m \in waits
      BY <1>6, <2>1, LeastIsMin
    <2>3. n - m \in 0..n
      BY <1>1, <2>2
    <2> HIDE DEF n, m, x, waits
    <2> DEFINE y == Append(SubSeq(st, 1, n - m), x)
    <2>4. Return(st, r).stack = y /\ Return(st, r).out = Unfinished
      <3>1. Return(st, r) = [stack |-> y, out |-> Unfinished]
        BY <1>3, <1>6, Zenon
      <3> HIDE DEF y
      <3>2. QED
        BY <3>1
    <2>5. IsStack(SubSeq(st, 1, n - m))
      BY <2>3, CutStack DEF n
    <2>6. IsStack(Append(SubSeq(st, 1, n - m), x))
      BY <2>5, PushedStack
    <2>7. Unfinished # TooLong
      BY DEF TooLong, Unfinished
    <2>8. QED
      BY <2>4, <2>6, <2>7
  <1>7. QED
    BY <1>5, <1>6

LEMMA DeliverForm ==
  ASSUME NEW fn, NEW st, IsStack(st), NEW r
  PROVE  LET c == Deliver(fn, st, r)
         IN  /\ IsCall(c) /\ c.pc \in {"line", "done"} /\ c.need = 0
             /\ c.out = TooLong => c.pc = "done" /\ r = TooLong
  <1> DEFINE ret == Return(st, r)
             o == IF fn = "scan" THEN ScanReply(ret.out) ELSE ret.out
             c == Deliver(fn, st, r)
  <1>1. IsStack(ret.stack) /\ (r # TooLong => ret.out # TooLong)
    BY ReturnForm
  <1>2. c = IF ret.out = Unfinished THEN Call(ret.stack, "line", 0, Unfinished)
            ELSE Call(<<>>, "done", 0, o)
    BY DEF Deliver
  <1>3. TooLong.ok = FALSE /\ Err # TooLong /\ Unfinished # TooLong
    BY DEF TooLong, Err, Unfinished
  <1>4. o = TooLong => ret.out = TooLong
    <2>1. \A t, x : Ok(t, x) # TooLong
      BY <1>3 DEF Ok
    <2>2. ScanReply(ret.out) = TooLong => ret.out = TooLong
      BY <1>3, <2>1 DEF ScanReply
    <2>3. QED
      BY <2>2
  <1> HIDE DEF ret, o, c
  <1>5. CASE ret.out = Unfinished
    <2>1. c.stack = ret.stack /\ c.pc = "line" /\ c.need = 0 /\ c.out = Unfinished
      BY <1>2, <1>5, CallIs
    <2>2. QED
      BY <1>1, <1>3, <2>1 DEF IsCall, c
  <1>6. CASE ret.out # Unfinished
    <2>1. c.stack = <<>> /\ c.pc = "done" /\ c.need = 0 /\ c.out = o
      BY <1>2, <1>6, CallIs
    <2>2. QED
      BY <1>1, <1>4, <2>1, EmptyStack DEF IsCall, c
  <1>7. QED
    BY <1>5, <1>6

LEMMA NotLong ==
  /\ Err # TooLong /\ NilErr # TooLong /\ Unfinished # TooLong
  /\ \A s : ErrText(s) # TooLong
  /\ \A t, x : Ok(t, x) # TooLong
  <1>1. Err # TooLong /\ NilErr # TooLong /\ Unfinished # TooLong
    BY DEF Err, NilErr, Unfinished, TooLong
  <1>2. \A s : ErrText(s) # TooLong
    BY DEF ErrText, TooLong
  <1>3. \A t, x : Ok(t, x) # TooLong
    BY DEF Ok, TooLong
  <1>4. QED
    BY <1>1, <1>2, <1>3

\* A call whose line was not too long.
Tame(c) == IsCall(c) /\ c.out # TooLong

LEMMA DeliverTame ==
  ASSUME NEW fn, NEW st, IsStack(st), NEW r, r # TooLong
  PROVE  Tame(Deliver(fn, st, r))
  BY DeliverForm DEF Tame

LEMMA PanicTame ==
  ASSUME NEW st, IsStack(st)
  PROVE  Tame(Panic(st))
  BY CallIs, NotLong DEF Panic, Tame, IsCall

LEMMA OpenArrayTame ==
  ASSUME NEW fn, NEW st, IsStack(st), NEW n \in Int
  PROVE  Tame(OpenArray(fn, st, n))
  <1>1. CASE n < 0 \/ n > MaxCapacity
    <2>1. n # 0 /\ n \notin 1..MaxCapacity
      BY <1>1, SizesAssumption
    <2>2. OpenArray(fn, st, n) = Panic(st)
      BY <1>1, <2>1 DEF OpenArray
    <2>3. QED
      BY <2>2, PanicTame
  <1>2. CASE n = 0
    <2>1. ~(n < 0 \/ n > MaxCapacity)
      BY <1>2, SizesAssumption
    <2>2. OpenArray(fn, st, n) = Deliver(fn, st, Ok("value", Array(<<>>)))
      BY <1>2, <2>1 DEF OpenArray
    <2>3. QED
      BY <2>2, DeliverTame, NotLong
  <1>3. CASE n \in 1..MaxCapacity
    <2> DEFINE s == Append(st, Frame("array", n))
    <2>1. n # 0 /\ ~(n < 0 \/ n > MaxCapacity)
      BY <1>3, SizesAssumption
    <2>2. OpenArray(fn, st, n) = Call(s, "line", 0, Unfinished)
      BY <1>3, <2>1 DEF OpenArray
    <2>3. IsStack(s)
      BY PushedStack
    <2> HIDE DEF s
    <2>4. QED
      BY <2>2, <2>3, CallIs, NotLong DEF Tame, IsCall
  <1>4. QED
    BY <1>1, <1>2, <1>3, SizesAssumption

LEMMA OpenBulkTame ==
  ASSUME NEW st, IsStack(st), NEW n \in Nat, NEW c \in OpenBulk(st, n)
  PROVE  Tame(c)
  <1>1. c = Panic(st) \/ c = Call(st, "bulk", BulkSize(n), Unfinished)
    BY DEF OpenBulk
  <1>2. BulkSize(n) \in Nat
    BY SizesAssumption DEF BulkSize
  <1>3. Tame(Call(st, "bulk", BulkSize(n), Unfinished))
    BY <1>2, CallIs, NotLong DEF Tame, IsCall
  <1>4. QED
    BY <1>1, <1>3, PanicTame

LEMMA ParseReplyTame ==
  ASSUME NEW fn, NEW st, IsStack(st), NEW l \in Seq(STRING), NEW c \in ParseReply(fn, st, l)
  PROVE  Tame(c)
  <1> DEFINE s == Tail(l)
  <1>1. CASE \E r : r # TooLong /\ c = Deliver(fn, st, r)
    BY <1>1, DeliverTame
  <1>2. CASE l = <<>>
    <2>1. c = Deliver(fn, st, Err)
      BY <1>2 DEF ParseReply
    <2>2. QED
      BY <1>1, <2>1, NotLong
  <1>3. CASE l # <<>> /\ l[1] = "-"
    <2>1. c = Deliver(fn, st, ErrText(Lossy(s)))
      BY <1>3 DEF ParseReply
    <2>2. QED
      BY <1>1, <2>1, NotLong
  <1>4. CASE l # <<>> /\ l[1] = "+"
    <2>1. c = Deliver(fn, st, Ok("value", Status(Lossy(s))))
      BY <1>4 DEF ParseReply
    <2>2. QED
      BY <1>1, <2>1, NotLong
  <1>5. CASE l # <<>> /\ l[1] = ":"
    <2>1. \/ c = Deliver(fn, st, Ok("value", Num(NumberOf(s))))
          \/ c = Deliver(fn, st, Err)
      BY <1>5 DEF ParseReply
    <2>2. QED
      BY <1>1, <2>1, NotLong
  <1>6. CASE l # <<>> /\ l[1] = "$"
    <2>1. \/ c = Deliver(fn, st, NilErr)
          \/ c = Deliver(fn, st, Err)
          \/ IsUsize(s) /\ c \in OpenBulk(st, NumberOf(s))
      BY <1>6 DEF ParseReply
    <2>2. CASE IsUsize(s) /\ c \in OpenBulk(st, NumberOf(s))
      <3>1. s \in Seq(STRING)
        BY <1>6
      <3>2. NumberOf(s) \in Nat
        BY <2>2, <3>1, NumberType DEF IsUsize
      <3>3. QED
        BY <2>2, <3>2, OpenBulkTame
    <2>3. QED
      BY <1>1, <2>1, <2>2, NotLong
  <1>7. CASE l # <<>> /\ l[1] = "*"
    <2>1. \/ c = Deliver(fn, st, NilErr)
          \/ c = Deliver(fn, st, Err)
          \/ IsI64(s) /\ c = OpenArray(fn, st, NumberOf(s))
      BY <1>7 DEF ParseReply
    <2>2. CASE IsI64(s) /\ c = OpenArray(fn, st, NumberOf(s))
      <3>1. s \in Seq(STRING)
        BY <1>7
      <3>2. NumberOf(s) \in Int
        BY <2>2, <3>1, NumberType DEF IsI64
      <3>3. QED
        BY <2>2, <3>2, OpenArrayTame
    <2>3. QED
      BY <1>1, <2>1, <2>2, NotLong
  <1>8. CASE l # <<>> /\ l[1] \notin {"-", "+", ":", "$", "*"}
    <2>1. c = Deliver(fn, st, Err)
      BY <1>8 DEF ParseReply
    <2>2. QED
      BY <1>1, <2>1, NotLong
  <1>9. QED
    BY <1>2, <1>3, <1>4, <1>5, <1>6, <1>7, <1>8

LEMMA BulkDoneTame ==
  ASSUME NEW fn, NEW st, IsStack(st), NEW d
  PROVE  Tame(BulkDone(fn, st, d))
  BY DeliverTame, NotLong DEF BulkDone

LEMMA StartTame ==
  ASSUME NEW j
  PROVE  Tame(Start(j)) /\ Start(j).pc \in {"line", "done"}
  <1> DEFINE n == IF j.fn \in {"map", "z"} THEN 2 * (Len(j.v.a) \div 2) ELSE Len(j.v.a)
             o == FrameResult(Frame(j.fn, 0))
             f == Frame(j.fn, n)
  <1>1. o # TooLong
    BY NotLong DEF FrameResult
  <1>2. \/ Start(j) = Call(<<>>, "line", 0, Unfinished)
        \/ Start(j) = Call(<<>>, "done", 0, o)
        \/ Start(j) = Call(<<f>>, "line", 0, Unfinished)
    BY DEF Start
  <1> HIDE DEF f, o
  <1>3. IsStack(<<f>>)
    <2>1. <<f>> \in Seq({f})
      OBVIOUS
    <2>2. QED
      BY <2>1 DEF IsStack
  <1>4. QED
    BY <1>1, <1>2, <1>3, EmptyStack, CallIs, NotLong DEF Tame, IsCall

-----------------------------------------------------------------------------
(* Pieces of the stream                                                      *)

\* The bytes of s after the first a, up to the b-th.
Piece(s, a, b) == SubSeq(s, a + 1, b)

LEMMA PieceIs ==
  ASSUME NEW s \in Seq(STRING), NEW a \in Nat, NEW b \in Nat, a <= b, b <= Len(s)
  PROVE  /\ Piece(s, a, b) \in Seq(STRING)
         /\ Len(Piece(s, a, b)) = b - a
         /\ \A j \in 1..(b - a) : Piece(s, a, b)[j] = s[a + j] /\ a + j \in 1..Len(s)
  <1>1. Len(s) \in Nat /\ b - a \in Nat
    OBVIOUS
  <1>2. \A j \in (a + 1)..b : s[j] \in STRING
    BY <1>1
  <1>3. CASE a = b
    <2>1. Piece(s, a, b) = <<>>
      BY <1>3 DEF Piece
    <2>2. QED
      BY <1>3, <2>1
  <1>4. CASE a < b
    <2>1. a + 1 \in 1..Len(s) /\ b \in 1..Len(s) /\ a + 1 <= b
      BY <1>1, <1>4
    <2>2. Piece(s, a, b) \in Seq(STRING)
      BY <2>1 DEF Piece
    <2>3. Piece(s, a, b) = [j \in 1..(b - (a + 1) + 1) |-> s[a + 1 + j - 1]]
      BY <2>1 DEF Piece
    <2>4. b - (a + 1) + 1 = b - a /\ \A j \in 1..(b - a) : a + 1 + j - 1 = a + j
      BY <1>1
    <2>5. \A j \in 1..(b - a) : Piece(s, a, b)[j] = s[a + j]
      BY <2>3, <2>4
    <2>6. Len(Piece(s, a, b)) = b - a
      BY <1>1, <2>3, <2>4
    <2>7. \A j \in 1..(b - a) : a + j \in 1..Len(s)
      BY <1>1
    <2>8. QED
      BY <2>2, <2>5, <2>6, <2>7
  <1>5. QED
    BY <1>3, <1>4

LEMMA PieceJoin ==
  ASSUME NEW s \in Seq(STRING), NEW a \in Nat, NEW b \in Nat, NEW c \in Nat,
         a <= b, b <= c, c <= Len(s)
  PROVE  Piece(s, a, b) \o Piece(s, b, c) = Piece(s, a, c)
  <1> DEFINE x == Piece(s, a, b)
             y == Piece(s, b, c)
             z == Piece(s, a, c)
  <1>1. Len(s) \in Nat /\ b <= Len(s) /\ a <= c
    OBVIOUS
  <1>2. x \in Seq(STRING) /\ Len(x) = b - a /\ \A j \in 1..(b - a) : x[j] = s[a + j]
    BY <1>1, PieceIs
  <1>3. y \in Seq(STRING) /\ Len(y) = c - b /\ \A j \in 1..(c - b) : y[j] = s[b + j]
    BY <1>1, PieceIs
  <1>4. z \in Seq(STRING) /\ Len(z) = c - a /\ \A j \in 1..(c - a) : z[j] = s[a + j]
    BY <1>1, PieceIs
  <1> HIDE DEF x, y, z
  <1>5. /\ x \o y \in Seq(STRING)
        /\ Len(x \o y) = Len(x) + Len(y)
        /\ \A j \in 1..(Len(x) + Len(y)) :
             (x \o y)[j] = IF j <= Len(x) THEN x[j] ELSE y[j - Len(x)]
    BY <1>2, <1>3, ConcatProperties
  <1>6. Len(x \o y) = Len(z)
    BY <1>2, <1>3, <1>4, <1>5
  <1>7. ASSUME NEW j \in 1..Len(z)
        PROVE  (x \o y)[j] = z[j]
    <2>1. j \in 1..(c - a) /\ j \in 1..(Len(x) + Len(y))
      BY <1>2, <1>3, <1>4
    <2>2. CASE j <= Len(x)
      <3>1. j \in 1..(b - a)
        BY <1>2, <2>1, <2>2
      <3>2. QED
        BY <1>2, <1>4, <1>5, <2>1, <2>2, <3>1
    <2>3. CASE ~(j <= Len(x))
      <3>1. j - Len(x) \in 1..(c - b) /\ b + (j - Len(x)) = a + j
        BY <1>2, <2>1, <2>3
      <3>2. (x \o y)[j] = y[j - Len(x)]
        BY <1>5, <2>1, <2>3
      <3>3. y[j - Len(x)] = s[b + (j - Len(x))]
        BY <1>3, <3>1
      <3>4. z[j] = s[a + j]
        BY <1>4, <2>1
      <3>5. QED
        BY <3>1, <3>2, <3>3, <3>4
    <2>4. QED
      BY <2>2, <2>3
  <1>8. x \o y = z
    BY <1>4, <1>5, <1>6, <1>7, SeqEqual
  <1>9. QED
    BY <1>8 DEF x, y, z

LEMMA PieceCut ==
  ASSUME NEW s \in Seq(STRING), NEW a \in Nat, NEW b \in Nat, a <= b, b <= Len(s),
         NEW n \in 0..(b - a)
  PROVE  SubSeq(Piece(s, a, b), 1, n) = Piece(s, a, a + n)
  <1> DEFINE x == Piece(s, a, b)
             y == Piece(x, 0, n)
             z == Piece(s, a, a + n)
  <1>1. Len(s) \in Nat /\ n \in Nat /\ n <= b - a /\ a + n \in Nat /\ a + n <= Len(s)
          /\ a <= a + n
    OBVIOUS
  <1>2. x \in Seq(STRING) /\ Len(x) = b - a /\ \A j \in 1..(b - a) : x[j] = s[a + j]
    BY PieceIs
  <1>3. /\ z \in Seq(STRING) /\ Len(z) = (a + n) - a
        /\ \A j \in 1..((a + n) - a) : z[j] = s[a + j]
    BY <1>1, PieceIs
  <1> HIDE DEF x, z
  <1>4. y \in Seq(STRING) /\ Len(y) = n /\ \A j \in 1..n : y[j] = x[j]
    <2>1. 0 \in Nat /\ 0 <= n /\ n <= Len(x)
      BY <1>1, <1>2
    <2>2. y \in Seq(STRING) /\ Len(y) = n - 0 /\ \A j \in 1..(n - 0) : y[j] = x[0 + j]
      BY <1>1, <1>2, <2>1, PieceIs
    <2> HIDE DEF y
    <2>3. n - 0 = n /\ \A j \in 1..n : 0 + j = j
      BY <1>1
    <2>4. QED
      BY <2>2, <2>3
  <1>5. y = SubSeq(x, 1, n)
    BY DEF Piece
  <1> HIDE DEF y
  <1>6. Len(y) = Len(z) /\ Len(z) = n /\ (a + n) - a = n
    BY <1>1, <1>3, <1>4
  <1>7. ASSUME NEW j \in 1..n
        PROVE  y[j] = z[j]
    <2>1. j \in 1..(b - a)
      BY <1>1
    <2>2. y[j] = x[j] /\ x[j] = s[a + j] /\ z[j] = s[a + j]
      BY <1>2, <1>3, <1>4, <1>6, <2>1
    <2>3. QED
      BY <2>2
  <1>8. y = z
    BY <1>3, <1>4, <1>6, <1>7, SeqEqual
  <1>9. QED
    BY <1>5, <1>8 DEF x, z

-----------------------------------------------------------------------------
(* The inductive invariant                                                   *)

\* h is what was consumed of the stream last.
Holds(h) ==
  /\ h \in Seq(STRING)
  /\ Len(h) <= pos
  /\ h = Piece(job.bytes, pos - Len(h), pos)

RespInv ==
  /\ job \in Jobs
  /\ pos \in Nat
  /\ filled \in pos..Len(job.bytes)
  /\ IsCall(call)
  /\ Holds(line) /\ Holds(data)
  /\ call.pc # "line" => line = <<>>
  /\ call.pc # "bulk" => data = <<>>
  /\ Len(line) <= MaxLine
  /\ \A j \in 1..Len(line) : line[j] # LF
  /\ call.pc = "bulk" => Len(data) < call.need \/ (call.need = 0 /\ data = <<>>)
  /\ out = TooLong => Done /\ pos < filled

LEMMA StreamFacts ==
  ASSUME RespInv
  PROVE  /\ job.bytes \in Seq(STRING) /\ Len(job.bytes) \in Nat
         /\ pos \in Nat /\ filled \in Nat /\ pos <= filled /\ filled <= Len(job.bytes)
  <1>1. job.bytes \in Seq(STRING)
    BY JobsAssumption DEF RespInv
  <1>2. Len(job.bytes) \in Nat
    BY <1>1
  <1>3. QED
    BY <1>1, <1>2 DEF RespInv

LEMMA EmptyHolds ==
  ASSUME job.bytes \in Seq(STRING), pos \in Nat, pos <= Len(job.bytes)
  PROVE  Holds(<<>>)
  <1>1. <<>> \in Seq(STRING) /\ Len(<<>>) = 0
    OBVIOUS
  <1>2. pos - 0 = pos
    OBVIOUS
  <1>3. Piece(job.bytes, pos, pos) = <<>>
    BY DEF Piece
  <1>4. QED
    BY <1>1, <1>2, <1>3 DEF Holds

\* What read_line looks at next.
LEMMA ScannedForm ==
  ASSUME RespInv, filled > pos
  PROVE  LET k == Len(Scanned)
         IN  /\ k \in 1..(filled - pos)
             /\ Scanned = Piece(job.bytes, pos, pos + k)
             /\ Scanned[k] = job.bytes[pos + k]
             /\ \A j \in 1..(k - 1) : job.bytes[pos + j] # LF
             /\ Scanned[k] # LF => job.bytes[pos + k] # LF
  <1> DEFINE bs == job.bytes
             B == Buffered
             I == {j \in 1..Len(B) : B[j] = LF}
             k == IF I = {} THEN Len(B) ELSE Min(I)
  <1>1. /\ bs \in Seq(STRING) /\ Len(bs) \in Nat
        /\ pos \in Nat /\ filled \in Nat /\ pos <= filled /\ filled <= Len(bs)
    BY StreamFacts
  <1>2. B = Piece(bs, pos, filled)
    BY DEF Buffered, Piece
  <1>3. /\ B \in Seq(STRING) /\ Len(B) = filled - pos
        /\ \A j \in 1..(filled - pos) : B[j] = bs[pos + j]
    BY <1>1, <1>2, PieceIs
  <1>4. Scanned = IF I # {} THEN IF Min(I) = 0 THEN B ELSE SubSeq(B, 1, Min(I)) ELSE B
    BY DEF Scanned, SelectInSeq
  <1> HIDE DEF B
  <1>5. I # {} => Min(I) \in I /\ \A j \in I : Min(I) <= j
    <2>1. I \in SUBSET Nat
      OBVIOUS
    <2>2. QED
      BY <2>1, LeastIsMin
  <1>6. k \in 1..(filled - pos) /\ Len(B) \in Nat
    BY <1>1, <1>3, <1>5
  <1>7. \A j \in 1..(k - 1) : j \in 1..(filled - pos) /\ bs[pos + j] # LF
    <2> SUFFICES ASSUME NEW j \in 1..(k - 1)
                 PROVE  j \in 1..(filled - pos) /\ bs[pos + j] # LF
      OBVIOUS
    <2>1. j \in 1..(filled - pos) /\ j < k
      BY <1>1, <1>6
    <2>2. j \notin I
      BY <1>5, <2>1
    <2>3. QED
      BY <1>3, <2>1, <2>2
  <1>8. Scanned = Piece(bs, pos, pos + k)
    <2>1. CASE I = {}
      <3>1. Scanned = B /\ k = filled - pos
        BY <1>3, <1>4, <2>1
      <3>2. pos + (filled - pos) = filled
        BY <1>1
      <3>3. QED
        BY <1>2, <3>1, <3>2
    <2>2. CASE I # {}
      <3>1. Scanned = SubSeq(B, 1, k)
        <4>1. Min(I) # 0 /\ k = Min(I)
          BY <1>5, <2>2
        <4> HIDE DEF I, k
        <4>2. QED
          BY <1>4, <2>2, <4>1
      <3>2. k \in 0..(filled - pos)
        BY <1>1, <1>6
      <3> HIDE DEF k
      <3>3. QED
        BY <1>1, <1>2, <3>1, <3>2, PieceCut
    <2>3. QED
      BY <2>1, <2>2
  <1> HIDE DEF k, I
  <1>9. Len(Scanned) = k /\ Scanned[k] = bs[pos + k]
    <2>1. pos + k \in Nat /\ pos <= pos + k /\ pos + k <= Len(bs) /\ (pos + k) - pos = k
            /\ k \in 1..k
      BY <1>1, <1>6
    <2>2. /\ Len(Piece(bs, pos, pos + k)) = (pos + k) - pos
          /\ \A j \in 1..((pos + k) - pos) : Piece(bs, pos, pos + k)[j] = bs[pos + j]
      BY <1>1, <2>1, PieceIs
    <2>3. QED
      BY <1>8, <2>1, <2>2
  <1>10. QED
    BY <1>6, <1>7, <1>8, <1>9

\* The line so far and what read_line looks at next, in one piece.
LEMMA LineForm ==
  ASSUME RespInv, filled > pos
  PROVE  LET k == Len(Scanned)
             b == pos - Len(line)
             n == Len(line) + k
         IN  /\ k \in Nat \ {0} /\ Len(line) \in Nat /\ b \in Nat /\ n \in Nat \ {0}
             /\ pos + k = b + n /\ b + n <= filled
             /\ line \o Scanned = Piece(job.bytes, b, b + n)
             /\ Len(line \o Scanned) = n
             /\ \A j \in (b + 1)..(b + n - 1) : job.bytes[j] # LF
             /\ Scanned[k] = job.bytes[b + n]
  <1> DEFINE bs == job.bytes
             k == Len(Scanned)
             z == Len(line)
             b == pos - z
             n == z + k
  <1>1. /\ bs \in Seq(STRING) /\ Len(bs) \in Nat
        /\ pos \in Nat /\ filled \in Nat /\ pos <= filled /\ filled <= Len(bs)
    BY StreamFacts
  <1>2. /\ k \in 1..(filled - pos)
        /\ Scanned = Piece(bs, pos, pos + k)
        /\ Scanned[k] = bs[pos + k]
        /\ \A j \in 1..(k - 1) : bs[pos + j] # LF
    BY ScannedForm
  <1>3. /\ line \in Seq(STRING) /\ z <= pos /\ line = Piece(bs, b, pos)
        /\ \A j \in 1..z : line[j] # LF
    BY DEF RespInv, Holds
  <1>4. z \in Nat
    BY <1>3
  <1> HIDE DEF k, z
  <1>5. /\ b \in Nat /\ n \in Nat \ {0} /\ k \in Nat \ {0}
        /\ pos + k = b + n /\ b + n <= filled
        /\ b <= pos /\ b + n \in Nat /\ pos <= b + n /\ b + n <= Len(bs)
    BY <1>1, <1>2, <1>3, <1>4
  <1> HIDE DEF bs, b, n
  <1>6. line \o Scanned = Piece(bs, b, b + n)
    <2>1. Scanned = Piece(bs, pos, b + n)
      BY <1>2, <1>5
    <2>2. Piece(bs, b, pos) \o Piece(bs, pos, b + n) = Piece(bs, b, b + n)
      BY <1>1, <1>5, PieceJoin
    <2>3. QED
      BY <1>3, <2>1, <2>2
  <1>7. Len(line \o Scanned) = n
    <2>1. Len(Piece(bs, b, b + n)) = (b + n) - b
      <3>1. b <= b + n
        BY <1>5
      <3>2. QED
        BY <1>1, <1>5, <3>1, PieceIs
    <2>2. (b + n) - b = n
      BY <1>5
    <2>3. QED
      BY <1>6, <2>1, <2>2
  <1>8. ASSUME NEW j \in (b + 1)..(b + n - 1)
        PROVE  bs[j] # LF
    <2>1. CASE j <= pos
      <3>1. j - b \in 1..z /\ j - b \in 1..(pos - b) /\ b + (j - b) = j
        BY <1>1, <1>4, <1>5, <2>1 DEF b
      <3>2. Piece(bs, b, pos)[j - b] = bs[b + (j - b)]
        <4>1. pos <= Len(bs) /\ b \in Nat /\ b <= pos
          BY <1>1, <1>5
        <4>2. \A i \in 1..(pos - b) : Piece(bs, b, pos)[i] = bs[b + i]
          BY <1>1, <4>1, PieceIs
        <4>3. QED
          BY <3>1, <4>2, Zenon
      <3>3. QED
        BY <1>3, <3>1, <3>2
    <2>2. CASE ~(j <= pos)
      <3>1. j - pos \in 1..(k - 1) /\ pos + (j - pos) = j
        BY <1>1, <1>5, <2>2
      <3>2. QED
        BY <1>2, <3>1
    <2>3. QED
      BY <2>1, <2>2
  <1>9. Scanned[k] = bs[b + n]
    BY <1>2, <1>5
  <1>10. QED
    BY <1>4, <1>5, <1>6, <1>7, <1>8, <1>9 DEF bs, k, z, b, n

\* What read_n has once it has taken m more bytes, in one piece.
LEMMA BulkForm ==
  ASSUME RespInv, NEW m \in 0..(filled - pos)
  PROVE  LET b == pos - Len(data)
             n == Len(data) + m
             got == data \o SubSeq(Buffered, 1, m)
         IN  /\ Len(data) \in Nat /\ b \in Nat /\ n \in Nat
             /\ pos + m = b + n /\ b + n <= filled
             /\ got = Piece(job.bytes, b, b + n)
             /\ got \in Seq(STRING) /\ Len(got) = n
  <1> DEFINE bs == job.bytes
             z == Len(data)
             b == pos - z
             n == z + m
             y == SubSeq(Buffered, 1, m)
  <1>1. /\ bs \in Seq(STRING) /\ Len(bs) \in Nat
        /\ pos \in Nat /\ filled \in Nat /\ pos <= filled /\ filled <= Len(bs)
    BY StreamFacts
  <1>2. data \in Seq(STRING) /\ z <= pos /\ data = Piece(bs, b, pos)
    BY DEF RespInv, Holds
  <1>3. z \in Nat
    BY <1>2
  <1>4. y = Piece(bs, pos, pos + m)
    <2>1. Buffered = Piece(bs, pos, filled)
      BY DEF Buffered, Piece
    <2>2. QED
      BY <1>1, <2>1, PieceCut
  <1> HIDE DEF z, y
  <1>5. /\ b \in Nat /\ n \in Nat /\ pos + m = b + n /\ b + n <= filled
        /\ b <= pos /\ b + n \in Nat /\ pos <= b + n /\ b + n <= Len(bs)
        /\ b <= b + n /\ (b + n) - b = n
    BY <1>1, <1>2, <1>3
  <1> HIDE DEF bs, b, n
  <1>6. data \o y = Piece(bs, b, b + n)
    <2>1. y = Piece(bs, pos, b + n)
      BY <1>4, <1>5
    <2>2. Piece(bs, b, pos) \o Piece(bs, pos, b + n) = Piece(bs, b, b + n)
      BY <1>1, <1>5, PieceJoin
    <2>3. QED
      BY <1>2, <2>1, <2>2
  <1>7. /\ Piece(bs, b, b + n) \in Seq(STRING)
        /\ Len(Piece(bs, b, b + n)) = (b + n) - b
    BY <1>1, <1>5, PieceIs
  <1>8. QED
    BY <1>3, <1>5, <1>6, <1>7 DEF bs, z, b, n, y

LEMMA EmptyPiece ==
  ASSUME NEW s, NEW p \in Nat
  PROVE  Piece(s, p, p) = <<>>
  BY DEF Piece

\* A token has been read, and the call goes on.
LEMMA Continued ==
  ASSUME RespInv,
         job' = job, filled' = filled, line' = <<>>, data' = <<>>,
         pos' \in Nat, pos' <= filled, IsCall(call'),
         call'.out = TooLong => call'.pc = "done" /\ pos' < filled
  PROVE  RespInv'
  <1>1. /\ job.bytes \in Seq(STRING) /\ Len(job.bytes) \in Nat
        /\ filled \in Nat /\ filled <= Len(job.bytes)
    BY StreamFacts
  <1>2. <<>> \in Seq(STRING) /\ Len(<<>>) = 0
    OBVIOUS
  <1>3. Holds(line)' /\ Holds(data)'
    <2>1. pos' - 0 = pos' /\ 0 <= pos'
      <3>1. \A p \in Nat : p - 0 = p /\ 0 <= p
        OBVIOUS
      <3>2. QED
        BY <3>1, Zenon
    <2>2. Piece(job'.bytes, pos' - 0, pos') = <<>>
      BY <2>1, EmptyPiece
    <2>3. QED
      BY <1>2, <2>1, <2>2 DEF Holds
  <1>4. filled' \in pos'..Len(job'.bytes) /\ job' \in Jobs
    BY <1>1 DEF RespInv
  <1>5. Len(line') <= MaxLine /\ \A j \in 1..Len(line') : line'[j] # LF
    BY <1>2, SizesAssumption
  <1>6. call'.pc = "bulk" => Len(data') < call'.need \/ (call'.need = 0 /\ data' = <<>>)
    BY <1>2 DEF IsCall
  <1>7. QED
    BY <1>3, <1>4, <1>5, <1>6 DEF RespInv, out, Done

LEMMA PieceOf ==
  ASSUME NEW s \in Seq(STRING), NEW a \in Nat, NEW n \in Nat, a + n <= Len(s)
  PROVE  /\ Piece(s, a, a + n) \in Seq(STRING)
         /\ Len(Piece(s, a, a + n)) = n
         /\ \A j \in 1..n : Piece(s, a, a + n)[j] = s[a + j]
  <1> DEFINE b == a + n
  <1>1. b \in Nat /\ a <= b /\ b <= Len(s) /\ b - a = n
    OBVIOUS
  <1> HIDE DEF b
  <1>2. /\ Piece(s, a, b) \in Seq(STRING)
        /\ Len(Piece(s, a, b)) = b - a
        /\ \A j \in 1..(b - a) : Piece(s, a, b)[j] = s[a + j]
    BY <1>1, PieceIs
  <1>3. /\ Piece(s, a, b) \in Seq(STRING)
        /\ Len(Piece(s, a, b)) = n
        /\ \A j \in 1..n : Piece(s, a, b)[j] = s[a + j]
    BY <1>1, <1>2
  <1>4. QED
    BY <1>3 DEF b

\* Where the next token begins, when none, a part of a line or a part of a bulk
\* string is held.
LEMMA NextBoundary ==
  ASSUME NEW p \in Nat, pos' = p, NEW n \in Nat
  PROVE  /\ Len(line') = 0 /\ Len(data') = 0 => Boundary' = p
         /\ Len(line') = n /\ Len(data') = 0 => Boundary' = p - n
         /\ Len(line') = 0 /\ Len(data') = n => Boundary' = p - n
  <1>1. Boundary' = p - Len(line') - Len(data')
    BY DEF Boundary
  <1>2. p - 0 - 0 = p /\ p - n - 0 = p - n /\ p - 0 - n = p - n
    OBVIOUS
  <1>3. QED
    BY <1>1, <1>2, Zenon

\* The parser stops between two tokens, or in one.
LEMMA BoundaryIs ==
  ASSUME RespInv
  PROVE  /\ Boundary \in Nat
         /\ call.pc = "line" => Boundary = pos - Len(line)
         /\ call.pc = "bulk" => Boundary = pos - Len(data)
  <1>1. /\ pos \in Nat /\ line \in Seq(STRING) /\ data \in Seq(STRING)
        /\ Len(line) <= pos /\ Len(data) <= pos
        /\ call.pc # "line" => line = <<>>
        /\ call.pc # "bulk" => data = <<>>
    BY DEF RespInv, Holds
  <1>2. Len(line) \in Nat /\ Len(data) \in Nat /\ Len(<<>>) = 0
    BY <1>1
  <1>3. QED
    BY <1>1, <1>2 DEF Boundary


-----------------------------------------------------------------------------
(* The steps, and what they are to a parser that reads tokens whole          *)

LEMMA FillBufStep ==
  ASSUME RespInv, FillBuf
  PROVE  RespInv' /\ UNCHANGED Whole!vars
  <1>1. /\ job.bytes \in Seq(STRING) /\ Len(job.bytes) \in Nat
        /\ pos \in Nat /\ filled \in Nat /\ pos <= filled /\ filled <= Len(job.bytes)
    BY StreamFacts
  <1>2. /\ job' = job /\ pos' = pos /\ line' = line /\ data' = data /\ call' = call
        /\ call.pc \in {"line", "bulk"}
    BY DEF FillBuf
  <1>3. filled' \in pos..Len(job.bytes)
    BY <1>1, SizesAssumption DEF FillBuf
  <1>4. RespInv'
    BY <1>2, <1>3 DEF RespInv, Holds, out, Done
  <1>5. UNCHANGED Whole!vars
    BY <1>2 DEF Whole!vars, Boundary
  <1>6. QED
    BY <1>4, <1>5

LEMMA StrippedType ==
  ASSUME NEW l \in Seq(STRING), l # <<>>
  PROVE  Stripped(l) \in Seq(STRING)
  <1> DEFINE n == Len(l)
  <1>1. n \in Nat \ {0}
    OBVIOUS
  <1>2. \A k \in 0..n : SubSeq(l, 1, k) \in Seq(STRING)
    BY SubSeqProperties
  <1>3. \/ Stripped(l) = SubSeq(l, 1, n - 1)
        \/ n >= 2 /\ Stripped(l) = SubSeq(l, 1, n - 2)
    BY Zenon DEF Stripped
  <1> HIDE DEF n
  <1>4. n - 1 \in 0..n /\ (n >= 2 => n - 2 \in 0..n)
    BY <1>1
  <1>5. QED
    BY <1>2, <1>3, <1>4

\* A line is given up.
LEMMA LongLineStep ==
  ASSUME RespInv, ReadLine, ExceedsLimit(line, Scanned)
  PROVE  RespInv' /\ Whole!RefuseLine
  <1> DEFINE k == Len(Scanned)
             z == Len(line)
             b == pos - z
             n == z + k
             c == Deliver(job.fn, call.stack, TooLong)
  <1>1. /\ call.pc = "line" /\ filled > pos /\ job' = job /\ filled' = filled
        /\ pos' = pos /\ line' = <<>> /\ data' = <<>> /\ call' = c
    BY DEF ReadLine, Continue
  <1>2. /\ job.bytes \in Seq(STRING) /\ Len(job.bytes) \in Nat
        /\ pos \in Nat /\ filled \in Nat /\ pos <= filled /\ filled <= Len(job.bytes)
    BY StreamFacts
  <1>3. /\ k \in Nat \ {0} /\ z \in Nat /\ b \in Nat /\ n \in Nat \ {0}
        /\ pos + k = b + n /\ b + n <= filled
        /\ \A j \in (b + 1)..(b + n - 1) : job.bytes[j] # LF
    BY <1>1, LineForm
  <1>4. n > MaxLine /\ z <= MaxLine
    BY DEF ExceedsLimit, RespInv
  <1>5. IsCall(c) /\ (c.out = TooLong => c.pc = "done")
    <2>1. IsStack(call.stack)
      BY DEF RespInv, IsCall
    <2>2. QED
      BY <2>1, DeliverForm
  <1> HIDE DEF k, z, c
  <1>6. RespInv'
    BY <1>1, <1>2, <1>5, Continued
  <1>7. Boundary = b /\ Boundary' = pos
    <2>1. Boundary = b
      BY <1>1, BoundaryIs DEF z
    <2>2. Len(line') = 0 /\ Len(data') = 0
      BY <1>1
    <2>3. QED
      BY <1>1, <1>2, <2>1, <2>2, NextBoundary
  <1>8. pos \in b..(b + MaxLine) /\ b + MaxLine < Len(job.bytes)
    BY <1>2, <1>3, <1>4, SizesAssumption
  <1>9. \A j \in (b + 1)..(b + MaxLine) : job.bytes[j] # LF
    <2>1. \A j \in (b + 1)..(b + MaxLine) : j \in (b + 1)..(b + n - 1)
      BY <1>2, <1>3, <1>4, SizesAssumption
    <2>2. QED
      BY <1>3, <2>1
  <1> HIDE DEF b, n
  <1>10. Whole!RefuseLine
    BY <1>1, <1>7, <1>8, <1>9 DEF Whole!RefuseLine, Whole!NoEnd, c
  <1>11. QED
    BY <1>6, <1>10

\* A line is complete.
LEMMA LineEndStep ==
  ASSUME RespInv, ReadLine, ~ExceedsLimit(line, Scanned), Scanned[Len(Scanned)] = LF
  PROVE  RespInv' /\ Whole!TakeLine
  <1> DEFINE k == Len(Scanned)
             z == Len(line)
             b == pos - z
             n == z + k
             l == Stripped(line \o Scanned)
  <1>1. /\ call.pc = "line" /\ filled > pos /\ job' = job /\ filled' = filled
        /\ pos' = pos + k /\ line' = <<>> /\ data' = <<>>
        /\ call' \in ParseReply(job.fn, call.stack, l)
    BY DEF ReadLine, Continue
  <1>2. /\ job.bytes \in Seq(STRING) /\ Len(job.bytes) \in Nat
        /\ pos \in Nat /\ filled \in Nat /\ pos <= filled /\ filled <= Len(job.bytes)
    BY StreamFacts
  <1>3. /\ k \in Nat \ {0} /\ z \in Nat /\ b \in Nat /\ n \in Nat \ {0}
        /\ pos + k = b + n /\ b + n <= filled
        /\ line \o Scanned = Piece(job.bytes, b, b + n)
        /\ Len(line \o Scanned) = n
        /\ \A j \in (b + 1)..(b + n - 1) : job.bytes[j] # LF
        /\ Scanned[k] = job.bytes[b + n]
    BY <1>1, LineForm
  <1>4. n <= MaxLine
    BY <1>3, SizesAssumption DEF ExceedsLimit
  <1>5. job.bytes[b + n] = LF
    BY <1>3
  <1>6. Tame(call')
    <2>1. IsStack(call.stack)
      BY DEF RespInv, IsCall
    <2>2. line \o Scanned \in Seq(STRING) /\ line \o Scanned # <<>>
      <3> HIDE DEF z, k
      <3>1. b <= b + n /\ b + n <= Len(job.bytes) /\ b + n \in Nat
        BY <1>2, <1>3
      <3> HIDE DEF b, n
      <3>2. Piece(job.bytes, b, b + n) \in Seq(STRING)
        BY <1>2, <1>3, <3>1, PieceIs
      <3>3. Len(<<>>) = 0 /\ n # 0
        BY <1>3
      <3>4. QED
        BY <1>3, <3>2, <3>3
    <2>3. l \in Seq(STRING)
      BY <2>2, StrippedType
    <2> HIDE DEF l
    <2>4. QED
      BY <1>1, <2>1, <2>3, ParseReplyTame
  <1> HIDE DEF k, z, l
  <1>7. pos + k \in Nat /\ pos + k <= filled
    <2>1. k \in Nat /\ pos + k = b + n /\ b + n <= filled
      BY <1>3
    <2>2. QED
      BY <1>2, <2>1
  <1>8. RespInv'
    BY <1>1, <1>2, <1>6, <1>7, Continued DEF Tame
  <1>9. Boundary = b /\ Boundary' = b + n
    <2>1. Boundary = b
      BY <1>1, BoundaryIs DEF z
    <2>2. Len(line') = 0 /\ Len(data') = 0
      BY <1>1
    <2>3. QED
      BY <1>1, <1>2, <1>3, <2>1, <2>2 DEF Boundary
  <1>10. l = Stripped(SubSeq(job.bytes, b + 1, b + n))
    BY <1>3 DEF l, Piece
  <1>11. n \in 1..MaxLine /\ b + n <= Len(job.bytes) /\ b + n - 1 = b + (n - 1)
    BY <1>2, <1>3, <1>4, SizesAssumption
  <1> HIDE DEF b, n
  <1>12. Whole!TakeLine
    <2>1. \A j \in (b + 1)..(b + (n - 1)) : job.bytes[j] # LF
      BY <1>3, <1>11
    <2>2. QED
      BY <1>1, <1>5, <1>9, <1>10, <1>11, <2>1 DEF Whole!TakeLine, Whole!NoEnd, Whole!Ahead
  <1>13. QED
    BY <1>8, <1>12

\* A line goes on beyond the bytes at hand.
LEMMA LinePartStep ==
  ASSUME RespInv, ReadLine, ~ExceedsLimit(line, Scanned), Scanned[Len(Scanned)] # LF
  PROVE  RespInv' /\ UNCHANGED Whole!vars
  <1> DEFINE k == Len(Scanned)
             z == Len(line)
             b == pos - z
             n == z + k
             x == line \o Scanned
  <1>1. /\ call.pc = "line" /\ filled > pos /\ job' = job /\ filled' = filled
        /\ pos' = pos + k /\ line' = x /\ data' = data /\ call' = call
    BY DEF ReadLine
  <1>2. /\ job.bytes \in Seq(STRING) /\ Len(job.bytes) \in Nat
        /\ pos \in Nat /\ filled \in Nat /\ pos <= filled /\ filled <= Len(job.bytes)
    BY StreamFacts
  <1>3. /\ k \in Nat \ {0} /\ z \in Nat /\ b \in Nat /\ n \in Nat \ {0}
        /\ pos + k = b + n /\ b + n <= filled
        /\ x = Piece(job.bytes, b, b + n)
        /\ Len(x) = n
        /\ \A j \in (b + 1)..(b + n - 1) : job.bytes[j] # LF
        /\ Scanned[k] = job.bytes[b + n]
    BY <1>1, LineForm
  <1>4. n <= MaxLine
    BY <1>3, SizesAssumption DEF ExceedsLimit
  <1>5. job.bytes[b + n] # LF
    BY <1>3
  <1>6. data = <<>> /\ Boundary = b
    BY <1>1, BoundaryIs DEF RespInv
  <1> HIDE DEF k, z, x
  <1>7. /\ b + n \in Nat /\ b <= b + n /\ b + n <= Len(job.bytes) /\ (b + n) - b = n
        /\ n <= b + n /\ (b + n) - n = b /\ 0 <= b + n /\ b + n - 0 = b + n
    BY <1>2, <1>3
  <1> HIDE DEF b, n
  <1>8. /\ x \in Seq(STRING)
        /\ \A j \in 1..n : x[j] = job.bytes[b + j]
    <2>1. b \in Nat /\ n \in Nat
      BY <1>3
    <2>2. b + n <= Len(job.bytes)
      BY <1>7
    <2>3. /\ Piece(job.bytes, b, b + n) \in Seq(STRING)
          /\ \A j \in 1..n : Piece(job.bytes, b, b + n)[j] = job.bytes[b + j]
      BY <1>2, <2>1, <2>2, PieceOf
    <2>4. x = Piece(job.bytes, b, b + n)
      BY <1>3
    <2>5. QED
      BY <2>3, <2>4, Zenon
  <1>9. \A j \in 1..n : x[j] # LF
    <2> SUFFICES ASSUME NEW j \in 1..n
                 PROVE  job.bytes[b + j] # LF
      BY <1>8
    <2>1. b + j = b + n \/ b + j \in (b + 1)..(b + n - 1)
      BY <1>3
    <2>2. QED
      BY <1>3, <1>5, <2>1
  <1>10. pos' = b + n /\ Holds(line)'
    BY <1>1, <1>3, <1>7, <1>8 DEF Holds
  <1>11. Holds(data)'
    <2>1. Piece(job.bytes, b + n, b + n) = <<>>
      BY <1>7, EmptyPiece
    <2>2. <<>> \in Seq(STRING) /\ Len(<<>>) = 0
      OBVIOUS
    <2>3. QED
      BY <1>1, <1>6, <1>7, <1>10, <2>1, <2>2 DEF Holds
  <1>12. RespInv'
    <2>1. filled' \in pos'..Len(job'.bytes) /\ pos' \in Nat
      BY <1>1, <1>2, <1>3, <1>7
    <2>2. Len(line') <= MaxLine /\ \A j \in 1..Len(line') : line'[j] # LF
      BY <1>1, <1>3, <1>4, <1>9
    <2>3. out' # TooLong
      BY <1>1 DEF RespInv, out, Done
    <2>4. QED
      BY <1>1, <1>6, <1>10, <1>11, <2>1, <2>2, <2>3 DEF RespInv
  <1>13. Boundary' = b
    <2>1. Len(data') = 0 /\ Len(line') = n
      BY <1>1, <1>3, <1>6
    <2>2. Boundary' = (b + n) - n
      BY <1>3, <1>7, <1>10, <2>1, NextBoundary
    <2>3. QED
      BY <1>7, <2>2
  <1>14. QED
    BY <1>1, <1>6, <1>12, <1>13 DEF Whole!vars

LEMMA ReadLineStep ==
  ASSUME RespInv, ReadLine
  PROVE  RespInv' /\ (Whole!RefuseLine \/ Whole!TakeLine \/ UNCHANGED Whole!vars)
  BY LongLineStep, LineEndStep, LinePartStep

\* The stream ends in a line.
LEMMA ReadLineEofStep ==
  ASSUME RespInv, ReadLineEof
  PROVE  RespInv' /\ Whole!TakeLastLine
  <1> DEFINE z == Len(line)
             b == pos - z
             calls == IF line = <<>> THEN {Deliver(job.fn, call.stack, Err)}
                      ELSE ParseReply(job.fn, call.stack, line)
  <1>1. /\ call.pc = "line" /\ filled = pos /\ job.ends /\ filled = Len(job.bytes)
        /\ job' = job /\ filled' = filled /\ pos' = pos
        /\ line' = <<>> /\ data' = <<>> /\ call' \in calls
    BY DEF ReadLineEof, AtEof, Continue
  <1>2. /\ job.bytes \in Seq(STRING) /\ Len(job.bytes) \in Nat
        /\ pos \in Nat /\ filled \in Nat /\ pos <= filled /\ filled <= Len(job.bytes)
    BY StreamFacts
  <1>3. /\ line \in Seq(STRING) /\ z <= pos /\ line = Piece(job.bytes, b, pos)
        /\ z <= MaxLine /\ \A j \in 1..z : line[j] # LF
    BY DEF RespInv, Holds
  <1>4. z \in Nat /\ (line = <<>> <=> z = 0)
    BY <1>3
  <1>5. Tame(call')
    <2>1. IsStack(call.stack)
      BY DEF RespInv, IsCall
    <2>2. CASE line = <<>>
      <3>1. call' = Deliver(job.fn, call.stack, Err)
        BY <1>1, <2>2
      <3>2. QED
        BY <2>1, <3>1, DeliverTame, NotLong
    <2>3. CASE line # <<>>
      <3>1. call' \in ParseReply(job.fn, call.stack, line)
        BY <1>1, <2>3
      <3>2. QED
        BY <1>3, <2>1, <3>1, ParseReplyTame
    <2>4. QED
      BY <2>2, <2>3
  <1> HIDE DEF z, calls
  <1>6. RespInv'
    BY <1>1, <1>2, <1>5, Continued DEF Tame
  <1>7. Boundary = b /\ Boundary' = pos
    <2>1. Boundary = b
      BY <1>1, BoundaryIs DEF z
    <2>2. Len(line') = 0 /\ Len(data') = 0
      BY <1>1
    <2>3. QED
      BY <1>1, <1>2, <2>1, <2>2, NextBoundary
  <1>8. b \in Nat /\ b <= pos /\ b + z = pos /\ pos - b = z /\ z \in 0..MaxLine
    BY <1>2, <1>3, <1>4, SizesAssumption
  <1> HIDE DEF b
  <1>9. \A j \in (b + 1)..(b + z) : job.bytes[j] # LF
    <2> SUFFICES ASSUME NEW j \in (b + 1)..(b + z)
                 PROVE  job.bytes[j] # LF
      OBVIOUS
    <2>1. j - b \in 1..z /\ b + (j - b) = j
      BY <1>4, <1>8
    <2>2. Piece(job.bytes, b, pos)[j - b] = job.bytes[b + (j - b)]
      <3>1. j - b \in 1..(pos - b) /\ pos <= Len(job.bytes)
        BY <1>2, <1>8, <2>1
      <3>2. QED
        BY <1>2, <1>8, <3>1, PieceIs
    <2>3. QED
      BY <1>3, <2>1, <2>2
  <1>10. call' \in IF z = 0 THEN {Deliver(job.fn, call.stack, Err)}
                   ELSE ParseReply(job.fn, call.stack, SubSeq(job.bytes, b + 1, b + z))
    <2>1. line = SubSeq(job.bytes, b + 1, b + z)
      BY <1>3, <1>8 DEF Piece
    <2>2. QED
      BY <1>1, <1>4, <2>1, Zenon DEF calls
  <1>11. Whole!TakeLastLine
    BY <1>1, <1>7, <1>8, <1>9, <1>10
       DEF Whole!TakeLastLine, Whole!NoEnd, Whole!Ahead
  <1>12. QED
    BY <1>6, <1>11

LEMMA ReadNStep ==
  ASSUME RespInv, ReadN
  PROVE  RespInv' /\ (Whole!TakeBulk \/ UNCHANGED Whole!vars)
  <1> DEFINE z == Len(data)
             need == call.need
             m == IF need - z < filled - pos THEN need - z ELSE filled - pos
             b == pos - z
             n == z + m
             got == data \o SubSeq(Buffered, 1, m)
  <1>1. /\ call.pc = "bulk" /\ (filled > pos \/ need = 0)
        /\ job' = job /\ filled' = filled /\ pos' = pos + m
        /\ IF Len(got) = need
           THEN /\ line' = <<>> /\ data' = <<>>
                /\ call' = BulkDone(job.fn, call.stack, got)
           ELSE data' = got /\ line' = line /\ call' = call
    BY DEF ReadN, Continue
  <1>2. /\ job.bytes \in Seq(STRING) /\ Len(job.bytes) \in Nat
        /\ pos \in Nat /\ filled \in Nat /\ pos <= filled /\ filled <= Len(job.bytes)
    BY StreamFacts
  <1>3. call.pc = "bulk"
    BY DEF ReadN
  <1>4. /\ need \in Nat /\ z \in Nat /\ IsStack(call.stack) /\ line = <<>>
        /\ z < need \/ (need = 0 /\ z = 0)
    <2>1. /\ need \in Nat /\ data \in Seq(STRING) /\ IsStack(call.stack) /\ line = <<>>
          /\ z < need \/ (need = 0 /\ data = <<>>)
      BY <1>3 DEF RespInv, IsCall, Holds
    <2>2. z \in Nat /\ (data = <<>> => z = 0)
      BY <2>1
    <2>3. QED
      BY <2>1, <2>2
  <1> HIDE DEF z, need
  <1>5. m \in 0..(filled - pos) /\ n <= need
    BY <1>2, <1>4
  <1> HIDE DEF m
  <1>6. /\ b \in Nat /\ n \in Nat /\ pos + m = b + n /\ b + n <= filled
        /\ got = Piece(job.bytes, b, b + n)
        /\ got \in Seq(STRING) /\ Len(got) = n
    BY <1>5, BulkForm DEF z
  <1>7. Boundary = b
    BY <1>3, BoundaryIs DEF z
  <1> HIDE DEF got, b, n
  <1>8. b + n \in Nat /\ b + n <= Len(job.bytes) /\ pos' = b + n
    BY <1>1, <1>2, <1>6
  <1>9. CASE n = need
    <2>1. /\ line' = <<>> /\ data' = <<>>
          /\ call' = BulkDone(job.fn, call.stack, got)
      BY <1>1, <1>6, <1>9
    <2>2. Tame(call')
      BY <1>4, <2>1, BulkDoneTame
    <2>3. RespInv'
      BY <1>1, <1>6, <1>8, <2>1, <2>2, Continued DEF Tame
    <2>4. Boundary' = b + n
      <3>1. Len(line') = 0 /\ Len(data') = 0
        BY <2>1
      <3>2. QED
        BY <1>8, <3>1, NextBoundary
    <2>5. got = SubSeq(job.bytes, b + 1, b + n)
      BY <1>6 DEF Piece
    <2>6. Whole!TakeBulk
      BY <1>1, <1>3, <1>7, <1>8, <1>9, <2>1, <2>4, <2>5
         DEF Whole!TakeBulk, Whole!Ahead, need
    <2>7. QED
      BY <2>3, <2>6
  <1>10. CASE n # need
    <2>1. data' = got /\ line' = line /\ call' = call
      BY <1>1, <1>6, <1>10
    <2>2. n < need
      BY <1>4, <1>5, <1>6, <1>10
    <2>3. Holds(data)'
      <3>1. n <= b + n /\ (b + n) - n = b
        BY <1>6
      <3>2. QED
        BY <1>1, <1>6, <1>8, <2>1, <3>1 DEF Holds
    <2>4. Holds(line)'
      <3>1. Piece(job.bytes, b + n, b + n) = <<>>
        BY <1>8, EmptyPiece
      <3>2. <<>> \in Seq(STRING) /\ Len(<<>>) = 0 /\ b + n - 0 = b + n /\ 0 <= b + n
        BY <1>6
      <3>3. QED
        BY <1>1, <1>4, <1>8, <2>1, <3>1, <3>2 DEF Holds
    <2>5. RespInv'
      <3>1. filled' \in pos'..Len(job'.bytes) /\ pos' \in Nat
        BY <1>1, <1>2, <1>6, <1>8
      <3>2. Len(data') < call'.need
        BY <1>6, <2>1, <2>2 DEF need
      <3>3. out' # TooLong
        BY <1>3, <2>1 DEF RespInv, out, Done
      <3>4. QED
        BY <1>1, <1>3, <2>1, <2>3, <2>4, <3>1, <3>2, <3>3 DEF RespInv
    <2>6. Boundary' = b
      <3>1. Len(line') = 0 /\ Len(data') = n
        BY <1>4, <1>6, <2>1
      <3>2. (b + n) - n = b
        BY <1>6
      <3>3. Boundary' = (b + n) - n
        BY <1>6, <1>8, <3>1, NextBoundary
      <3>4. QED
        BY <3>2, <3>3
    <2>7. QED
      BY <1>1, <1>7, <2>1, <2>5, <2>6 DEF Whole!vars
  <1>11. QED
    BY <1>9, <1>10

\* The stream ends in a bulk string.
LEMMA ReadNEofStep ==
  ASSUME RespInv, ReadNEof
  PROVE  RespInv' /\ Whole!RefuseBulk
  <1> DEFINE z == Len(data)
             c == Deliver(job.fn, call.stack, Err)
  <1>1. /\ call.pc = "bulk" /\ filled = pos /\ job.ends /\ filled = Len(job.bytes)
        /\ call.need > 0 /\ job' = job /\ filled' = filled /\ pos' = pos
        /\ line' = <<>> /\ data' = <<>> /\ call' = c
    BY DEF ReadNEof, AtEof, Continue
  <1>2. /\ job.bytes \in Seq(STRING) /\ Len(job.bytes) \in Nat
        /\ pos \in Nat /\ filled \in Nat /\ pos <= filled /\ filled <= Len(job.bytes)
    BY StreamFacts
  <1>3. /\ call.need \in Nat /\ z \in Nat /\ IsStack(call.stack) /\ z < call.need
    BY <1>1 DEF RespInv, IsCall, Holds
  <1>4. Tame(c)
    BY <1>3, DeliverTame, NotLong
  <1> HIDE DEF z
  <1>5. RespInv'
    BY <1>1, <1>2, <1>4, Continued DEF Tame
  <1>6. Boundary = pos - z /\ Boundary' = pos
    <2>1. Boundary = pos - z
      BY <1>1, BoundaryIs DEF z
    <2>2. Len(line') = 0 /\ Len(data') = 0
      BY <1>1
    <2>3. QED
      BY <1>1, <1>2, <2>1, <2>2, NextBoundary
  <1>7. (pos - z) + call.need > Len(job.bytes)
    BY <1>1, <1>2, <1>3
  <1>8. Whole!RefuseBulk
    BY <1>1, <1>6, <1>7 DEF Whole!RefuseBulk
  <1>9. QED
    BY <1>5, <1>8

LEMMA StartStep ==
  ASSUME Init
  PROVE  RespInv /\ Whole!Init
  <1>1. /\ job \in Jobs /\ pos = 0 /\ filled = 0 /\ line = <<>> /\ data = <<>>
        /\ call = Start(job)
    BY DEF Init
  <1>2. job.bytes \in Seq(STRING) /\ Len(job.bytes) \in Nat
    <2>1. job.bytes \in Seq(STRING)
      BY <1>1, JobsAssumption
    <2>2. QED
      BY <2>1
  <1>3. Holds(<<>>)
    BY <1>1, <1>2, EmptyHolds
  <1>4. Tame(call) /\ call.pc \in {"line", "done"}
    BY <1>1, StartTame
  <1>5. Len(<<>>) = 0
    OBVIOUS
  <1>6. RespInv
    <2>1. filled \in pos..Len(job.bytes) /\ pos \in Nat
      BY <1>1, <1>2
    <2>2. Len(line) <= MaxLine /\ \A j \in 1..Len(line) : line[j] # LF
      BY <1>1, <1>5, SizesAssumption
    <2>3. QED
      BY <1>1, <1>3, <1>4, <2>1, <2>2 DEF RespInv, Tame, out
  <1>7. Boundary = 0
    <2>1. Len(line) = 0 /\ Len(data) = 0
      BY <1>1, <1>5
    <2>2. 0 - 0 - 0 = 0
      OBVIOUS
    <2>3. QED
      BY <1>1, <2>1, <2>2, Zenon DEF Boundary
  <1>8. Whole!Init
    BY <1>1, <1>7 DEF Whole!Init
  <1>9. QED
    BY <1>6, <1>8

LEMMA NextStep ==
  ASSUME RespInv, [Next]_vars
  PROVE  RespInv' /\ [Whole!Next]_(Whole!vars)
  <1>1. CASE FillBuf
    BY <1>1, FillBufStep
  <1>2. CASE ReadLine
    BY <1>2, ReadLineStep DEF Whole!Next
  <1>3. CASE ReadLineEof
    BY <1>3, ReadLineEofStep DEF Whole!Next
  <1>4. CASE ReadN
    BY <1>4, ReadNStep DEF Whole!Next
  <1>5. CASE ReadNEof
    BY <1>5, ReadNEofStep DEF Whole!Next
  <1>6. CASE UNCHANGED vars
    BY <1>6 DEF vars, RespInv, Holds, out, Done, Whole!vars, Boundary
  <1>7. QED
    BY <1>1, <1>2, <1>3, <1>4, <1>5, <1>6 DEF Next

-----------------------------------------------------------------------------
(* Theorems                                                                  *)

\* Whatever the stream and its chunks, what read_line and read_n of src/parser.rs
\* hold is the piece of the stream they consumed last, and at most one of them
\* holds anything.
THEOREM RespInvariant == Spec => []RespInv
  <1>1. Init => RespInv
    BY StartStep
  <1>2. RespInv /\ [Next]_vars => RespInv'
    BY NextStep
  <1>3. QED
    BY <1>1, <1>2, PTL DEF Spec

\* read_line never holds more than MAX_LINE_LEN bytes, whatever the chunks, and a
\* line that it gives up leaves bytes in the BufReader.
THEOREM LinesStayBounded == Spec => []LineBounded
  <1>1. RespInv => LineBounded
    BY StreamFacts DEF RespInv, LineBounded
  <1>2. QED
    BY <1>1, RespInvariant, PTL

\* The parser that reads chunk by chunk implements the one that takes lines and
\* bulk strings off the stream whole.
THEOREM ChunksDoNotMatter == Spec => ReadsWhole
  <1>1. Init => Whole!Init
    BY StartStep
  <1>2. RespInv /\ [Next]_vars => [Whole!Next]_(Whole!vars)
    BY NextStep
  <1>3. QED
    BY <1>1, <1>2, RespInvariant, PTL DEF Spec, ReadsWhole, Whole!Spec
=============================================================================
