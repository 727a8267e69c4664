--------------------------- MODULE Commands_proofs ---------------------------
(* What the typed methods make of replies, and what run() makes the server   *)
(* do, for any number of calls on the connection, abandoned or not, arrays   *)
(* of any length, and any other client's use of the script cache.            *)
EXTENDS Script, Induction, SequenceTheorems

-----------------------------------------------------------------------------
(* Script: the replies that wait, and what run() has made the server do      *)

AllReplies == UNION {Replies(c) : c \in Methods \cup ScriptMethods \cup {"EVAL", "EVALSHA"}}

\* The unread replies are numbered upwards, after the one read last; the reply
\* that a call waits for is the last of them.
Queued ==
  /\ calls \in Nat
  /\ wire \in Seq([id : Nat, v : AllReplies])
  /\ reply.id \in 0..calls
  /\ \A j \in 1..Len(wire) : reply.id < wire[j].id /\ wire[j].id <= calls
  /\ \A j, k \in 1..Len(wire) : j < k => wire[j].id < wire[k].id
  /\ pc = "wait" => wire # <<>> /\ wire[Len(wire)].id = calls

\* One request for the script was answered with v and did not fail to find it.
Once(v) == ran <= 1 /\ (v.k # "error" => ran = 1)

\* What run() has made of the script, from the answer it waits for or has read.
Counted ==
  /\ ran \in Nat
  /\ pc \in {"idle", "wait", "pairs"}
  /\ stage \in {"none", "evalsha", "eval"}
  /\ pc = "wait" /\ stage = "evalsha" /\ ~echoed =>
       LET v == wire[Len(wire)].v
       IN  Once(v) /\ (v = Failure("NOSCRIPT") => ran = 0)
  /\ pc = "wait" /\ stage = "eval" /\ ~echoed /\ Len(wire) = 1 => Once(wire[1].v)
  /\ pc # "wait" /\ stage # "none" /\ ~echoed /\ InStep => Once(reply.v)
  /\ pc = "pairs" => reply.v.k = "array"
  /\ pc = "idle" /\ stage # "none" /\ InStep /\ result.ok => reply.v.k # "error"

ScriptInv == Queued /\ Counted

Asked  == Methods \cup ScriptMethods \cup {"EVAL", "EVALSHA"}
Unread == [id : Nat, v : AllReplies]

\* The replies w come after number r, upwards.
Upwards(w, r) ==
  /\ w \in Seq(Unread)
  /\ r \in 0..calls
  /\ \A j \in 1..Len(w) : r < w[j].id /\ w[j].id <= calls
  /\ \A j, k \in 1..Len(w) : j < k => w[j].id < w[k].id

\* A request goes out behind w.
LEMMA RequestStep ==
  ASSUME calls \in Nat, NEW w, NEW r, Upwards(w, r), NEW c \in Asked,
         Request(c, w), reply'.id = r
  PROVE  Queued' /\ wire' # <<>> /\ Len(wire') = Len(w) + 1 /\ calls' # r
  <1>1. PICK x \in Replies(c) : wire' = Append(w, [id |-> calls', v |-> x])
    BY DEF Request
  <1> DEFINE e == [id |-> calls', v |-> x]
  <1>2. calls' = calls + 1 /\ calls' \in Nat
    BY DEF Request
  <1>3. e \in Unread /\ e.id = calls'
    BY <1>2 DEF Unread, AllReplies, Asked
  <1>4. wire' = Append(w, e)
    BY <1>1
  <1> HIDE DEF e
  <1>5. w \in Seq(Unread) /\ Len(w) \in Nat /\ r \in 0..calls
    BY DEF Upwards
  <1>6. /\ wire' \in Seq(Unread) /\ wire' # <<>> /\ Len(wire') = Len(w) + 1
        /\ \A j \in 1..Len(w) : wire'[j] = w[j]
        /\ wire'[Len(w) + 1] = e
    BY <1>3, <1>4, <1>5, AppendProperties
  <1>7. \A j \in 1..Len(wire') : j \in 1..Len(w) \/ (j = Len(w) + 1 /\ wire'[j] = e)
    BY <1>5, <1>6
  <1>8. \A j \in 1..Len(w) : w[j].id \in Nat /\ r < w[j].id /\ w[j].id <= calls
    <2> SUFFICES ASSUME NEW j \in 1..Len(w)
                 PROVE  w[j].id \in Nat /\ r < w[j].id /\ w[j].id <= calls
      OBVIOUS
    <2>1. w[j] \in Unread
      BY <1>5
    <2>2. w[j].id \in Nat
      BY <2>1 DEF Unread
    <2>3. QED
      BY <2>2 DEF Upwards
  <1>9. \A j \in 1..Len(wire') : r < wire'[j].id /\ wire'[j].id <= calls'
    <2> SUFFICES ASSUME NEW j \in 1..Len(wire')
                 PROVE  r < wire'[j].id /\ wire'[j].id <= calls'
      OBVIOUS
    <2>1. CASE j \in 1..Len(w)
      <3>1. wire'[j].id \in Nat /\ r < wire'[j].id /\ wire'[j].id <= calls
        BY <1>6, <1>8, <2>1
      <3>2. QED
        BY <1>2, <3>1
    <2>2. CASE wire'[j] = e
      BY <1>2, <1>3, <1>5, <2>2
    <2>3. QED
      BY <1>7, <2>1, <2>2
  <1>10. ASSUME NEW j \in 1..Len(wire'), NEW k \in 1..Len(wire'), j < k
         PROVE  wire'[j].id < wire'[k].id
    <2>1. j \in 1..Len(w)
      BY <1>5, <1>6, <1>10
    <2>2. CASE k \in 1..Len(w)
      <3>1. w[j].id < w[k].id
        BY <1>10, <2>1, <2>2 DEF Upwards
      <3>2. QED
        BY <1>6, <2>1, <2>2, <3>1
    <2>3. CASE wire'[k] = e
      <3>1. wire'[j].id \in Nat /\ wire'[j].id <= calls
        BY <1>6, <1>8, <2>1
      <3>2. QED
        BY <1>2, <1>3, <2>3, <3>1
    <2>4. QED
      BY <1>7, <2>2, <2>3
  <1>11. reply'.id \in 0..calls' /\ calls' # r
    BY <1>2, <1>5
  <1>12. wire'[Len(wire')].id = calls'
    BY <1>3, <1>6
  <1>13. QED
    BY <1>2, <1>6, <1>9, <1>10, <1>11, <1>12 DEF Queued, Unread

\* The reply at the front is read.
LEMMA ReadStep ==
  ASSUME Queued, wire # <<>>
  PROVE  /\ Upwards(Tail(wire), Head(wire).id)
         /\ Head(wire) = wire[1]
         /\ Len(wire) \in Nat \ {0} /\ Len(Tail(wire)) = Len(wire) - 1
         /\ pc = "wait" /\ Head(wire).id = calls => Len(wire) = 1
  <1> DEFINE w == Tail(wire)
             h == Head(wire)
  <1>1. wire \in Seq(Unread) /\ Len(wire) \in Nat \ {0} /\ calls \in Nat
    BY DEF Queued, Unread
  <1>2. h = wire[1] /\ h \in Unread /\ 1 \in 1..Len(wire)
    BY <1>1
  <1>3. /\ w \in Seq(Unread) /\ Len(w) = Len(wire) - 1
        /\ \A j \in 1..Len(w) : w[j] = wire[j + 1]
    BY <1>1, HeadTailProperties
  <1> HIDE DEF w, h
  <1>4. \A j \in 1..Len(w) : j + 1 \in 1..Len(wire) /\ 1 < j + 1
    BY <1>1, <1>3
  <1>5. h.id \in 0..calls
    <2>1. h.id \in Nat /\ h.id <= calls
      BY <1>2 DEF Queued, Unread
    <2>2. QED
      BY <1>1, <2>1
  <1>6. \A j \in 1..Len(w) : h.id < w[j].id /\ w[j].id <= calls
    BY <1>2, <1>3, <1>4 DEF Queued
  <1>7. \A j, k \in 1..Len(w) : j < k => w[j].id < w[k].id
    <2> SUFFICES ASSUME NEW j \in 1..Len(w), NEW k \in 1..Len(w), j < k
                 PROVE  w[j].id < w[k].id
      OBVIOUS
    <2>1. j + 1 < k + 1
      OBVIOUS
    <2>2. wire[j + 1].id < wire[k + 1].id
      BY <1>4, <2>1 DEF Queued
    <2>3. QED
      BY <1>3, <2>2
  <1>8. ASSUME pc = "wait", h.id = calls, Len(wire) # 1
        PROVE  FALSE
    <2>1. Len(wire) \in 1..Len(wire) /\ 1 < Len(wire)
      <3> DEFINE n == Len(wire)
      <3>1. n \in Nat \ {0} /\ n # 1
        BY <1>1, <1>8
      <3> HIDE DEF n
      <3>2. n \in 1..n /\ 1 < n
        BY <3>1
      <3>3. QED
        BY <3>2 DEF n
    <2>2. wire[1].id < wire[Len(wire)].id
      BY <1>2, <2>1 DEF Queued
    <2>3. wire[Len(wire)].id = calls
      BY <1>8 DEF Queued
    <2>4. QED
      BY <1>1, <1>2, <1>8, <2>2, <2>3
  <1>9. Upwards(w, h.id)
    BY <1>3, <1>5, <1>6, <1>7 DEF Upwards
  <1>10. QED
    BY <1>1, <1>2, <1>3, <1>8, <1>9 DEF w, h

-----------------------------------------------------------------------------
(* Steps                                                                     *)

\* What the server counts for a request that it answers with v.
LEMMA ServesCounts ==
  ASSUME NEW c, NEW n \in Nat, NEW e, Serves(c, n, e)
  PROVE  LET v == wire'[Len(wire')].v
         IN  /\ ran' \in {n, n + 1}
             /\ e => echoed'
             /\ c \in {"EVAL", "EVALSHA"} /\ v.k # "error" => ran' = n + 1
             /\ c = "EVALSHA" /\ v = Failure("NOSCRIPT") /\ ~echoed' => ran' = n
  <1> DEFINE v == wire'[Len(wire')].v
             found == c = "EVAL" \/ (c = "EVALSHA" /\ loaded)
  <1>1. /\ c = "EVALSHA" /\ ~loaded => v = Failure("NOSCRIPT")
        /\ ran' \in CASE ~found -> {n}
                      [] found /\ v = Failure("ERR") -> {n, n + 1}
                      [] found /\ v # Failure("ERR") -> {n + 1}
        /\ echoed' = (e \/ (found /\ v = Failure("NOSCRIPT")))
    BY DEF Serves
  <1>2. Failure("ERR").k = "error" /\ Failure("NOSCRIPT").k = "error"
    BY DEF Failure
  <1> HIDE DEF v, found
  <1>3. CASE ~found
    <2>1. ran' = n
      BY <1>1, <1>3
    <2>2. c \in {"EVAL", "EVALSHA"} => v = Failure("NOSCRIPT")
      BY <1>1, <1>3 DEF found
    <2>3. QED
      BY <1>1, <1>2, <2>1, <2>2 DEF v
  <1>4. CASE found
    <2>1. ran' \in {n, n + 1} /\ (v # Failure("ERR") => ran' = n + 1)
      BY <1>1, <1>4
    <2>2. v = Failure("NOSCRIPT") => echoed'
      BY <1>1, <1>4
    <2>3. e => echoed'
      BY <1>1
    <2>4. QED
      BY <1>2, <2>1, <2>2, <2>3 DEF v
  <1>5. QED
    BY <1>3, <1>4

LEMMA QueuedUpwards == Queued => calls \in Nat /\ Upwards(wire, reply.id)
  BY DEF Queued, Upwards, Unread

LEMMA PlainCallStep ==
  ASSUME ScriptInv, NEW c \in Methods, PlainCall(c)
  PROVE  ScriptInv'
  <1>1. Request(c, wire) /\ reply' = reply /\ pc' = "wait" /\ stage' = "none" /\ ran' = 0
    BY DEF PlainCall, Call
  <1>2. Queued'
    BY <1>1, RequestStep, QueuedUpwards DEF ScriptInv, Asked
  <1>3. Counted'
    BY <1>1 DEF Counted
  <1>4. QED
    BY <1>2, <1>3 DEF ScriptInv

LEMMA ScriptCallStep ==
  ASSUME ScriptInv, NEW c \in ScriptMethods, ScriptCall(c)
  PROVE  ScriptInv'
  <1>1. Request(c, wire) /\ reply' = reply /\ pc' = "wait" /\ stage' = "none"
    BY DEF ScriptCall, Call
  <1>2. Queued'
    BY <1>1, RequestStep, QueuedUpwards DEF ScriptInv, Asked
  <1>3. ran' \in Nat
    <2>1. Serves(c, 0, FALSE)
      BY DEF ScriptCall
    <2>2. ran' \in {0, 0 + 1}
      BY <2>1, ServesCounts
    <2>3. QED
      BY <2>2
  <1>4. Counted'
    BY <1>1, <1>3 DEF Counted
  <1>5. QED
    BY <1>2, <1>4 DEF ScriptInv

LEMMA RunCallStep ==
  ASSUME ScriptInv, RunCall
  PROVE  ScriptInv'
  <1> DEFINE v == wire'[Len(wire')].v
  <1>1. /\ Request("EVALSHA", wire) /\ reply' = reply /\ pc' = "wait"
        /\ stage' = "evalsha" /\ Serves("EVALSHA", 0, FALSE)
    BY DEF RunCall, Call
  <1>2. Queued'
    BY <1>1, RequestStep, QueuedUpwards DEF ScriptInv, Asked
  <1>3. /\ ran' \in {0, 1} /\ ran' <= 1 /\ (v.k # "error" => ran' = 1)
        /\ v = Failure("NOSCRIPT") /\ ~echoed' => ran' = 0
    <2>1. /\ ran' \in {0, 0 + 1} /\ (v.k # "error" => ran' = 0 + 1)
          /\ v = Failure("NOSCRIPT") /\ ~echoed' => ran' = 0
      BY <1>1, ServesCounts
    <2> HIDE DEF v
    <2>2. QED
      BY <2>1
  <1>4. Counted'
    <2>1. ran' \in Nat
      BY <1>3
    <2>2. QED
      BY <1>1, <1>3, <2>1 DEF Counted, Once
  <1>5. QED
    BY <1>2, <1>4 DEF ScriptInv

LEMMA RunFallbackStep ==
  ASSUME ScriptInv, RunFallback
  PROVE  ScriptInv'
  <1>1. /\ pc = "wait" /\ pc' = "wait" /\ stage = "evalsha" /\ stage' = "eval"
        /\ Head(wire).v = Failure("NOSCRIPT")
        /\ reply' = Head(wire) /\ Request("EVAL", Tail(wire)) /\ Serves("EVAL", ran, echoed)
    BY DEF RunFallback, FallsBack
  <1>2. wire # <<>> /\ Queued /\ calls \in Nat
    BY <1>1 DEF ScriptInv, Queued
  <1>3. /\ Upwards(Tail(wire), Head(wire).id) /\ Head(wire) = wire[1]
        /\ Len(wire) \in Nat \ {0} /\ Len(Tail(wire)) = Len(wire) - 1
    BY <1>2, ReadStep
  <1>4. Queued' /\ Len(wire') = Len(Tail(wire)) + 1
    BY <1>1, <1>2, <1>3, RequestStep DEF Asked
  <1>5. ran \in Nat
    BY DEF ScriptInv, Counted
  <1>6. /\ ran' \in {ran, ran + 1} /\ (echoed => echoed')
        /\ wire'[Len(wire')].v.k # "error" => ran' = ran + 1
    BY <1>1, <1>5, ServesCounts
  <1>7. ASSUME ~echoed', Len(wire') = 1
        PROVE  ran' <= 1 /\ (wire'[1].v.k # "error" => ran' = 1)
    <2>1. ~echoed
      BY <1>6, <1>7
    <2>2. Len(wire) = 1
      <3> DEFINE a == Len(wire)
                 b == Len(Tail(wire))
      <3>1. a \in Nat /\ b = a - 1 /\ b + 1 = 1
        BY <1>3, <1>4, <1>7
      <3> HIDE DEF a, b
      <3>2. a = 1
        BY <3>1
      <3>3. QED
        BY <3>2 DEF a
    <2>3. ran = 0
      BY <1>1, <1>3, <2>1, <2>2 DEF ScriptInv, Counted
    <2>4. ran' \in {0, 1} /\ (wire'[1].v.k # "error" => ran' = 1)
      BY <1>6, <1>7, <2>3
    <2>5. QED
      BY <2>4
  <1>8. Counted'
    <2>1. ran' \in Nat
      BY <1>5, <1>6
    <2>2. QED
      BY <1>1, <1>7, <2>1 DEF Counted, Once
  <1>9. QED
    BY <1>4, <1>8 DEF ScriptInv

LEMMA ScriptReceiveStep ==
  ASSUME ScriptInv, ScriptReceive
  PROVE  ScriptInv'
  <1>1. /\ pc = "wait" /\ reply' = Head(wire) /\ wire' = Tail(wire)
        /\ ~(stage = "evalsha" /\ FallsBack(Head(wire).v))
        /\ UNCHANGED <<calls, stage, ran, echoed>>
    BY DEF ScriptReceive, Receive, scriptVars
  <1>2. \/ pc' = "pairs" /\ reply'.v.k = "array"
        \/ pc' = "idle" /\ result' = Decode(Decoder[cmd], reply'.v)
    BY DEF ScriptReceive, Receive, Entering
  <1>3. wire # <<>> /\ Queued /\ calls \in Nat
    BY <1>1 DEF ScriptInv, Queued
  <1>4. /\ Upwards(Tail(wire), Head(wire).id) /\ Head(wire) = wire[1]
        /\ Head(wire).id = calls => Len(wire) = 1
    BY <1>1, <1>3, ReadStep
  <1>5. Queued'
    BY <1>1, <1>2, <1>3, <1>4 DEF Queued, Upwards, Unread
  <1>6. reply'.v.k = "error" /\ pc' = "idle" => ~result'.ok
    BY <1>2 DEF Decode, Err
  <1>7. stage # "none" /\ ~echoed /\ InStep' => Once(reply.v)'
    BY <1>1, <1>4 DEF ScriptInv, Counted, InStep, Once
  <1>8. Counted'
    BY <1>1, <1>2, <1>6, <1>7 DEF ScriptInv, Counted
  <1>9. QED
    BY <1>5, <1>8 DEF ScriptInv

LEMMA AbandonStep ==
  ASSUME ScriptInv, Abandon, UNCHANGED scriptVars
  PROVE  ScriptInv'
  <1>1. /\ pc = "wait" /\ pc' = "idle"
        /\ UNCHANGED <<wire, calls, reply, ran, stage, echoed>>
    BY DEF Abandon, scriptVars
  <1>2. Queued'
    BY <1>1 DEF ScriptInv, Queued
  <1>3. reply.id # calls
    <2>1. calls \in Nat /\ wire \in Seq(Unread) /\ wire # <<>> /\ wire[Len(wire)].id = calls
      BY <1>1 DEF ScriptInv, Queued, Unread
    <2>2. Len(wire) \in 1..Len(wire)
      BY <2>1
    <2>3. reply.id < calls /\ reply.id \in 0..calls
      BY <2>1, <2>2 DEF ScriptInv, Queued
    <2>4. QED
      BY <2>1, <2>3
  <1>4. Counted'
    BY <1>1, <1>3 DEF ScriptInv, Counted, InStep
  <1>5. QED
    BY <1>2, <1>4 DEF ScriptInv

LEMMA DecodeStepStep ==
  ASSUME ScriptInv, DecodeStep, UNCHANGED scriptVars
  PROVE  ScriptInv'
  <1>1. /\ pc = "pairs" /\ pc' \in {"pairs", "idle"}
        /\ UNCHANGED <<wire, calls, reply, ran, stage, echoed>>
    BY DEF DecodeStep, LoopEnds, MapInsert, MapContinue, ZPush, ZInvalid, ZSkip, AtPair,
           scriptVars, vars
  <1>2. Queued'
    BY <1>1 DEF ScriptInv, Queued
  <1>3. reply.v.k = "array"
    BY <1>1 DEF ScriptInv, Counted
  <1>4. Counted'
    BY <1>1, <1>3 DEF ScriptInv, Counted, InStep, Once
  <1>5. QED
    BY <1>2, <1>4 DEF ScriptInv

LEMMA ScriptFrame ==
  ASSUME ScriptInv, UNCHANGED <<vars, stage, ran, echoed>>
  PROVE  ScriptInv'
  <1>1. Queued'
    BY DEF ScriptInv, Queued, vars
  <1>2. Counted'
    BY DEF ScriptInv, Counted, InStep, Once, vars
  <1>3. QED
    BY <1>1, <1>2 DEF ScriptInv

LEMMA ScriptStep == ScriptInv /\ [ScriptNext]_allVars => ScriptInv'
  <1> SUFFICES ASSUME ScriptInv, [ScriptNext]_allVars
               PROVE  ScriptInv'
    OBVIOUS
  <1>1. CASE Flush
    BY <1>1, ScriptFrame DEF Flush
  <1>2. CASE UNCHANGED allVars
    BY <1>2, ScriptFrame DEF allVars, scriptVars
  <1>3. QED
    BY <1>1, <1>2, PlainCallStep, ScriptCallStep, RunCallStep, RunFallbackStep,
       ScriptReceiveStep, AbandonStep, DecodeStepStep DEF ScriptNext

LEMMA ScriptStarts == ScriptInit => ScriptInv
  <1> SUFFICES ASSUME ScriptInit PROVE ScriptInv
    OBVIOUS
  <1>1. Queued
    BY DEF ScriptInit, Init, Queued, NoReply
  <1>2. Counted
    BY DEF ScriptInit, Init, Counted
  <1>3. QED
    BY <1>1, <1>2 DEF ScriptInv

\* The inductive invariant of the replies that wait on the connection and of
\* what the calls of run() have made the server do.
THEOREM ScriptInvariant == ScriptSpec => []ScriptInv
  BY ScriptStarts, ScriptStep, PTL DEF ScriptSpec

\* Script::run() makes the server run the script once, with any number of calls
\* before it on the connection and any change of the script cache in between.
THEOREM RunOnce == ScriptSpec => []RunsOnce
  <1>1. ScriptInv => RunsOnce
    BY DEF ScriptInv, Counted, RunsOnce, Once
  <1>2. QED
    BY <1>1, ScriptInvariant, PTL

-----------------------------------------------------------------------------
(* Commands: what a method makes of its reply                                *)

\* A single value, and a reply, of the forms that servers send.
IsSingle(v) ==
  \/ v \in Bulks
  \/ v = Nil
  \/ v.k = "int" /\ v.n \in Int /\ v = Num(v.n)

IsArray(v) ==
  /\ v.k = "array"
  /\ v = Array(v.a)
  /\ Len(v.a) \in Nat
  /\ v.a = [j \in 1..Len(v.a) |-> v.a[j]]
  /\ \A j \in 1..Len(v.a) : IsSingle(v.a[j])

IsReply(v) ==
  \/ v \in {Failure("ERR"), Failure("NOSCRIPT"), Status(Plain)}
  \/ IsSingle(v)
  \/ IsArray(v)

\* Map m holds the first n pairs of a, of those with the same key the last.
Inserted(a, m, n) ==
  /\ \A j \in 1..n : IsText(a[2 * j - 1]) /\ IsText(a[2 * j])
  /\ m = [f \in DOMAIN m |-> m[f]]
  /\ DOMAIN m = {a[2 * j - 1].s : j \in 1..n}
  /\ \A j \in 1..n :
       (\A l \in (j + 1)..n : a[2 * l - 1].s # a[2 * j - 1].s) =>
          m[a[2 * j - 1].s] = a[2 * j].s

\* The first n members and scores of a.
Scored(a, n) == [j \in 1..n |-> <<a[2 * j - 1].s, a[2 * j].s>>]

AllScored(a) == TextPairs(a) /\ \A j \in Pairs(a) : IsNumber(a[2 * j].s)

\* What decoder d has made of array a when it has looped over n pairs.
Looped(d, a, x, n) ==
  CASE d = "map"   -> Inserted(a, x, n)
    [] d = "z_vec" -> AllScored(a) => x = Scored(a, n)

\* Result r is what decoder d makes of reply v.
Made(d, v, r) ==
  IF d \in Looping /\ v.k = "array"
  THEN /\ r.ok => r = Ok(d, r.v) /\ Looped(d, v.a, r.v, Len(v.a) \div 2)
       /\ (d = "z_vec" => AllScored(v.a)) => r.ok
  ELSE r = Decode(d, v)

Answered ==
  /\ cmd \in Methods
  /\ IsReply(reply.v)
  /\ pc = "wait" => wire[Len(wire)].v \in Replies(cmd)
  /\ pc # "wait" /\ calls > 0 /\ InStep => reply.v \in Replies(cmd)
  /\ pc = "pairs" =>
       /\ Decoder[cmd] \in Looping
       /\ reply.v.k = "array"
       /\ reply.id # 0
       /\ (Decoder[cmd] = "z_vec" => AllScored(reply.v.a)) =>
            \E n \in 0..Len(reply.v.a) :
              i = 2 * n /\ i <= Len(reply.v.a) /\ Looped(Decoder[cmd], reply.v.a, acc, n)
  /\ pc = "idle" /\ reply.id # 0 =>
       Made(Decoder[cmd], reply.v, result) \/ (result = Err /\ ~InStep)

CommandsInv == ScriptInv /\ Answered

-----------------------------------------------------------------------------
(* The tables                                                                *)

\* What the server answers command c with fits what decoder d reads.
OfKind(c, d) ==
  \/ c \in Acknowledged /\ d = "status"
  \/ c = "PING" /\ d = "string"
  \/ c \in YesNo /\ d = "bool"
  \/ c \in Counts /\ d = "int"
  \/ c \in {"TTL", "PTTL"} /\ d = "duration"
  \/ c \in Values /\ d = "string"
  \/ c \in MaybeValues /\ d = "opt_string"
  \/ c \in ValueLists /\ d = "strings"
  \/ c \in {"MGET", "HMGET"} /\ d = "opt_strings"
  \/ c \in Increments /\ d = "float"
  \/ c = "ZSCORE" /\ d = "opt_float"
  \/ c \in {"ZRANK", "ZREVRANK"} /\ d = "opt_int"
  \/ c \in {"BLPOP", "BRPOP"} /\ d = "opt_pair"
  \/ c = "HGETALL" /\ d = "map"
  \/ c \in {"ZRANGE WITHSCORES", "ZREVRANGE WITHSCORES"} /\ d = "z_vec"
  \/ c = "SCRIPT EXISTS" /\ d = "bools"
  \/ c \in {"EVAL", "EVALSHA"} /\ d = "raw"

\* Group g gives command c decoder d.
Gives(g, c, d) == d \in DOMAIN g /\ c \in g[d]

LEMMA ConnectionCommandsFit ==
  ASSUME NEW c, NEW d, Gives(ConnectionCommands, c, d)
  PROVE  OfKind(c, d)
  <1>1. /\ d \in {"status", "string"}
        /\ c \in ConnectionCommands[d]
    BY DEF Gives, ConnectionCommands
  <1>2. CASE d = "status"
    BY <1>1, <1>2 DEF ConnectionCommands, OfKind, Acknowledged
  <1>3. CASE d = "string"
    BY <1>1, <1>3 DEF ConnectionCommands, OfKind, Values
  <1>4. QED
    BY <1>1, <1>2, <1>3

LEMMA KeyCommandsFit ==
  ASSUME NEW c, NEW d, Gives(KeyCommands, c, d)
  PROVE  OfKind(c, d)
  <1>1. /\ d \in {"int", "bool", "strings", "duration", "opt_string", "status"}
        /\ c \in KeyCommands[d]
    BY DEF Gives, KeyCommands
  <1>2. CASE d = "int"
    BY <1>1, <1>2 DEF KeyCommands, OfKind, Counts
  <1>3. CASE d = "bool"
    BY <1>1, <1>3 DEF KeyCommands, OfKind, YesNo
  <1>4. CASE d = "strings"
    BY <1>1, <1>4 DEF KeyCommands, OfKind, ValueLists
  <1>5. CASE d = "duration"
    BY <1>1, <1>5 DEF KeyCommands, OfKind
  <1>6. CASE d = "opt_string"
    BY <1>1, <1>6 DEF KeyCommands, OfKind, MaybeValues
  <1>7. CASE d = "status"
    BY <1>1, <1>7 DEF KeyCommands, OfKind, Acknowledged
  <1>8. QED
    BY <1>1, <1>2, <1>3, <1>4, <1>5, <1>6, <1>7

LEMMA StringCommandsFit ==
  ASSUME NEW c, NEW d, Gives(StringCommands, c, d)
  PROVE  OfKind(c, d)
  <1>1. /\ d \in {"opt_string", "status", "bool", "opt_strings", "int", "float", "string"}
        /\ c \in StringCommands[d]
    BY DEF Gives, StringCommands
  <1>2. CASE d = "opt_string"
    BY <1>1, <1>2 DEF StringCommands, OfKind, MaybeValues
  <1>3. CASE d = "status"
    BY <1>1, <1>3 DEF StringCommands, OfKind, Acknowledged
  <1>4. CASE d = "bool"
    BY <1>1, <1>4 DEF StringCommands, OfKind, YesNo
  <1>5. CASE d = "opt_strings"
    BY <1>1, <1>5 DEF StringCommands, OfKind
  <1>6. CASE d = "int"
    BY <1>1, <1>6 DEF StringCommands, OfKind, Counts
  <1>7. CASE d = "float"
    BY <1>1, <1>7 DEF StringCommands, OfKind, Increments
  <1>8. CASE d = "string"
    BY <1>1, <1>8 DEF StringCommands, OfKind, Values
  <1>9. QED
    BY <1>1, <1>2, <1>3, <1>4, <1>5, <1>6, <1>7, <1>8

LEMMA HashCommandsFit ==
  ASSUME NEW c, NEW d, Gives(HashCommands, c, d)
  PROVE  OfKind(c, d)
  <1>1. /\ d \in {"opt_string", "bool", "map", "int", "strings", "float", "opt_strings", "status"}
        /\ c \in HashCommands[d]
    BY DEF Gives, HashCommands
  <1>2. CASE d = "opt_string"
    BY <1>1, <1>2 DEF HashCommands, OfKind, MaybeValues
  <1>3. CASE d = "bool"
    BY <1>1, <1>3 DEF HashCommands, OfKind, YesNo
  <1>4. CASE d = "map"
    BY <1>1, <1>4 DEF HashCommands, OfKind
  <1>5. CASE d = "int"
    BY <1>1, <1>5 DEF HashCommands, OfKind, Counts
  <1>6. CASE d = "strings"
    BY <1>1, <1>6 DEF HashCommands, OfKind, ValueLists
  <1>7. CASE d = "float"
    BY <1>1, <1>7 DEF HashCommands, OfKind, Increments
  <1>8. CASE d = "opt_strings"
    BY <1>1, <1>8 DEF HashCommands, OfKind
  <1>9. CASE d = "status"
    BY <1>1, <1>9 DEF HashCommands, OfKind, Acknowledged
  <1>10. QED
    BY <1>1, <1>2, <1>3, <1>4, <1>5, <1>6, <1>7, <1>8, <1>9

LEMMA ListCommandsFit ==
  ASSUME NEW c, NEW d, Gives(ListCommands, c, d)
  PROVE  OfKind(c, d)
  <1>1. /\ d \in {"int", "opt_string", "strings", "status", "opt_pair"}
        /\ c \in ListCommands[d]
    BY DEF Gives, ListCommands
  <1>2. CASE d = "int"
    BY <1>1, <1>2 DEF ListCommands, OfKind, Counts
  <1>3. CASE d = "opt_string"
    BY <1>1, <1>3 DEF ListCommands, OfKind, MaybeValues
  <1>4. CASE d = "strings"
    BY <1>1, <1>4 DEF ListCommands, OfKind, ValueLists
  <1>5. CASE d = "status"
    BY <1>1, <1>5 DEF ListCommands, OfKind, Acknowledged
  <1>6. CASE d = "opt_pair"
    BY <1>1, <1>6 DEF ListCommands, OfKind
  <1>7. QED
    BY <1>1, <1>2, <1>3, <1>4, <1>5, <1>6

LEMMA SetCommandsFit ==
  ASSUME NEW c, NEW d, Gives(SetCommands, c, d)
  PROVE  OfKind(c, d)
  <1>1. /\ d \in {"int", "strings", "bool", "opt_string"}
        /\ c \in SetCommands[d]
    BY DEF Gives, SetCommands
  <1>2. CASE d = "int"
    BY <1>1, <1>2 DEF SetCommands, OfKind, Counts
  <1>3. CASE d = "strings"
    BY <1>1, <1>3 DEF SetCommands, OfKind, ValueLists
  <1>4. CASE d = "bool"
    BY <1>1, <1>4 DEF SetCommands, OfKind, YesNo
  <1>5. CASE d = "opt_string"
    BY <1>1, <1>5 DEF SetCommands, OfKind, MaybeValues
  <1>6. QED
    BY <1>1, <1>2, <1>3, <1>4, <1>5

LEMMA ZSetCommandsFit ==
  ASSUME NEW c, NEW d, Gives(ZSetCommands, c, d)
  PROVE  OfKind(c, d)
  <1>1. /\ d \in {"int", "strings", "z_vec", "opt_float", "opt_int", "float"}
        /\ c \in ZSetCommands[d]
    BY DEF Gives, ZSetCommands
  <1>2. CASE d = "int"
    BY <1>1, <1>2 DEF ZSetCommands, OfKind, Counts
  <1>3. CASE d = "strings"
    BY <1>1, <1>3 DEF ZSetCommands, OfKind, ValueLists
  <1>4. CASE d = "z_vec"
    BY <1>1, <1>4 DEF ZSetCommands, OfKind
  <1>5. CASE d = "opt_float"
    BY <1>1, <1>5 DEF ZSetCommands, OfKind
  <1>6. CASE d = "opt_int"
    BY <1>1, <1>6 DEF ZSetCommands, OfKind
  <1>7. CASE d = "float"
    BY <1>1, <1>7 DEF ZSetCommands, OfKind, Increments
  <1>8. QED
    BY <1>1, <1>2, <1>3, <1>4, <1>5, <1>6, <1>7

LEMMA ServerCommandsFit ==
  ASSUME NEW c, NEW d, Gives(ServerCommands, c, d)
  PROVE  OfKind(c, d)
  <1>1. /\ d \in {"status", "string", "int"}
        /\ c \in ServerCommands[d]
    BY DEF Gives, ServerCommands
  <1>2. CASE d = "status"
    BY <1>1, <1>2 DEF ServerCommands, OfKind, Acknowledged
  <1>3. CASE d = "string"
    BY <1>1, <1>3 DEF ServerCommands, OfKind, Values
  <1>4. CASE d = "int"
    BY <1>1, <1>4 DEF ServerCommands, OfKind, Counts
  <1>5. QED
    BY <1>1, <1>2, <1>3, <1>4

LEMMA PubSubCommandsFit ==
  ASSUME NEW c, NEW d, Gives(PubSubCommands, c, d)
  PROVE  OfKind(c, d)
  <1>1. /\ d \in {"int"}
        /\ c \in PubSubCommands[d]
    BY DEF Gives, PubSubCommands
  <1>2. CASE d = "int"
    BY <1>1, <1>2 DEF PubSubCommands, OfKind, Counts
  <1>3. QED
    BY <1>1, <1>2

LEMMA ScriptCommandsFit ==
  ASSUME NEW c, NEW d, Gives(ScriptCommands, c, d)
  PROVE  OfKind(c, d)
  <1>1. /\ d \in {"string", "bools", "raw"}
        /\ c \in ScriptCommands[d]
    BY DEF Gives, ScriptCommands
  <1>2. CASE d = "string"
    BY <1>1, <1>2 DEF ScriptCommands, OfKind, Values
  <1>3. CASE d = "bools"
    BY <1>1, <1>3 DEF ScriptCommands, OfKind
  <1>4. CASE d = "raw"
    BY <1>1, <1>4 DEF ScriptCommands, OfKind
  <1>5. QED
    BY <1>1, <1>2, <1>3, <1>4

LEMMA DecoderFits ==
  ASSUME NEW c \in Methods
  PROVE  OfKind(c, Decoder[c])
  <1> DEFINE D == UNION {DOMAIN g : g \in Groups}
             Has(d) == \E g \in Groups : d \in DOMAIN g /\ c \in g[d]
  <1>1. \E d \in D : Has(d)
    BY DEF Methods
  <1>2. Decoder[c] = CHOOSE d \in D : Has(d)
    BY DEF Decoder
  <1>3. Has(Decoder[c])
    BY <1>1, <1>2
  <1>4. PICK g \in Groups : Gives(g, c, Decoder[c])
    BY <1>3 DEF Gives
  <1>5. QED
    BY <1>4, ConnectionCommandsFit, KeyCommandsFit, StringCommandsFit, HashCommandsFit,
       ListCommandsFit, SetCommandsFit, ZSetCommandsFit, ServerCommandsFit,
       PubSubCommandsFit, ScriptCommandsFit DEF Groups

\* What the server answers a command that decoder d reads.
Suits(d, v) ==
  \/ v = Failure("ERR")
  \/ d = "status" /\ v = Status(Plain)
  \/ d = "string" /\ v \in Bulks \cup {Status(Plain)}
  \/ d = "opt_string" /\ v \in Bulks \cup {Nil}
  \/ d = "bool" /\ v \in {Num(0), Num(1)}
  \/ d = "int" /\ v \in {Num(0), Num(1), Num(2)}
  \/ d = "opt_int" /\ v \in {Num(0), Num(1), Nil}
  \/ d = "duration" /\ v \in {Num(-2), Num(-1), Num(0), Num(1), Num(LongTTL)}
  \/ d = "float" /\ v = Bulk(One)
  \/ d = "opt_float" /\ v \in {Bulk(One), Nil}
  \/ d = "strings" /\ v \in Arrays(Bulks, 0..MaxPairs)
  \/ d = "opt_strings" /\ v \in Arrays(Bulks \cup {Nil}, 1..MaxPairs)
  \/ d = "opt_pair" /\ v \in Arrays(Bulks, {2}) \cup {Nil}
  \/ d = "map" /\ v \in PairsOf(Bulks, Bulks)
  \/ d = "z_vec" /\ v \in PairsOf(Bulks, {Bulk(One)})
  \/ d = "bools" /\ v \in {Array(<<Num(0)>>), Array(<<Num(1)>>)}
  \/ d = "raw" /\ v \in ScriptReplies

\* Of the kinds that Replies distinguishes, command c is of no other than the
\* one that decoder d reads.
OnlyKind(c, d) ==
  /\ d # "status" => c \notin Acknowledged
  /\ d # "bool" => c \notin YesNo
  /\ d # "int" => c \notin Counts
  /\ d # "duration" => c \notin {"TTL", "PTTL"}
  /\ d # "string" => c \notin Values
  /\ d # "opt_string" => c \notin MaybeValues
  /\ d # "strings" => c \notin ValueLists
  /\ d # "opt_strings" => c \notin {"MGET", "HMGET"}
  /\ d # "float" => c \notin Increments
  /\ d # "opt_float" => c # "ZSCORE"
  /\ d # "opt_int" => c \notin {"ZRANK", "ZREVRANK"}
  /\ d # "opt_pair" => c \notin {"BLPOP", "BRPOP"}
  /\ d # "map" => c # "HGETALL"
  /\ d # "z_vec" => c \notin {"ZRANGE WITHSCORES", "ZREVRANGE WITHSCORES"}
  /\ d # "bools" => c # "SCRIPT EXISTS"
  /\ d # "raw" => c \notin {"EVAL", "EVALSHA"}

LEMMA RepliesSuit ==
  ASSUME NEW c, NEW d, OfKind(c, d), NEW v \in Replies(c)
  PROVE  Suits(d, v)
  <1>1. CASE c \in Acknowledged /\ d = "status"
    <2>1. OnlyKind(c, "status")
      BY <1>1 DEF OnlyKind, Acknowledged, YesNo, Counts, Values, MaybeValues, ValueLists,
             Increments
    <2>2. Replies(c) = {Failure("ERR")} \cup {Status(Plain)}
      BY <1>1, <2>1 DEF OnlyKind, Replies
    <2>3. QED
      BY <1>1, <2>2 DEF Suits
  <1>2. CASE c = "PING" /\ d = "string"
    <2>1. OnlyKind(c, "status")
      BY <1>2 DEF OnlyKind, Acknowledged, YesNo, Counts, Values, MaybeValues, ValueLists,
             Increments
    <2>2. c \in Acknowledged
      BY <1>2 DEF Acknowledged
    <2>3. Replies(c) = {Failure("ERR")} \cup {Status(Plain)}
      BY <1>2, <2>1, <2>2 DEF OnlyKind, Replies
    <2>4. QED
      BY <1>2, <2>3 DEF Suits
  <1>3. CASE c \in YesNo /\ d = "bool"
    <2>1. OnlyKind(c, "bool")
      BY <1>3 DEF OnlyKind, Acknowledged, YesNo, Counts, Values, MaybeValues, ValueLists,
             Increments
    <2>2. Replies(c) = {Failure("ERR")} \cup {Num(0), Num(1)}
      BY <1>3, <2>1 DEF OnlyKind, Replies
    <2>3. QED
      BY <1>3, <2>2 DEF Suits
  <1>4. CASE c \in Counts /\ d = "int"
    <2>1. OnlyKind(c, "int")
      BY <1>4 DEF OnlyKind, Acknowledged, YesNo, Counts, Values, MaybeValues, ValueLists,
             Increments
    <2>2. Replies(c) = {Failure("ERR")} \cup {Num(0), Num(1), Num(2)}
      BY <1>4, <2>1 DEF OnlyKind, Replies
    <2>3. QED
      BY <1>4, <2>2 DEF Suits
  <1>5. CASE c \in {"TTL", "PTTL"} /\ d = "duration"
    <2>1. OnlyKind(c, "duration")
      BY <1>5 DEF OnlyKind, Acknowledged, YesNo, Counts, Values, MaybeValues, ValueLists,
             Increments
    <2>2. Replies(c) = {Failure("ERR")} \cup {Num(-2), Num(-1), Num(0), Num(1), Num(LongTTL)}
      BY <1>5, <2>1 DEF OnlyKind, Replies
    <2>3. QED
      BY <1>5, <2>2 DEF Suits
  <1>6. CASE c \in Values /\ d = "string"
    <2>1. OnlyKind(c, "string")
      BY <1>6 DEF OnlyKind, Acknowledged, YesNo, Counts, Values, MaybeValues, ValueLists,
             Increments
    <2>2. Replies(c) = {Failure("ERR")} \cup Bulks
      BY <1>6, <2>1 DEF OnlyKind, Replies
    <2>3. QED
      BY <1>6, <2>2 DEF Suits
  <1>7. CASE c \in MaybeValues /\ d = "opt_string"
    <2>1. OnlyKind(c, "opt_string")
      BY <1>7 DEF OnlyKind, Acknowledged, YesNo, Counts, Values, MaybeValues, ValueLists,
             Increments
    <2>2. Replies(c) = {Failure("ERR")} \cup (Bulks \cup {Nil})
      BY <1>7, <2>1 DEF OnlyKind, Replies
    <2>3. QED
      BY <1>7, <2>2 DEF Suits
  <1>8. CASE c \in ValueLists /\ d = "strings"
    <2>1. OnlyKind(c, "strings")
      BY <1>8 DEF OnlyKind, Acknowledged, YesNo, Counts, Values, MaybeValues, ValueLists,
             Increments
    <2>2. Replies(c) = {Failure("ERR")} \cup Arrays(Bulks, 0..MaxPairs)
      BY <1>8, <2>1 DEF OnlyKind, Replies
    <2>3. QED
      BY <1>8, <2>2 DEF Suits
  <1>9. CASE c \in {"MGET", "HMGET"} /\ d = "opt_strings"
    <2>1. OnlyKind(c, "opt_strings")
      BY <1>9 DEF OnlyKind, Acknowledged, YesNo, Counts, Values, MaybeValues, ValueLists,
             Increments
    <2>2. Replies(c) = {Failure("ERR")} \cup Arrays(Bulks \cup {Nil}, 1..MaxPairs)
      BY <1>9, <2>1 DEF OnlyKind, Replies
    <2>3. QED
      BY <1>9, <2>2 DEF Suits
  <1>10. CASE c \in Increments /\ d = "float"
    <2>1. OnlyKind(c, "float")
      BY <1>10 DEF OnlyKind, Acknowledged, YesNo, Counts, Values, MaybeValues, ValueLists,
             Increments
    <2>2. Replies(c) = {Failure("ERR")} \cup {Bulk(One)}
      BY <1>10, <2>1 DEF OnlyKind, Replies
    <2>3. QED
      BY <1>10, <2>2 DEF Suits
  <1>11. CASE c = "ZSCORE" /\ d = "opt_float"
    <2>1. OnlyKind(c, "opt_float")
      BY <1>11 DEF OnlyKind, Acknowledged, YesNo, Counts, Values, MaybeValues, ValueLists,
             Increments
    <2>2. Replies(c) = {Failure("ERR")} \cup {Bulk(One), Nil}
      BY <1>11, <2>1 DEF OnlyKind, Replies
    <2>3. QED
      BY <1>11, <2>2 DEF Suits
  <1>12. CASE c \in {"ZRANK", "ZREVRANK"} /\ d = "opt_int"
    <2>1. OnlyKind(c, "opt_int")
      BY <1>12 DEF OnlyKind, Acknowledged, YesNo, Counts, Values, MaybeValues, ValueLists,
             Increments
    <2>2. Replies(c) = {Failure("ERR")} \cup {Num(0), Num(1), Nil}
      BY <1>12, <2>1 DEF OnlyKind, Replies
    <2>3. QED
      BY <1>12, <2>2 DEF Suits
  <1>13. CASE c \in {"BLPOP", "BRPOP"} /\ d = "opt_pair"
    <2>1. OnlyKind(c, "opt_pair")
      BY <1>13 DEF OnlyKind, Acknowledged, YesNo, Counts, Values, MaybeValues, ValueLists,
             Increments
    <2>2. Replies(c) = {Failure("ERR")} \cup (Arrays(Bulks, {2}) \cup {Nil})
      BY <1>13, <2>1 DEF OnlyKind, Replies
    <2>3. QED
      BY <1>13, <2>2 DEF Suits
  <1>14. CASE c = "HGETALL" /\ d = "map"
    <2>1. OnlyKind(c, "map")
      BY <1>14 DEF OnlyKind, Acknowledged, YesNo, Counts, Values, MaybeValues, ValueLists,
             Increments
    <2>2. Replies(c) = {Failure("ERR")} \cup PairsOf(Bulks, Bulks)
      BY <1>14, <2>1 DEF OnlyKind, Replies
    <2>3. QED
      BY <1>14, <2>2 DEF Suits
  <1>15. CASE c \in {"ZRANGE WITHSCORES", "ZREVRANGE WITHSCORES"} /\ d = "z_vec"
    <2>1. OnlyKind(c, "z_vec")
      BY <1>15 DEF OnlyKind, Acknowledged, YesNo, Counts, Values, MaybeValues, ValueLists,
             Increments
    <2>2. Replies(c) = {Failure("ERR")} \cup PairsOf(Bulks, {Bulk(One)})
      BY <1>15, <2>1 DEF OnlyKind, Replies
    <2>3. QED
      BY <1>15, <2>2 DEF Suits
  <1>16. CASE c = "SCRIPT EXISTS" /\ d = "bools"
    <2>1. OnlyKind(c, "bools")
      BY <1>16 DEF OnlyKind, Acknowledged, YesNo, Counts, Values, MaybeValues, ValueLists,
             Increments
    <2>2. Replies(c) = {Failure("ERR")} \cup {Array(<<Num(0)>>), Array(<<Num(1)>>)}
      BY <1>16, <2>1 DEF OnlyKind, Replies
    <2>3. QED
      BY <1>16, <2>2 DEF Suits
  <1>17. CASE c \in {"EVAL", "EVALSHA"} /\ d = "raw"
    <2>1. OnlyKind(c, "raw")
      BY <1>17 DEF OnlyKind, Acknowledged, YesNo, Counts, Values, MaybeValues, ValueLists,
             Increments
    <2>2. Replies(c) = {Failure("ERR")} \cup ScriptReplies
      BY <1>17, <2>1 DEF OnlyKind, Replies
    <2>3. QED
      BY <1>17, <2>2 DEF Suits
  <1>18. QED
    BY <1>1, <1>2, <1>3, <1>4, <1>5, <1>6, <1>7, <1>8, <1>9,
       <1>10, <1>11, <1>12, <1>13, <1>14, <1>15, <1>16, <1>17 DEF OfKind

-----------------------------------------------------------------------------
(* The form of replies                                                       *)

LEMMA BulkForm ==
  ASSUME NEW x \in Bulks
  PROVE  x.k = "bulk" /\ x = Bulk(x.s) /\ IsText(x) /\ IsSingle(x) /\ x.s \in Texts
  <1>1. PICK s \in Texts : x = Bulk(s)
    BY DEF Bulks
  <1>2. QED
    BY <1>1 DEF Bulk, IsText, IsSingle

LEMMA NumForm ==
  ASSUME NEW n \in Int
  PROVE  Num(n).k = "int" /\ Num(n).n = n /\ IsSingle(Num(n))
  BY DEF Num, IsSingle

LEMMA NilForm == Nil.k = "nil" /\ IsSingle(Nil)
  BY DEF Nil, IsSingle

LEMMA ArrayForm ==
  ASSUME NEW S, \A x \in S : IsSingle(x), NEW n \in Nat, NEW a \in [1..n -> S]
  PROVE  /\ IsArray(Array(a)) /\ Array(a).k = "array" /\ Array(a).a = a
         /\ Len(a) = n /\ a \in Seq(S)
  <1>1. Array(a).k = "array" /\ Array(a).a = a
    BY DEF Array
  <1>2. a \in Seq(S) /\ Len(a) = n
    OBVIOUS
  <1>3. QED
    BY <1>1, <1>2 DEF IsArray

LEMMA ArraysForm ==
  ASSUME NEW S, \A x \in S : IsSingle(x), NEW L \in SUBSET Nat, NEW v \in Arrays(S, L)
  PROVE  IsArray(v) /\ Len(v.a) \in L /\ \A j \in 1..Len(v.a) : v.a[j] \in S
  <1>1. PICK n \in L : \E a \in [1..n -> S] : v = Array(a)
    BY DEF Arrays
  <1>2. PICK a \in [1..n -> S] : v = Array(a)
    BY <1>1
  <1>3. n \in Nat
    OBVIOUS
  <1>4. IsArray(Array(a)) /\ Array(a).a = a /\ Len(a) = n
    BY <1>3, ArrayForm
  <1>5. IsArray(v) /\ v.a = a
    BY <1>2, <1>4
  <1>6. Len(v.a) = n /\ \A j \in 1..n : a[j] \in S
    BY <1>4, <1>5
  <1>7. QED
    BY <1>4, <1>5, <1>6, Zenon

LEMMA PairsForm ==
  ASSUME NEW K, NEW V, \A x \in K \cup V : IsSingle(x), NEW v \in PairsOf(K, V)
  PROVE  LET h == Len(v.a) \div 2
         IN  /\ IsArray(v) /\ h \in Nat /\ Len(v.a) = 2 * h
             /\ \A j \in 1..h : v.a[2 * j - 1] \in K /\ v.a[2 * j] \in V
             /\ \A j, l \in 1..h : j # l => v.a[2 * j - 1] # v.a[2 * l - 1]
  <1> DEFINE E == {2 * n : n \in 0..MaxPairs}
             a == v.a
  <1>1. MaxPairs \in Nat
    BY CommandsAssumption
  <1>2. E \in SUBSET Nat /\ \A e \in E : e = 2 * (e \div 2) /\ e \div 2 \in Nat
    BY <1>1
  <1>3. v \in Arrays(K \cup V, E)
    BY DEF PairsOf
  <1>4. \A j \in 1..Len(a) :
          /\ a[j] \in IF j % 2 = 1 THEN K ELSE V
          /\ \A l \in 1..(j - 1) : l % 2 = 1 /\ j % 2 = 1 => a[j] # a[l]
    BY DEF PairsOf
  <1> HIDE DEF E
  <1>5. IsArray(v) /\ Len(a) \in E
    BY <1>2, <1>3, ArraysForm
  <1> DEFINE h == Len(a) \div 2
  <1>6. h \in Nat /\ Len(a) = 2 * h
    BY <1>2, <1>5
  <1> HIDE DEF a, h
  <1>7. \A j \in 1..h : /\ 2 * j - 1 \in 1..Len(a) /\ 2 * j \in 1..Len(a)
                        /\ (2 * j - 1) % 2 = 1 /\ (2 * j) % 2 = 0
    BY <1>6
  <1>8. \A j \in 1..h : a[2 * j - 1] \in K /\ a[2 * j] \in V
    BY <1>4, <1>7
  <1>9. \A j \in 1..h : \A l \in 1..(j - 1) : a[2 * j - 1] # a[2 * l - 1]
    <2> SUFFICES ASSUME NEW j \in 1..h, NEW l \in 1..(j - 1)
                 PROVE  a[2 * j - 1] # a[2 * l - 1]
      OBVIOUS
    <2>1. l \in 1..h /\ 2 * l - 1 \in 1..((2 * j - 1) - 1)
      BY <1>6
    <2>2. QED
      BY <1>4, <1>7, <2>1
  <1>10. \A j, l \in 1..h : j # l => a[2 * j - 1] # a[2 * l - 1]
    <2> SUFFICES ASSUME NEW j \in 1..h, NEW l \in 1..h, j # l
                 PROVE  a[2 * j - 1] # a[2 * l - 1]
      OBVIOUS
    <2>1. l \in 1..(j - 1) \/ j \in 1..(l - 1)
      BY <1>6
    <2>2. QED
      BY <1>9, <2>1
  <1>11. QED
    BY <1>5, <1>6, <1>8, <1>10 DEF a, h

LEMMA SuitsForm ==
  ASSUME NEW d, NEW v, Suits(d, v)
  PROVE  IsReply(v)
  <1>1. \A x \in Bulks \cup {Nil} : IsSingle(x)
    BY BulkForm, NilForm
  <1>2. IsSingle(Num(-2)) /\ IsSingle(Num(-1)) /\ IsSingle(Num(0)) /\ IsSingle(Num(1))
          /\ IsSingle(Num(2))
    BY NumForm
  <1>3. IsSingle(Num(LongTTL))
    BY NumForm, WidthAssumption DEF LongTTL
  <1>4. MaxPairs \in Nat
    BY CommandsAssumption
  <1>5. Bulk(One) \in Bulks
    BY DEF Bulks, Texts
  <1>6. \A L \in SUBSET Nat : v \in Arrays(Bulks, L) => IsArray(v)
    BY <1>1, ArraysForm
  <1>7. \A L \in SUBSET Nat : v \in Arrays(Bulks \cup {Nil}, L) => IsArray(v)
    BY <1>1, ArraysForm
  <1>8. 0..MaxPairs \in SUBSET Nat /\ 1..MaxPairs \in SUBSET Nat /\ {2} \in SUBSET Nat
    BY <1>4
  <1>9. v \in PairsOf(Bulks, Bulks) \cup PairsOf(Bulks, {Bulk(One)}) => IsArray(v)
    BY <1>1, <1>5, PairsForm
  <1>10. \A x \in {Num(0), Num(1)} : <<x>> \in [1..1 -> {Num(0), Num(1)}]
    OBVIOUS
  <1>11. IsArray(Array(<<Num(0)>>)) /\ IsArray(Array(<<Num(1)>>))
    BY <1>2, <1>10, ArrayForm
  <1>12. <<Num(1), Nil>> \in [1..2 -> {Num(1), Nil}]
    OBVIOUS
  <1>13. IsArray(Array(<<Num(1), Nil>>))
    BY <1>1, <1>2, <1>12, ArrayForm
  <1>14. QED
    BY <1>1, <1>2, <1>3, <1>5, <1>6, <1>7, <1>8, <1>9, <1>11, <1>13
       DEF Suits, IsReply, ScriptReplies

-----------------------------------------------------------------------------
(* Loops that keep every element                                             *)

Upto(x, n) == [j \in 1..n |-> x[j]]

LEMMA AppendNext ==
  ASSUME NEW x, NEW n \in Nat
  PROVE  Append(Upto(x, n), x[n + 1]) = Upto(x, n + 1)
  <1> DEFINE s == [j \in 1..n |-> x[j]]
             A == {x[j] : j \in 1..(n + 1)}
             r == [j \in 1..(n + 1) |-> x[j]]
  <1>1. s \in Seq(A) /\ Len(s) = n /\ x[n + 1] \in A
    OBVIOUS
  <1>2. r \in Seq(A) /\ Len(r) = n + 1
    OBVIOUS
  <1>3. /\ Append(s, x[n + 1]) \in Seq(A) /\ Len(Append(s, x[n + 1])) = n + 1
        /\ \A j \in 1..n : Append(s, x[n + 1])[j] = s[j]
        /\ Append(s, x[n + 1])[n + 1] = x[n + 1]
    BY <1>1, AppendProperties
  <1>4. \A j \in 1..(n + 1) : Append(s, x[n + 1])[j] = r[j]
    BY <1>3
  <1> HIDE DEF s, r, A
  <1>5. Append(s, x[n + 1]) = r
    BY <1>2, <1>3, <1>4, SeqEqual
  <1>6. QED
    BY <1>5 DEF s, r, Upto

LEMMA KeepsAll ==
  ASSUME NEW x, NEW m \in Nat, NEW g, g[0] = <<>>,
         \A n \in 1..m : g[n] = Append(g[n - 1], x[n])
  PROVE  g[m] = Upto(x, m)
  <1> DEFINE T == {n \in Nat : n <= m => g[n] = Upto(x, n)}
  <1>1. 0 \in T
    <2>1. Upto(x, 0) = <<>>
      BY DEF Upto
    <2>2. QED
      BY <2>1
  <1>2. ASSUME NEW n \in T
        PROVE  n + 1 \in T
    <2>1. SUFFICES ASSUME n + 1 <= m
                   PROVE  g[n + 1] = Upto(x, n + 1)
      OBVIOUS
    <2>2. n \in Nat /\ g[n] = Upto(x, n)
      BY <2>1
    <2>3. n + 1 \in 1..m /\ (n + 1) - 1 = n
      BY <2>1, <2>2
    <2>4. g[n + 1] = Append(g[n], x[n + 1])
      BY <2>3
    <2>5. QED
      BY <2>2, <2>4, AppendNext
  <1>3. T = Nat
    <2>1. T \in SUBSET Nat
      OBVIOUS
    <2> HIDE DEF T
    <2>2. QED
      BY <1>1, <1>2, <2>1, SetInduction
  <1>4. QED
    BY <1>3

LEMMA AllSome ==
  ASSUME NEW o, Len(o) \in Nat, \A j \in 1..Len(o) : o[j] # None
  PROVE  Somes(o) = [j \in 1..Len(o) |-> o[j].v]
  <1> DEFINE m == Len(o)
             x == [j \in 1..m |-> o[j].v]
             w == [n \in 0..m |-> Upto(x, n)]
             Kept(g) == g = [n \in 0..m |->
               IF n = 0 THEN <<>>
               ELSE IF o[n] = None THEN g[n - 1] ELSE Append(g[n - 1], o[n].v)]
             k == CHOOSE g : Kept(g)
  <1>1. Somes(o) = k[m]
    BY DEF Somes
  <1>2. \A n \in 1..m : n \in 0..m /\ n - 1 \in Nat /\ n # 0 /\ o[n] # None /\ x[n] = o[n].v
    OBVIOUS
  <1>3. Kept(w)
    <2>1. w[0] = <<>> /\ w = [n \in 0..m |-> w[n]]
      BY DEF Upto
    <2>2. \A n \in 1..m : w[n] = Append(w[n - 1], o[n].v)
      <3> SUFFICES ASSUME NEW n \in 1..m
                   PROVE  w[n] = Append(w[n - 1], o[n].v)
        OBVIOUS
      <3>1. n - 1 \in Nat /\ n - 1 \in 0..m /\ (n - 1) + 1 = n /\ x[n] = o[n].v
        BY <1>2
      <3> HIDE DEF x
      <3>2. Append(Upto(x, n - 1), x[(n - 1) + 1]) = Upto(x, (n - 1) + 1)
        BY <3>1, AppendNext
      <3>3. QED
        BY <3>1, <3>2
    <2> HIDE DEF w
    <2>3. \A n \in 0..m : n # 0 => n \in 1..m
      OBVIOUS
    <2>4. QED
      BY <1>2, <2>1, <2>2, <2>3
  <1>4. Kept(k)
    <2> HIDE DEF w
    <2>1. QED
      BY <1>3
  <1> HIDE DEF k, x
  <1>5. k[0] = <<>>
    BY <1>4
  <1>6. \A n \in 1..m : k[n] = Append(k[n - 1], x[n])
    BY <1>2, <1>4
  <1> HIDE DEF m
  <1>7. m \in Nat
    BY DEF m
  <1>8. k[m] = Upto(x, m)
    BY <1>5, <1>6, <1>7, KeepsAll
  <1>9. QED
    BY <1>1, <1>8 DEF m, x, Upto

-----------------------------------------------------------------------------
(* Decoders that do not loop                                                 *)

LEMMA DecodeRefuses ==
  ASSUME NEW d, NEW v
  PROVE  /\ v.k = "error" => Decode(d, v) = Err
         /\ v.k = "nil" => Decode(d, v) = IF d \in Optional THEN None ELSE Err
  BY DEF Decode

LEMMA DecodeText ==
  ASSUME NEW d, NEW v, v.k \notin {"error", "nil"}
  PROVE  /\ d = "status" => Decode(d, v) = IF v.k = "status" THEN Ok("string", v.s) ELSE Err
         /\ d \in {"string", "opt_string"} =>
              Decode(d, v) = IF IsText(v) THEN Ok("string", v.s) ELSE Err
         /\ d \in {"float", "opt_float"} =>
              Decode(d, v) = IF IsText(v) THEN Float(v.s) ELSE Err
  <1>1. CASE d = "status"
    BY <1>1 DEF Decode, Looping
  <1>2. CASE d \in {"string", "opt_string"}
    BY <1>2 DEF Decode, Looping
  <1>3. CASE d \in {"float", "opt_float"}
    BY <1>3 DEF Decode, Looping
  <1>4. QED
    BY <1>1, <1>2, <1>3

LEMMA DecodeInt ==
  ASSUME NEW d, NEW v, v.k \notin {"error", "nil"}
  PROVE  /\ d \in {"int", "opt_int"} =>
              Decode(d, v) = IF v.k = "int" THEN Ok("int", v.n) ELSE Err
         /\ d = "bool" => Decode(d, v) = IF v.k = "int" THEN Ok("bool", v.n = 1) ELSE Err
         /\ d = "duration" =>
              Decode(d, v) = IF v.k = "int" THEN Ok("duration", IF v.n < 0 THEN 0 ELSE v.n)
                             ELSE Err
  <1>1. CASE d \in {"int", "opt_int"}
    BY <1>1 DEF Decode, Looping
  <1>2. CASE d = "bool"
    BY <1>2 DEF Decode, Looping
  <1>3. CASE d = "duration"
    BY <1>3 DEF Decode, Looping
  <1>4. QED
    BY <1>1, <1>2, <1>3

LEMMA DecodeArray ==
  ASSUME NEW d, NEW v, v.k \notin {"error", "nil"}
  PROVE  /\ d = "strings" =>
              Decode(d, v) = IF v.k = "array" THEN Ok("strings", Strings(v.a)) ELSE Err
         /\ d = "opt_strings" =>
              Decode(d, v) = IF v.k = "array" THEN Ok("options", OptStrings(v.a)) ELSE Err
         /\ d = "opt_pair" => Decode(d, v) = OptPair(v)
         /\ d = "bools" =>
              Decode(d, v) = IF v.k = "array" THEN Ok("bools", Bools(v.a)) ELSE Err
         /\ d = "raw" => Decode(d, v) = Ok("value", v)
         /\ d \in Looping => Decode(d, v) = Err
  <1>1. CASE d = "strings"
    BY <1>1 DEF Decode, Looping
  <1>2. CASE d = "opt_strings"
    BY <1>2 DEF Decode, Looping
  <1>3. CASE d = "opt_pair"
    BY <1>3 DEF Decode, Looping
  <1>4. CASE d = "bools"
    BY <1>4 DEF Decode, Looping
  <1>5. CASE d = "raw"
    BY <1>5 DEF Decode, Looping
  <1>6. CASE d \in Looping
    BY <1>6 DEF Decode, Looping
  <1>7. QED
    BY <1>1, <1>2, <1>3, <1>4, <1>5, <1>6

LEMMA CarriesIs ==
  ASSUME NEW r, NEW v
  PROVE  /\ v.k = "error" => (Carries(r, v) <=> ~r.ok)
         /\ v.k = "nil" => (Carries(r, v) <=> IF Decoder[cmd] = "raw" THEN ~r.ok ELSE r = None)
         /\ v.k = "int" => (Carries(r, v) <=> r.ok /\ CarriesInt(r, v.n))
         /\ v.k = "array" => (Carries(r, v) <=> r.ok /\ CarriesArray(r, v.a))
         /\ IsText(v) => (Carries(r, v) <=> r.ok /\ r.v = v.s)
  BY DEF Carries, IsText

-----------------------------------------------------------------------------
(* What the server answers is decoded in full                                *)

LEMMA OneIsNumber == IsNumber(One)
  <1>1. One = <<"1">> /\ DOMAIN One = {1} /\ One # <<>> /\ One[1] = "1"
    BY DEF One
  <1>2. 2 \in DOMAIN Digits /\ Digits[2] = "1"
    BY DEF Digits
  <1>3. "1" \in Range(Digits)
    BY <1>2 DEF Range
  <1>4. QED
    BY <1>1, <1>3 DEF IsNumber, IsDecimal

LEMMA TextInFull ==
  ASSUME NEW d \in {"status", "string", "opt_string", "float", "opt_float"}, d = Decoder[cmd],
         NEW v, Suits(d, v)
  PROVE  Carries(Decode(d, v), v)
  <1>1. Failure("ERR").k = "error" /\ Err.ok = FALSE
    BY DEF Failure, Err
  <1>2. CASE v = Failure("ERR")
    BY <1>1, <1>2, DecodeRefuses, CarriesIs
  <1>3. CASE v = Nil
    <2>1. d \in Optional
      BY <1>3, NilForm DEF Optional, Suits, Bulk, Status, Failure, Nil, Bulks
    <2>2. QED
      BY <1>3, <2>1, NilForm, DecodeRefuses, CarriesIs
  <1>4. CASE v = Status(Plain) \/ v \in Bulks
    <2>1. v.k \notin {"error", "nil"} /\ IsText(v)
      BY <1>4, BulkForm DEF Status, IsText
    <2>2. d = "status" => v.k = "status"
      BY <1>4 DEF Suits, Failure, Status, Bulks, Bulk
    <2>3. d \in {"float", "opt_float"} => v.s = One
      <3> SUFFICES ASSUME d \in {"float", "opt_float"}
                   PROVE  v.s = One
        OBVIOUS
      <3>1. v = Bulk(One)
        BY <1>1, <2>1, NilForm DEF Suits
      <3>2. QED
        BY <3>1 DEF Bulk
    <2>4. Decode(d, v).ok /\ Decode(d, v).v = v.s
      BY <2>1, <2>2, <2>3, DecodeText, OneIsNumber DEF Ok, Float
    <2>5. QED
      BY <2>1, <2>4, CarriesIs
  <1>5. Bulk(One) \in Bulks
    BY DEF Bulks, Texts
  <1>6. QED
    BY <1>2, <1>3, <1>4, <1>5 DEF Suits

LEMMA CarriesIntIs ==
  ASSUME NEW r, NEW n \in Int
  PROVE  /\ r.type = "int" /\ r.v = n => CarriesInt(r, n)
         /\ r.type = "bool" /\ (n = IF r.v THEN 1 ELSE 0) => CarriesInt(r, n)
         /\ r.type = "duration" /\ (n = r.v \/ (n < 0 /\ r.v = 0)) => CarriesInt(r, n)
         /\ r.type = "value" /\ r.v = Num(n) => CarriesInt(r, n)
  BY DEF CarriesInt

LEMMA IntInFull ==
  ASSUME NEW d \in {"int", "opt_int", "bool", "duration"}, d = Decoder[cmd],
         NEW v, Suits(d, v)
  PROVE  Carries(Decode(d, v), v)
  <1>1. Failure("ERR").k = "error" /\ Err.ok = FALSE
    BY DEF Failure, Err
  <1>2. CASE v = Failure("ERR")
    BY <1>1, <1>2, DecodeRefuses, CarriesIs
  <1>3. CASE v = Nil
    <2>1. d \in Optional
      BY <1>3, NilForm DEF Optional, Suits, Num, Failure, Nil
    <2>2. QED
      BY <1>3, <2>1, NilForm, DecodeRefuses, CarriesIs
  <1>4. CASE v # Nil /\ v # Failure("ERR")
    <2>1. PICK n \in Int : v = Num(n) /\ (d = "bool" => n \in {0, 1})
      <3>1. LongTTL \in Int
        BY WidthAssumption DEF LongTTL
      <3>2. QED
        BY <1>4, <3>1 DEF Suits
    <2>2. v.k = "int" /\ v.k \notin {"error", "nil"} /\ v.n = n
      BY <2>1, NumForm
    <2> DEFINE r == Decode(d, v)
    <2>3. r.ok /\ CarriesInt(r, n)
      <3>1. CASE d \in {"int", "opt_int"}
        <4>1. r.ok /\ r.type = "int" /\ r.v = n
          BY <2>2, <3>1, DecodeInt DEF Ok
        <4> HIDE DEF r
        <4>2. QED
          BY <4>1, CarriesIntIs
      <3>2. CASE d = "bool"
        <4>1. r.ok /\ r.type = "bool" /\ r.v = (n = 1)
          BY <2>2, <3>2, DecodeInt DEF Ok
        <4> HIDE DEF r
        <4>2. n = IF r.v THEN 1 ELSE 0
          BY <2>1, <3>2, <4>1
        <4>3. QED
          BY <4>1, <4>2, CarriesIntIs
      <3>3. CASE d = "duration"
        <4>1. r.ok /\ r.type = "duration" /\ r.v = IF n < 0 THEN 0 ELSE n
          BY <2>2, <3>3, DecodeInt DEF Ok
        <4> HIDE DEF r
        <4>2. QED
          BY <4>1, CarriesIntIs
      <3>4. QED
        BY <3>1, <3>2, <3>3
    <2> HIDE DEF r
    <2>4. Carries(r, v)
      BY <2>2, <2>3, CarriesIs
    <2>5. QED
      BY <2>4 DEF r
  <1>5. QED
    BY <1>2, <1>3, <1>4

LEMMA TextsKept ==
  ASSUME NEW a, Len(a) \in Nat, \A j \in 1..Len(a) : IsText(a[j])
  PROVE  Strings(a) = TextsOf(a)
  <1> DEFINE o == OptStrings(a)
  <1>1. Len(o) = Len(a) /\ \A j \in 1..Len(a) : o[j] = Ok("some", a[j].s)
    BY DEF OptStrings
  <1>2. \A x : Ok("some", x) # None /\ Ok("some", x).v = x
    BY DEF Ok, None
  <1> HIDE DEF o
  <1>3. Somes(o) = [j \in 1..Len(o) |-> o[j].v]
    BY <1>1, <1>2, AllSome
  <1>4. [j \in 1..Len(o) |-> o[j].v] = TextsOf(a)
    BY <1>1, <1>2 DEF TextsOf
  <1>5. QED
    BY <1>3, <1>4 DEF Strings, o

LEMMA BoolsKept ==
  ASSUME NEW a, Len(a) \in Nat, \A j \in 1..Len(a) : a[j].k = "int"
  PROVE  Bools(a) = [j \in 1..Len(a) |-> a[j].n = 1]
  <1> DEFINE o == [j \in 1..Len(a) |->
                     IF a[j].k = "int" THEN Ok("some", a[j].n = 1) ELSE None]
  <1>1. Len(o) = Len(a) /\ \A j \in 1..Len(a) : o[j] = Ok("some", a[j].n = 1)
    OBVIOUS
  <1>2. \A x : Ok("some", x) # None /\ Ok("some", x).v = x
    BY DEF Ok, None
  <1>3. Bools(a) = Somes(o)
    BY DEF Bools
  <1> HIDE DEF o
  <1>4. Somes(o) = [j \in 1..Len(o) |-> o[j].v]
    BY <1>1, <1>2, AllSome
  <1>5. [j \in 1..Len(o) |-> o[j].v] = [j \in 1..Len(a) |-> a[j].n = 1]
    BY <1>1, <1>2
  <1>6. QED
    BY <1>3, <1>4, <1>5

LEMMA CarriesArrayIs ==
  ASSUME NEW r, NEW a
  PROVE  /\ r.type = "strings" /\ a = [j \in DOMAIN r.v |-> Bulk(r.v[j])]
              => CarriesArray(r, a)
         /\ r.type = "options"
              /\ a = [j \in DOMAIN r.v |-> IF r.v[j] = None THEN Nil ELSE Bulk(r.v[j].v)]
              => CarriesArray(r, a)
         /\ r.type = "pair" /\ a = [j \in 1..2 |-> Bulk(r.v[j])] => CarriesArray(r, a)
         /\ r.type = "bools"
              /\ a = [j \in DOMAIN r.v |-> Num(IF r.v[j] THEN 1 ELSE 0)]
              => CarriesArray(r, a)
         /\ r.type = "value" /\ r.v = Array(a) => CarriesArray(r, a)
         /\ r.type = "map" /\ PairsIn(a) = {<<f, r.v[f]>> : f \in DOMAIN r.v}
              => CarriesArray(r, a)
         /\ r.type = "z_vec" /\ PairsIn(a) = {r.v[j] : j \in DOMAIN r.v}
              /\ 2 * Len(r.v) = Len(a)
              => CarriesArray(r, a)
  <1>1. CASE r.type = "strings"
    BY <1>1 DEF CarriesArray
  <1>2. CASE r.type = "options"
    BY <1>2 DEF CarriesArray
  <1>3. CASE r.type = "pair"
    BY <1>3 DEF CarriesArray
  <1>4. CASE r.type = "bools"
    BY <1>4 DEF CarriesArray
  <1>5. CASE r.type = "value"
    BY <1>5 DEF CarriesArray
  <1>6. CASE r.type = "map"
    BY <1>6 DEF CarriesArray
  <1>7. CASE r.type = "z_vec"
    BY <1>7 DEF CarriesArray
  <1>8. QED
    BY <1>1, <1>2, <1>3, <1>4, <1>5, <1>6, <1>7

LEMMA ListInFull ==
  ASSUME NEW v, v \in Arrays(Bulks, 0..MaxPairs)
  PROVE  Decode("strings", v).ok /\ CarriesArray(Decode("strings", v), v.a) /\ v.k = "array"
  <1> DEFINE a == v.a
             r == Decode("strings", v)
  <1>1. 0..MaxPairs \in SUBSET Nat
    BY CommandsAssumption
  <1>2. IsArray(v) /\ \A j \in 1..Len(a) : a[j] \in Bulks
    BY <1>1, BulkForm, ArraysForm
  <1>3. v.k = "array" /\ Len(a) \in Nat /\ a = [j \in 1..Len(a) |-> a[j]]
    BY <1>2 DEF IsArray
  <1>4. \A j \in 1..Len(a) : IsText(a[j]) /\ Bulk(a[j].s) = a[j]
    BY <1>2, BulkForm
  <1>5. r.ok /\ r.type = "strings" /\ r.v = TextsOf(a)
    BY <1>3, <1>4, DecodeArray, TextsKept DEF Ok
  <1> HIDE DEF a, r
  <1>6. DOMAIN r.v = 1..Len(a) /\ \A j \in 1..Len(a) : r.v[j] = a[j].s
    BY <1>5 DEF TextsOf
  <1>7. a = [j \in DOMAIN r.v |-> Bulk(r.v[j])]
    BY <1>3, <1>4, <1>6
  <1>8. QED
    BY <1>3, <1>5, <1>7, CarriesArrayIs DEF a, r

LEMMA OptionsInFull ==
  ASSUME NEW v, v \in Arrays(Bulks \cup {Nil}, 1..MaxPairs)
  PROVE  /\ Decode("opt_strings", v).ok /\ v.k = "array"
         /\ CarriesArray(Decode("opt_strings", v), v.a)
  <1> DEFINE a == v.a
             r == Decode("opt_strings", v)
  <1>1. 1..MaxPairs \in SUBSET Nat /\ \A x \in Bulks \cup {Nil} : IsSingle(x)
    BY CommandsAssumption, BulkForm, NilForm
  <1>2. IsArray(v) /\ \A j \in 1..Len(a) : a[j] \in Bulks \cup {Nil}
    BY <1>1, ArraysForm
  <1>3. v.k = "array" /\ Len(a) \in Nat /\ a = [j \in 1..Len(a) |-> a[j]]
    BY <1>2 DEF IsArray
  <1>4. \A j \in 1..Len(a) : \/ IsText(a[j]) /\ Bulk(a[j].s) = a[j]
                             \/ ~IsText(a[j]) /\ a[j] = Nil
    BY <1>2, BulkForm, NilForm DEF IsText
  <1>5. r.ok /\ r.type = "options" /\ r.v = OptStrings(a)
    BY <1>3, DecodeArray DEF Ok
  <1>6. \A x : Ok("some", x) # None /\ Ok("some", x).v = x
    BY DEF Ok, None
  <1> HIDE DEF a, r
  <1>7. /\ DOMAIN r.v = 1..Len(a)
        /\ \A j \in 1..Len(a) : r.v[j] = IF IsText(a[j]) THEN Ok("some", a[j].s) ELSE None
    BY <1>5 DEF OptStrings
  <1>8. \A j \in 1..Len(a) : a[j] = IF r.v[j] = None THEN Nil ELSE Bulk(r.v[j].v)
    BY <1>4, <1>6, <1>7
  <1>9. a = [j \in DOMAIN r.v |-> IF r.v[j] = None THEN Nil ELSE Bulk(r.v[j].v)]
    BY <1>3, <1>7, <1>8
  <1>10. QED
    BY <1>3, <1>5, <1>9, CarriesArrayIs DEF a, r

LEMMA PairInFull ==
  ASSUME NEW v, v \in Arrays(Bulks, {2})
  PROVE  Decode("opt_pair", v).ok /\ CarriesArray(Decode("opt_pair", v), v.a) /\ v.k = "array"
  <1> DEFINE a == v.a
             r == Decode("opt_pair", v)
  <1>1. IsArray(v) /\ Len(a) = 2 /\ \A j \in 1..Len(a) : a[j] \in Bulks
    <2>1. {2} \in SUBSET Nat /\ \A x \in Bulks : IsSingle(x)
      BY BulkForm
    <2>2. IsArray(v) /\ Len(a) \in {2} /\ \A j \in 1..Len(a) : a[j] \in Bulks
      BY <2>1, ArraysForm
    <2>3. QED
      BY <2>2
  <1>2. v.k = "array" /\ a = [j \in 1..2 |-> a[j]]
    BY <1>1 DEF IsArray
  <1>3. \A j \in 1..2 : IsText(a[j]) /\ Bulk(a[j].s) = a[j]
    BY <1>1, BulkForm
  <1>4. r = OptPair(v)
    BY <1>2, DecodeArray
  <1>5. OptPair(v) = Ok("pair", <<a[1].s, a[2].s>>)
    BY <1>1, <1>2, <1>3 DEF OptPair
  <1>6. r.ok /\ r.type = "pair" /\ r.v = <<a[1].s, a[2].s>>
    BY <1>4, <1>5 DEF Ok
  <1> HIDE DEF a, r
  <1>7. \A j \in 1..2 : r.v[j] = a[j].s
    BY <1>6
  <1>8. a = [j \in 1..2 |-> Bulk(r.v[j])]
    BY <1>2, <1>3, <1>7
  <1>9. QED
    BY <1>2, <1>6, <1>8, CarriesArrayIs DEF a, r

LEMMA BoolsInFull ==
  ASSUME NEW n \in {0, 1}, NEW v, v = Array(<<Num(n)>>)
  PROVE  Decode("bools", v).ok /\ CarriesArray(Decode("bools", v), v.a) /\ v.k = "array"
  <1> DEFINE a == v.a
             r == Decode("bools", v)
  <1>1. v.k = "array" /\ a = <<Num(n)>>
    BY DEF Array
  <1>2. Len(a) = 1 /\ a[1] = Num(n) /\ a = [j \in 1..1 |-> Num(n)]
    BY <1>1
  <1>3. Num(n).k = "int" /\ Num(n).n = n
    BY NumForm
  <1>4. Bools(a) = [j \in 1..Len(a) |-> a[j].n = 1]
    BY <1>2, <1>3, BoolsKept
  <1>5. r.ok /\ r.type = "bools" /\ r.v = Bools(a)
    BY <1>1, DecodeArray DEF Ok
  <1> HIDE DEF a, r
  <1>6. DOMAIN r.v = 1..1 /\ \A j \in 1..1 : r.v[j] = (n = 1)
    BY <1>2, <1>3, <1>4, <1>5
  <1>7. \A j \in 1..1 : n = IF r.v[j] THEN 1 ELSE 0
    BY <1>6
  <1>8. a = [j \in DOMAIN r.v |-> Num(IF r.v[j] THEN 1 ELSE 0)]
    BY <1>2, <1>6, <1>7
  <1>9. QED
    BY <1>1, <1>5, <1>8, CarriesArrayIs DEF a, r

LEMMA ArrayInFull ==
  ASSUME NEW d \in {"strings", "opt_strings", "opt_pair", "bools", "raw"}, d = Decoder[cmd],
         NEW v, Suits(d, v)
  PROVE  Carries(Decode(d, v), v)
  <1>1. /\ Failure("ERR").k = "error" /\ Failure("NOSCRIPT").k = "error" /\ Err.ok = FALSE
        /\ None.ok
    BY DEF Failure, Err, None
  <1>2. CASE v \in {Failure("ERR"), Failure("NOSCRIPT")}
    BY <1>1, <1>2, DecodeRefuses, CarriesIs
  <1>3. CASE v = Nil /\ d \in {"opt_pair", "raw"}
    BY <1>1, <1>3, NilForm, DecodeRefuses, CarriesIs DEF Optional
  <1>4. CASE d = "strings" /\ v \in Arrays(Bulks, 0..MaxPairs)
    BY <1>4, ListInFull, CarriesIs
  <1>5. CASE d = "opt_strings" /\ v \in Arrays(Bulks \cup {Nil}, 1..MaxPairs)
    BY <1>5, OptionsInFull, CarriesIs
  <1>6. CASE d = "opt_pair" /\ v \in Arrays(Bulks, {2})
    BY <1>6, PairInFull, CarriesIs
  <1>7. CASE d = "bools" /\ v \in {Array(<<Num(0)>>), Array(<<Num(1)>>)}
    BY <1>7, BoolsInFull, CarriesIs
  <1>8. CASE d = "raw" /\ v = Num(1)
    <2>1. v.k = "int" /\ v.n = 1
      BY <1>8, NumForm
    <2>2. Decode(d, v) = Ok("value", v)
      BY <1>8, <2>1, DecodeArray
    <2>3. Decode(d, v).ok /\ CarriesInt(Decode(d, v), 1)
      BY <1>8, <2>2, CarriesIntIs DEF Ok
    <2>4. QED
      BY <2>1, <2>3, CarriesIs
  <1>9. CASE d = "raw" /\ v = Array(<<Num(1), Nil>>)
    <2>1. v.k = "array" /\ v = Array(v.a)
      BY <1>9 DEF Array
    <2>2. Decode(d, v) = Ok("value", v)
      BY <1>9, <2>1, DecodeArray
    <2>3. Decode(d, v).ok /\ CarriesArray(Decode(d, v), v.a)
      BY <2>1, <2>2, CarriesArrayIs DEF Ok
    <2>4. QED
      BY <2>1, <2>3, CarriesIs
  <1>10. QED
    BY <1>2, <1>3, <1>4, <1>5, <1>6, <1>7, <1>8, <1>9 DEF Suits, ScriptReplies

LEMMA MapInFull ==
  ASSUME NEW v, v \in PairsOf(Bulks, Bulks),
         NEW r, r.type = "map", Inserted(v.a, r.v, Len(v.a) \div 2)
  PROVE  CarriesArray(r, v.a)
  <1> DEFINE a == v.a
             h == Len(a) \div 2
             m == r.v
  <1>1. \A x \in Bulks \cup Bulks : IsSingle(x)
    BY BulkForm
  <1>2. /\ h \in Nat
        /\ \A j \in 1..h : a[2 * j - 1] \in Bulks
        /\ \A j, l \in 1..h : j # l => a[2 * j - 1] # a[2 * l - 1]
    BY <1>1, PairsForm
  <1>3. Inserted(a, m, h)
    OBVIOUS
  <1>4. PairsIn(a) = {<<a[2 * j - 1].s, a[2 * j].s>> : j \in 1..h}
    BY DEF PairsIn
  <1> HIDE DEF a, h, m
  <1>5. \A j, l \in 1..h : j # l => a[2 * j - 1].s # a[2 * l - 1].s
    BY <1>2, BulkForm
  <1>6. \A j \in 1..h : m[a[2 * j - 1].s] = a[2 * j].s
    <2> SUFFICES ASSUME NEW j \in 1..h
                 PROVE  m[a[2 * j - 1].s] = a[2 * j].s
      OBVIOUS
    <2>1. \A l \in (j + 1)..h : l \in 1..h /\ l # j
      BY <1>2
    <2>2. QED
      BY <1>3, <1>5, <2>1 DEF Inserted
  <1>7. DOMAIN m = {a[2 * j - 1].s : j \in 1..h}
    BY <1>3 DEF Inserted
  <1>8. {<<f, m[f]>> : f \in DOMAIN m} = {<<a[2 * j - 1].s, a[2 * j].s>> : j \in 1..h}
    BY <1>6, <1>7
  <1>9. PairsIn(a) = {<<f, m[f]>> : f \in DOMAIN m}
    BY <1>4, <1>8
  <1>10. QED
    BY <1>9, CarriesArrayIs DEF a, m

LEMMA ScoresInFull ==
  ASSUME NEW v, v \in PairsOf(Bulks, {Bulk(One)})
  PROVE  /\ v.k = "array" /\ AllScored(v.a)
         /\ \A r : r.type = "z_vec" /\ r.v = Scored(v.a, Len(v.a) \div 2) => CarriesArray(r, v.a)
  <1> DEFINE a == v.a
             h == Len(a) \div 2
             z == Scored(a, h)
  <1>1. Bulk(One) \in Bulks /\ Bulk(One).s = One
    BY DEF Bulks, Texts, Bulk
  <1>2. /\ v.k = "array" /\ h \in Nat /\ Len(a) = 2 * h
        /\ \A j \in 1..h : a[2 * j - 1] \in Bulks /\ a[2 * j] = Bulk(One)
    <2> DEFINE O == {Bulk(One)}
    <2>1. (\A x \in Bulks \cup O : IsSingle(x)) /\ v \in PairsOf(Bulks, O)
      BY <1>1, BulkForm
    <2> HIDE DEF O
    <2>2. /\ IsArray(v) /\ h \in Nat /\ Len(a) = 2 * h
          /\ \A j \in 1..h : a[2 * j - 1] \in Bulks /\ a[2 * j] \in O
      BY <2>1, PairsForm
    <2>3. QED
      BY <2>2 DEF IsArray, O
  <1>3. AllScored(a)
    BY <1>1, <1>2, BulkForm, OneIsNumber DEF AllScored, TextPairs, Pairs
  <1>4. PairsIn(a) = {<<a[2 * j - 1].s, a[2 * j].s>> : j \in 1..h}
    BY DEF PairsIn
  <1> HIDE DEF a, h
  <1>5. DOMAIN z = 1..h /\ Len(z) = h /\ \A j \in 1..h : z[j] = <<a[2 * j - 1].s, a[2 * j].s>>
    BY <1>2 DEF Scored
  <1> HIDE DEF z
  <1>6. PairsIn(a) = {z[j] : j \in DOMAIN z} /\ 2 * Len(z) = Len(a)
    <2>1. PairsIn(a) = {z[j] : j \in DOMAIN z}
      <3> DEFINE p(j) == <<a[2 * j - 1].s, a[2 * j].s>>
      <3>1. PairsIn(a) = {p(j) : j \in 1..h} /\ \A j \in 1..h : z[j] = p(j)
        BY <1>4, <1>5, Zenon
      <3> HIDE DEF p
      <3>2. {p(j) : j \in 1..h} = {z[j] : j \in 1..h}
        BY <3>1
      <3>3. QED
        BY <1>5, <3>1, <3>2, Zenon
    <2>2. 2 * Len(z) = Len(a)
      BY <1>2, <1>5
    <2>3. QED
      BY <2>1, <2>2
  <1>7. \A r : r.type = "z_vec" /\ r.v = z => CarriesArray(r, a)
    BY <1>6, CarriesArrayIs
  <1>8. QED
    BY <1>2, <1>3, <1>7 DEF a, h, z

LEMMA LoopInFull ==
  ASSUME NEW d \in Looping, d = Decoder[cmd], NEW v, Suits(d, v), NEW r, Made(d, v, r)
  PROVE  Carries(r, v)
  <1>1. Failure("ERR").k = "error" /\ Err.ok = FALSE
    BY DEF Failure, Err
  <1>2. CASE v = Failure("ERR")
    <2>1. r = Decode(d, v)
      BY <1>1, <1>2 DEF Made
    <2>2. QED
      BY <1>1, <1>2, <2>1, DecodeRefuses, CarriesIs
  <1>3. CASE d = "map" /\ v \in PairsOf(Bulks, Bulks)
    <2>1. \A x \in Bulks \cup Bulks : IsSingle(x)
      BY BulkForm
    <2>2. v.k = "array"
      <3>1. IsArray(v)
        BY <1>3, <2>1, PairsForm, Zenon
      <3>2. QED
        BY <3>1, Zenon DEF IsArray
    <2>3. r.ok /\ r = Ok("map", r.v) /\ Inserted(v.a, r.v, Len(v.a) \div 2)
      BY <1>3, <2>2 DEF Made, Looped, Looping
    <2>4. r.type = "map"
      BY <2>3 DEF Ok
    <2>5. CarriesArray(r, v.a)
      BY <1>3, <2>3, <2>4, MapInFull
    <2>6. QED
      BY <2>2, <2>3, <2>5, CarriesIs
  <1>4. CASE d = "z_vec" /\ v \in PairsOf(Bulks, {Bulk(One)})
    <2>1. v.k = "array" /\ AllScored(v.a)
      BY <1>4, ScoresInFull
    <2>2. r.ok /\ r = Ok("z_vec", r.v) /\ r.v = Scored(v.a, Len(v.a) \div 2)
      BY <1>4, <2>1 DEF Made, Looped, Looping
    <2>3. r.type = "z_vec"
      BY <2>2 DEF Ok
    <2>4. CarriesArray(r, v.a)
      BY <1>4, <2>2, <2>3, ScoresInFull
    <2>5. QED
      BY <2>1, <2>2, <2>4, CarriesIs
  <1>5. QED
    BY <1>2, <1>3, <1>4 DEF Suits, Looping

LEMMA InFull ==
  ASSUME NEW v, NEW d, d = Decoder[cmd], cmd \in Methods, Suits(d, v), NEW r, Made(d, v, r)
  PROVE  Carries(r, v)
  <1>1. d \in {"status", "string", "opt_string", "float", "opt_float", "int", "opt_int",
               "bool", "duration", "strings", "opt_strings", "opt_pair", "bools", "raw",
               "map", "z_vec"}
    BY DecoderFits DEF OfKind
  <1>2. CASE d \in Looping
    BY <1>2, LoopInFull
  <1>3. CASE d \notin Looping
    <2>1. r = Decode(d, v)
      BY <1>3 DEF Made
    <2>2. QED
      BY <1>1, <1>3, <2>1, TextInFull, IntInFull, ArrayInFull DEF Looping
  <1>4. QED
    BY <1>2, <1>3

-----------------------------------------------------------------------------
(* Methods and typed command objects                                         *)

LEMMA CmdIs ==
  ASSUME NEW p, NEW e
  PROVE  Cmd(p, e).parsed = p /\ (p.ok /\ p # None => Cmd(p, e).result = p)
  BY DEF Cmd

LEMMA OkIs ==
  ASSUME NEW t, NEW x
  PROVE  /\ Ok(t, x).ok /\ Ok(t, x).type = t /\ Ok(t, x).v = x
         /\ t # "none" => Ok(t, x) # None
         /\ ~Err.ok
  BY DEF Ok, None, Err

LEMMA SameValueIs ==
  ASSUME NEW r, NEW x
  PROVE  /\ r.type \notin {"duration", "options", "pair", "value"} /\ r = x => SameValue(r, x)
         /\ r.type = "duration" /\ (x.v = r.v * Precision \/ r.v * Precision >= U64)
              => SameValue(r, x)
         /\ r.type = "options" /\ r.v = OptStrings(x.v) => SameValue(r, x)
         /\ r.type = "pair" /\ r.v = SubSeq(x.v, 1, 2) => SameValue(r, x)
         /\ r.type = "value" /\ r.v = Array(x.v) => SameValue(r, x)
  BY DEF SameValue

LEMMA WrapperIs ==
  ASSUME NEW d, NEW v
  PROVE  /\ d = "status" => Wrapper(d, v) = StatusCmd(v)
         /\ d \in {"string", "opt_string"} => Wrapper(d, v) = StringCmd(v)
         /\ d \in {"int", "opt_int"} => Wrapper(d, v) = IntCmd(v)
         /\ d = "bool" => Wrapper(d, v) = BoolCmd(v)
         /\ d = "duration" => Wrapper(d, v) = DurationCmd(v)
         /\ d \in {"float", "opt_float"} => Wrapper(d, v) = FloatCmd(v)
         /\ d \in {"strings", "opt_pair"} => Wrapper(d, v) = StringSliceCmd(v)
         /\ d \in {"opt_strings", "raw"} => Wrapper(d, v) = SliceCmd(v)
         /\ d = "bools" => Wrapper(d, v) = BoolSliceCmd(v)
         /\ d = "map" => Wrapper(d, v) = StringMapCmd(v)
         /\ d = "z_vec" => Wrapper(d, v) = ZSliceCmd(v)
  <1>1. CASE d = "status"
    BY <1>1 DEF Wrapper
  <1>2. CASE d \in {"string", "opt_string"}
    BY <1>2 DEF Wrapper
  <1>3. CASE d \in {"int", "opt_int"}
    BY <1>3 DEF Wrapper
  <1>4. CASE d = "bool"
    BY <1>4 DEF Wrapper
  <1>5. CASE d = "duration"
    BY <1>5 DEF Wrapper
  <1>6. CASE d \in {"float", "opt_float"}
    BY <1>6 DEF Wrapper
  <1>7. CASE d \in {"strings", "opt_pair"}
    BY <1>7 DEF Wrapper
  <1>8. CASE d \in {"opt_strings", "raw"}
    BY <1>8 DEF Wrapper
  <1>9. CASE d = "bools"
    BY <1>9 DEF Wrapper
  <1>10. CASE d = "map"
    BY <1>10 DEF Wrapper
  <1>11. CASE d = "z_vec"
    BY <1>11 DEF Wrapper
  <1>12. QED
    BY <1>1, <1>2, <1>3, <1>4, <1>5, <1>6, <1>7, <1>8, <1>9, <1>10, <1>11

LEMMA SameText ==
  ASSUME NEW d \in {"status", "string", "opt_string", "float", "opt_float"}, NEW v,
         NEW r, r = Decode(d, v), r.ok, r # None
  PROVE  SameValue(r, Wrapper(d, v).result)
  <1>1. v.k \notin {"error", "nil"}
    BY OkIs, DecodeRefuses
  <1>2. CASE d \in {"status", "string", "opt_string"}
    <2>1. IsText(v) /\ v.k # "nil" /\ r = Ok("string", v.s)
      BY <1>1, <1>2, OkIs, DecodeText DEF IsText
    <2>2. Wrapper(d, v) = Cmd(Ok("string", v.s), IF d = "status" THEN Err ELSE None)
      BY <1>2, <2>1, WrapperIs DEF StatusCmd, StringCmd
    <2>3. Wrapper(d, v).result = Ok("string", v.s)
      BY <2>2, CmdIs, OkIs
    <2>4. QED
      BY <2>1, <2>3, OkIs, SameValueIs
  <1>3. CASE d \in {"float", "opt_float"}
    <2>1. IsText(v) /\ IsNumber(v.s) /\ r = Ok("float", v.s)
      BY <1>1, <1>3, OkIs, DecodeText DEF Float
    <2>2. Wrapper(d, v) = Cmd(Ok("float", v.s), Err)
      BY <1>3, <2>1, WrapperIs DEF FloatCmd
    <2>3. Wrapper(d, v).result = Ok("float", v.s)
      BY <2>2, CmdIs, OkIs
    <2>4. QED
      BY <2>1, <2>3, OkIs, SameValueIs
  <1>4. QED
    BY <1>2, <1>3

LEMMA SameInt ==
  ASSUME NEW d \in {"int", "opt_int", "bool", "duration"}, NEW v, IsReply(v),
         NEW r, r = Decode(d, v), r.ok, r # None
  PROVE  SameValue(r, Wrapper(d, v).result)
  <1>1. v.k \notin {"error", "nil"}
    BY OkIs, DecodeRefuses
  <1>2. v.k = "int"
    BY <1>1, OkIs, DecodeInt
  <1>3. v.n \in Int
    BY <1>2, BulkForm DEF IsReply, IsSingle, IsArray, Failure, Status, Nil
  <1>4. CASE d \in {"int", "opt_int"}
    <2>1. r = Ok("int", v.n)
      BY <1>1, <1>2, <1>4, DecodeInt
    <2>2. Wrapper(d, v) = Cmd(Ok("int", v.n), Err)
      BY <1>2, <1>4, WrapperIs DEF IntCmd, IsText
    <2>3. Wrapper(d, v).result = Ok("int", v.n)
      BY <2>2, CmdIs, OkIs
    <2>4. QED
      BY <2>1, <2>3, OkIs, SameValueIs
  <1>5. CASE d = "bool"
    <2>1. r = Ok("bool", v.n = 1)
      BY <1>1, <1>2, <1>5, DecodeInt
    <2>2. Wrapper(d, v) = Cmd(Ok("bool", v.n = 1), Err)
      BY <1>2, <1>5, WrapperIs DEF BoolCmd
    <2>3. Wrapper(d, v).result = Ok("bool", v.n = 1)
      BY <2>2, CmdIs, OkIs
    <2>4. QED
      BY <2>1, <2>3, OkIs, SameValueIs
  <1>6. CASE d = "duration"
    <2> DEFINE n == v.n
               t == IF n < 0 THEN 0 ELSE n
               y == IF n < 0 THEN 0 ELSE (n * Precision) % U64
    <2>1. r = Ok("duration", t)
      BY <1>1, <1>2, <1>6, DecodeInt
    <2>2. Wrapper(d, v) = Cmd(Ok("nanos", y), Err)
      BY <1>2, <1>6, WrapperIs DEF DurationCmd
    <2>3. Wrapper(d, v).result = Ok("nanos", y)
      <3> HIDE DEF y
      <3>1. QED
        BY <2>2, CmdIs, OkIs
    <2>4. y = t * Precision \/ t * Precision >= U64
      <3>1. Precision \in Nat /\ U64 \in Nat \ {0}
        BY WidthAssumption
      <3>2. CASE n < 0
        BY <3>1, <3>2
      <3>3. CASE ~(n < 0)
        <4> DEFINE q == n * Precision
        <4>1. n \in Nat
          BY <1>3, <3>3
        <4>2. q \in Nat
          <5> HIDE DEF n
          <5>1. QED
            BY <3>1, <4>1
        <4>3. y = q % U64 /\ t * Precision = q
          BY <3>3
        <4> HIDE DEF q
        <4>4. q < U64 => q % U64 = q
          BY <3>1, <4>2
        <4>5. QED
          BY <3>1, <4>2, <4>3, <4>4
      <3>4. QED
        BY <3>2, <3>3
    <2> HIDE DEF y, t
    <2>5. QED
      BY <2>1, <2>3, <2>4, OkIs, SameValueIs
  <1>7. QED
    BY <1>4, <1>5, <1>6

LEMMA SameArray ==
  ASSUME NEW d \in {"strings", "opt_strings", "opt_pair", "bools", "raw"}, NEW v, IsReply(v),
         NEW r, r = Decode(d, v), r.ok, r # None, Wrapper(d, v).parsed.ok
  PROVE  SameValue(r, Wrapper(d, v).result)
  <1> DEFINE a == v.a
  <1>1. v.k \notin {"error", "nil"}
    BY OkIs, DecodeRefuses
  <1>2. v.k = "array"
    <2>1. CASE d \in {"strings", "opt_pair"}
      BY <2>1, CmdIs, OkIs, WrapperIs DEF StringSliceCmd
    <2>2. CASE d \in {"opt_strings", "raw"}
      BY <2>2, CmdIs, OkIs, WrapperIs DEF SliceCmd
    <2>3. CASE d = "bools"
      <3>1. v.k # "array" => Wrapper(d, v) = Cmd(Err, Ok("bools", <<>>))
        BY <2>3, WrapperIs DEF BoolSliceCmd
      <3>2. QED
        BY <3>1, CmdIs, OkIs
    <2>4. QED
      BY <2>1, <2>2, <2>3
  <1>3. v = Array(a) /\ Len(a) \in Nat /\ DOMAIN a = 1..Len(a)
    <2>1. IsArray(v)
      BY <1>2, BulkForm DEF IsReply, IsSingle, Failure, Status, Nil
    <2>2. QED
      BY <2>1 DEF IsArray
  <1>4. CASE d \in {"strings", "opt_pair"}
    <2>1. \A j \in 1..Len(a) : IsText(a[j])
      BY <1>3, <1>4, CmdIs, OkIs, WrapperIs DEF StringSliceCmd
    <2>2. Wrapper(d, v) = Cmd(Ok("strings", TextsOf(a)), Ok("strings", <<>>))
      BY <1>2, <1>3, <1>4, <2>1, WrapperIs DEF StringSliceCmd
    <2>3. Wrapper(d, v).result = Ok("strings", TextsOf(a))
      BY <2>2, CmdIs, OkIs
    <2>4. CASE d = "strings"
      <3>1. r = Ok("strings", TextsOf(a))
        BY <1>1, <1>2, <1>3, <2>1, <2>4, DecodeArray, TextsKept
      <3>2. QED
        BY <2>3, <3>1, OkIs, SameValueIs
    <2>5. CASE d = "opt_pair"
      <3>1. r = OptPair(v)
        BY <1>1, <2>5, DecodeArray
      <3>2. Len(a) >= 2
        BY <1>2, <1>3, <3>1 DEF OptPair
      <3>3. IsText(a[1]) /\ IsText(a[2])
        BY <1>3, <2>1, <3>2
      <3>4. r = Ok("pair", <<a[1].s, a[2].s>>)
        BY <1>2, <1>3, <3>1, <3>2, <3>3 DEF OptPair
      <3>5. SubSeq(TextsOf(a), 1, 2) = <<a[1].s, a[2].s>>
        <4> DEFINE x == TextsOf(a)
                   S == {a[j].s : j \in 1..Len(a)}
        <4>1. x \in Seq(S) /\ Len(x) = Len(a) /\ x[1] = a[1].s /\ x[2] = a[2].s
          BY <1>3, <3>2 DEF TextsOf
        <4> HIDE DEF x, S
        <4>2. x[1] \in S /\ x[2] \in S
          BY <1>3, <3>2, <4>1
        <4>3. SubSeq(x, 1, 2) = [l \in 1..2 |-> x[l]]
          BY <1>3, <3>2, <4>1, SubSeqProperties
        <4>4. [l \in 1..2 |-> x[l]] = <<x[1], x[2]>>
          OBVIOUS
        <4>5. QED
          BY <4>1, <4>3, <4>4 DEF x
      <3>6. /\ r.type = "pair" /\ r.v = <<a[1].s, a[2].s>>
            /\ Wrapper(d, v).result.v = TextsOf(a)
        BY <2>3, <3>4, OkIs
      <3>7. QED
        BY <3>5, <3>6, SameValueIs
    <2>6. QED
      BY <1>4, <2>4, <2>5
  <1>5. CASE d \in {"opt_strings", "raw"}
    <2>1. Wrapper(d, v).result = Ok("slice", a)
      BY <1>2, <1>5, CmdIs, OkIs, WrapperIs DEF SliceCmd
    <2>2. CASE d = "opt_strings"
      <3>1. r = Ok("options", OptStrings(a))
        BY <1>1, <1>2, <2>2, DecodeArray
      <3>2. QED
        BY <2>1, <3>1, OkIs, SameValueIs
    <2>3. CASE d = "raw"
      <3>1. r = Ok("value", v)
        BY <1>1, <2>3, DecodeArray
      <3>2. QED
        BY <1>3, <2>1, <3>1, OkIs, SameValueIs
    <2>4. QED
      BY <1>5, <2>2, <2>3
  <1>6. CASE d = "bools"
    <2> DEFINE b == [j \in 1..Len(a) |-> a[j].n = 1]
    <2>1. \A j \in 1..Len(a) : a[j].k = "int"
      <3>1. ~(\A j \in DOMAIN a : a[j].k = "int") =>
              Wrapper(d, v) = Cmd(Err, Ok("bools", <<>>))
        BY <1>6, WrapperIs DEF BoolSliceCmd
      <3>2. QED
        BY <1>3, <3>1, CmdIs, OkIs
    <2>2. Wrapper(d, v) = Cmd(Ok("bools", b), Ok("bools", <<>>))
      BY <1>2, <1>3, <1>6, <2>1, WrapperIs DEF BoolSliceCmd
    <2>3. r = Ok("bools", b)
      <3>1. r = Ok("bools", Bools(a))
        BY <1>1, <1>2, <1>6, DecodeArray
      <3>2. Bools(a) = b
        BY <1>3, <2>1, BoolsKept
      <3>3. QED
        BY <3>1, <3>2
    <2> HIDE DEF b
    <2>4. Wrapper(d, v).result = Ok("bools", b)
      BY <2>2, CmdIs, OkIs
    <2>5. QED
      BY <2>3, <2>4, OkIs, SameValueIs
  <1>7. QED
    BY <1>4, <1>5, <1>6

\* Of the pairs with one key the last is the one that a map keeps.
LEMMA SameMap ==
  ASSUME NEW a, NEW h \in Nat, NEW m, Inserted(a, m, h)
  PROVE  m = [f \in {a[2 * j - 1].s : j \in 1..h} |->
                a[2 * Max({j \in 1..h : a[2 * j - 1].s = f})].s]
  <1> DEFINE K == {a[2 * j - 1].s : j \in 1..h}
             At(f) == {j \in 1..h : a[2 * j - 1].s = f}
  <1>1. m = [f \in DOMAIN m |-> m[f]] /\ DOMAIN m = K
    BY DEF Inserted
  <1>2. ASSUME NEW f \in K
        PROVE  m[f] = a[2 * Max(At(f))].s
    <2>1. At(f) \in SUBSET (1..h) /\ At(f) # {}
      OBVIOUS
    <2>2. Max(At(f)) \in At(f) /\ \A y \in At(f) : Max(At(f)) >= y
      BY <2>1, GreatestNat
    <2> DEFINE j == Max(At(f))
    <2>3. j \in 1..h /\ a[2 * j - 1].s = f
      BY <2>2
    <2>4. \A l \in (j + 1)..h : a[2 * l - 1].s # a[2 * j - 1].s
      <3> SUFFICES ASSUME NEW l \in (j + 1)..h, a[2 * l - 1].s = a[2 * j - 1].s
                   PROVE  FALSE
        OBVIOUS
      <3> HIDE DEF j
      <3>1. l \in 1..h /\ ~(j >= l)
        BY <2>3
      <3>2. l \in At(f)
        BY <2>3, <3>1
      <3>3. j >= l
        BY <2>2, <3>2 DEF j
      <3>4. QED
        BY <3>1, <3>3
    <2> HIDE DEF j
    <2>5. m[a[2 * j - 1].s] = a[2 * j].s
      BY <2>3, <2>4 DEF Inserted
    <2>6. m[f] = a[2 * j].s
      BY <2>3, <2>5
    <2>7. QED
      BY <2>6 DEF j
  <1>3. QED
    BY <1>1, <1>2

LEMMA SameLoop ==
  ASSUME NEW d \in Looping, NEW v, IsReply(v), NEW r, Made(d, v, r), r.ok,
         Wrapper(d, v).parsed.ok
  PROVE  SameValue(r, Wrapper(d, v).result)
  <1> DEFINE a == v.a
             h == Len(a) \div 2
  <1>1. v.k = "array"
    <2> SUFFICES ASSUME v.k # "array"
                 PROVE  FALSE
      OBVIOUS
    <2>1. r = Decode(d, v)
      BY DEF Made
    <2>2. d \notin Optional
      BY DEF Optional, Looping
    <2>3. QED
      BY <2>1, <2>2, OkIs, DecodeRefuses, DecodeArray
  <1>2. Len(a) \in Nat /\ h \in Nat /\ Pairs(a) = 1..h
    <2>1. IsArray(v)
      BY <1>1, BulkForm DEF IsReply, IsSingle, Failure, Status, Nil
    <2>2. Len(a) \in Nat
      BY <2>1 DEF IsArray
    <2>3. h \in Nat
      <3> DEFINE n == Len(a)
      <3>1. n \in Nat
        BY <2>2
      <3> HIDE DEF n
      <3>2. n \div 2 \in Nat
        BY <3>1
      <3>3. QED
        BY <3>2 DEF n
    <2>4. QED
      BY <2>2, <2>3 DEF Pairs
  <1>3. r = Ok(d, r.v) /\ Looped(d, a, r.v, h)
    BY <1>1 DEF Made
  <1> HIDE DEF h
  <1>4. CASE d = "map"
    <2> DEFINE x == [f \in {a[2 * j - 1].s : j \in Pairs(a)} |->
                       a[2 * Max({j \in Pairs(a) : a[2 * j - 1].s = f})].s]
    <2>1. TextPairs(a)
      <3>1. ~TextPairs(a) => Wrapper(d, v) = Cmd(Err, Ok("map", <<>>))
        BY <1>4, WrapperIs DEF StringMapCmd
      <3>2. QED
        BY <3>1, CmdIs, OkIs
    <2>2. Wrapper(d, v) = Cmd(Ok("map", x), Ok("map", <<>>))
      BY <1>1, <1>4, <2>1, WrapperIs DEF StringMapCmd
    <2>3. Inserted(a, r.v, h)
      BY <1>3, <1>4 DEF Looped
    <2>4. r.v = x
      BY <1>2, <2>3, SameMap
    <2> HIDE DEF x
    <2>5. Wrapper(d, v).result = Ok("map", x)
      BY <2>2, CmdIs, OkIs
    <2>6. QED
      BY <1>3, <1>4, <2>4, <2>5, OkIs, SameValueIs
  <1>5. CASE d = "z_vec"
    <2> DEFINE x == [j \in Pairs(a) |-> <<a[2 * j - 1].s, a[2 * j].s>>]
    <2>1. AllScored(a)
      <3>1. ~AllScored(a) => Wrapper(d, v) = Cmd(Err, Ok("z_vec", <<>>))
        BY <1>5, WrapperIs DEF ZSliceCmd, AllScored
      <3>2. QED
        BY <3>1, CmdIs, OkIs
    <2>2. Wrapper(d, v) = Cmd(Ok("z_vec", x), Ok("z_vec", <<>>))
      BY <1>1, <1>5, <2>1, WrapperIs DEF ZSliceCmd, AllScored
    <2>3. r.v = x
      BY <1>2, <1>3, <1>5, <2>1 DEF Looped, Scored
    <2> HIDE DEF x
    <2>4. Wrapper(d, v).result = Ok("z_vec", x)
      BY <2>2, CmdIs, OkIs
    <2>5. QED
      BY <1>3, <1>5, <2>3, <2>4, OkIs, SameValueIs
  <1>6. QED
    BY <1>4, <1>5 DEF Looping

\* A method's result and an object's, for the same reply.
LEMMA SameEither ==
  ASSUME NEW c \in Methods, NEW v, IsReply(v), NEW r, Made(Decoder[c], v, r), r.ok, r # None,
         Wrapper(Decoder[c], v).parsed.ok
  PROVE  SameValue(r, Wrapper(Decoder[c], v).result)
  <1> DEFINE d == Decoder[c]
  <1>1. d \in {"status", "string", "opt_string", "float", "opt_float", "int", "opt_int",
               "bool", "duration", "strings", "opt_strings", "opt_pair", "bools", "raw",
               "map", "z_vec"}
    BY DecoderFits DEF OfKind
  <1>2. Made(d, v, r) /\ Wrapper(d, v).parsed.ok
    OBVIOUS
  <1> HIDE DEF d
  <1>3. CASE d \in Looping
    BY <1>2, <1>3, SameLoop DEF d
  <1>4. CASE d \notin Looping
    <2>1. r = Decode(d, v)
      BY <1>2, <1>4 DEF Made
    <2>2. SameValue(r, Wrapper(d, v).result)
      BY <1>1, <1>2, <1>4, <2>1, SameText, SameInt, SameArray DEF Looping
    <2>3. QED
      BY <2>2 DEF d
  <1>5. QED
    BY <1>3, <1>4

-----------------------------------------------------------------------------
(* Loops                                                                     *)

LEMMA InsertNext ==
  ASSUME NEW a, NEW n \in Nat, NEW m, Inserted(a, m, n),
         IsText(a[2 * (n + 1) - 1]), IsText(a[2 * (n + 1)])
  PROVE  Inserted(a, Insert(m, a[2 * (n + 1) - 1].s, a[2 * (n + 1)].s), n + 1)
  <1> DEFINE f == a[2 * (n + 1) - 1].s
             s == a[2 * (n + 1)].s
             w == Insert(m, f, s)
             Key(j) == a[2 * j - 1].s
  <1>1. \A j \in 1..(n + 1) : j \in 1..n \/ j = n + 1
    OBVIOUS
  <1>2. 1..n \subseteq 1..(n + 1) /\ n + 1 \in 1..(n + 1)
    OBVIOUS
  <1>3. \A j \in 1..(n + 1) : IsText(a[2 * j - 1]) /\ IsText(a[2 * j])
    BY <1>1 DEF Inserted
  <1>4. DOMAIN m = {Key(j) : j \in 1..n}
    BY DEF Inserted
  <1>5. /\ DOMAIN w = DOMAIN m \cup {f} /\ w = [g \in DOMAIN w |-> w[g]]
        /\ w[f] = s /\ \A g \in DOMAIN m : g # f => w[g] = m[g]
    BY DEF Insert
  <1> HIDE DEF w
  <1>6. DOMAIN w = {Key(j) : j \in 1..(n + 1)}
    <2>1. Key(n + 1) = f
      OBVIOUS
    <2> HIDE DEF Key, f
    <2>2. QED
      BY <1>1, <1>2, <1>4, <1>5, <2>1
  <1>7. ASSUME NEW j \in 1..(n + 1), \A l \in (j + 1)..(n + 1) : Key(l) # Key(j)
        PROVE  w[Key(j)] = a[2 * j].s
    <2>1. CASE j = n + 1
      BY <1>5, <2>1
    <2>2. CASE j \in 1..n
      <3>1. n + 1 \in (j + 1)..(n + 1) /\ (j + 1)..n \subseteq (j + 1)..(n + 1)
        BY <2>2
      <3>2. Key(j) # f
        BY <1>7, <3>1
      <3>3. \A l \in (j + 1)..n : Key(l) # Key(j)
        BY <1>7, <3>1
      <3>4. m[Key(j)] = a[2 * j].s
        BY <2>2, <3>3 DEF Inserted
      <3>5. Key(j) \in DOMAIN m
        BY <1>4, <2>2
      <3> HIDE DEF Key, f
      <3>6. QED
        BY <1>5, <3>2, <3>4, <3>5
    <2>3. QED
      BY <1>1, <2>1, <2>2
  <1>8. Inserted(a, w, n + 1)
    BY <1>3, <1>5, <1>6, <1>7 DEF Inserted
  <1>9. QED
    BY <1>8 DEF w

LEMMA ScoreNext ==
  ASSUME NEW a, NEW n \in Nat
  PROVE  Append(Scored(a, n), <<a[2 * (n + 1) - 1].s, a[2 * (n + 1)].s>>) = Scored(a, n + 1)
  <1> DEFINE x == [j \in 1..(n + 1) |-> <<a[2 * j - 1].s, a[2 * j].s>>]
  <1>1. x[n + 1] = <<a[2 * (n + 1) - 1].s, a[2 * (n + 1)].s>>
    OBVIOUS
  <1>2. Scored(a, n) = Upto(x, n) /\ Scored(a, n + 1) = Upto(x, n + 1)
    BY DEF Scored, Upto
  <1> HIDE DEF x
  <1>3. QED
    BY <1>1, <1>2, AppendNext

LEMMA LoopStarts ==
  ASSUME NEW d \in Looping, NEW a
  PROVE  Looped(d, a, <<>>, 0)
  <1>1. Inserted(a, <<>>, 0)
    BY DEF Inserted
  <1>2. Scored(a, 0) = <<>>
    BY DEF Scored
  <1>3. QED
    BY <1>1, <1>2 DEF Looped, Looping

-----------------------------------------------------------------------------
(* Steps                                                                     *)

LEMMA MethodsAsked == Asked \subseteq Methods /\ "PING" \in Methods
  <1>1. /\ ScriptCommands \in Groups
        /\ {"string", "bools", "raw"} = DOMAIN ScriptCommands
        /\ ScriptCommands["raw"] = {"EVAL", "EVALSHA"}
    BY DEF Groups, ScriptCommands
  <1>2. ConnectionCommands \in Groups /\ "string" \in DOMAIN ConnectionCommands
          /\ "PING" \in ConnectionCommands["string"]
    BY DEF Groups, ConnectionCommands
  <1>3. \A g \in Groups : \A d \in DOMAIN g : \A c \in g[d] : c \in Methods
    BY DEF Methods
  <1>4. ScriptMethods \subseteq Methods
    BY <1>1, <1>3 DEF ScriptMethods
  <1>5. "EVAL" \in Methods /\ "EVALSHA" \in Methods
    BY <1>1, <1>3
  <1>6. "PING" \in Methods
    BY <1>2, <1>3
  <1>7. QED
    BY <1>4, <1>5, <1>6 DEF Asked

LEMMA RepliesForm ==
  ASSUME NEW c \in Methods, NEW v \in Replies(c)
  PROVE  Suits(Decoder[c], v) /\ IsReply(v)
  BY DecoderFits, RepliesSuit, SuitsForm

LEMMA UnreadForm ==
  ASSUME NEW v \in AllReplies
  PROVE  IsReply(v)
  <1>1. PICK c \in Asked : v \in Replies(c)
    BY DEF AllReplies, Asked
  <1>2. QED
    BY <1>1, MethodsAsked, RepliesForm

\* The reply at the end of the wire answers the request just sent.
LEMMA RequestAnswers ==
  ASSUME NEW c, NEW w \in Seq(Unread), c \in Asked, Request(c, w), calls \in Nat
  PROVE  wire'[Len(wire')].v \in Replies(c)
  <1>1. PICK x \in Replies(c) : wire' = Append(w, [id |-> calls', v |-> x])
    BY DEF Request
  <1> DEFINE e == [id |-> calls', v |-> x]
  <1>2. e \in Unread /\ e.v = x /\ wire' = Append(w, e)
    BY <1>1 DEF Unread, AllReplies, Asked, Request
  <1> HIDE DEF e
  <1>3. wire'[Len(wire')] = e
    BY <1>2, AppendProperties
  <1>4. QED
    BY <1>2, <1>3

\* A call that waits has not read the answer to its request.
LEMMA WaitsBehind ==
  ASSUME ScriptInv, pc = "wait"
  PROVE  ~InStep
  <1>1. /\ calls \in Nat /\ wire \in Seq(Unread) /\ wire # <<>>
        /\ wire[Len(wire)].id = calls
    BY DEF ScriptInv, Queued, Unread
  <1>2. Len(wire) \in 1..Len(wire)
    BY <1>1
  <1>3. reply.id < calls /\ reply.id \in 0..calls
    BY <1>1, <1>2 DEF ScriptInv, Queued
  <1>4. QED
    BY <1>1, <1>3 DEF InStep

\* A call has sent its request and waits.
LEMMA AnsweredWaiting ==
  ASSUME NEW c \in Asked, NEW w \in Seq(Unread), calls \in Nat, Request(c, w),
         pc' = "wait", cmd' = c, IsReply(reply'.v)
  PROVE  Answered'
  <1>1. cmd' \in Methods
    BY MethodsAsked
  <1>2. wire'[Len(wire')].v \in Replies(cmd')
    BY RequestAnswers
  <1>3. QED
    BY <1>1, <1>2 DEF Answered

LEMMA AnsweredCall ==
  ASSUME CommandsInv, NEW c \in Methods, Call(c)
  PROVE  Answered'
  <1>1. Request(c, wire) /\ pc' = "wait" /\ cmd' = c /\ reply' = reply
    BY DEF Call
  <1>2. wire \in Seq(Unread) /\ calls \in Nat
    BY DEF CommandsInv, ScriptInv, Queued, Unread
  <1>3. IsReply(reply'.v)
    BY <1>1 DEF CommandsInv, Answered
  <1>4. c \in Asked
    BY DEF Asked
  <1>5. QED
    BY <1>1, <1>2, <1>3, <1>4, AnsweredWaiting

LEMMA AnsweredFallback ==
  ASSUME CommandsInv, RunFallback
  PROVE  Answered'
  <1>1. /\ pc = "wait" /\ pc' = "wait" /\ cmd' = "EVAL"
        /\ reply' = Head(wire) /\ Request("EVAL", Tail(wire))
    BY DEF RunFallback
  <1>2. wire # <<>> /\ Queued /\ calls \in Nat /\ wire \in Seq(Unread)
    BY <1>1 DEF CommandsInv, ScriptInv, Queued, Unread
  <1>3. Tail(wire) \in Seq(Unread) /\ Head(wire) \in Unread
    BY <1>2
  <1>4. IsReply(reply'.v)
    BY <1>1, <1>3, UnreadForm DEF Unread
  <1>5. "EVAL" \in Asked
    BY DEF Asked
  <1>6. QED
    BY <1>1, <1>2, <1>3, <1>4, <1>5, AnsweredWaiting

LEMMA AnsweredReceive ==
  ASSUME CommandsInv, Receive
  PROVE  Answered'
  <1> DEFINE d == Decoder[cmd]
             v == reply'.v
  <1>1. /\ pc = "wait" /\ reply' = Head(wire) /\ i' = 0 /\ acc' = <<>>
        /\ cmd' = cmd /\ calls' = calls
    BY DEF Receive
  <1>2. \/ d \in Looping /\ v.k = "array" /\ pc' = "pairs"
        \/ ~(d \in Looping /\ v.k = "array") /\ pc' = "idle" /\ result' = Decode(d, v)
    BY DEF Receive, Entering
  <1>3. wire # <<>> /\ Queued /\ calls \in Nat /\ wire \in Seq(Unread)
    BY <1>1 DEF CommandsInv, ScriptInv, Queued, Unread
  <1>4. Head(wire) \in Unread /\ Head(wire) = wire[1] /\ 1 \in 1..Len(wire)
    BY <1>3
  <1>5. IsReply(v)
    BY <1>1, <1>4, UnreadForm DEF Unread
  <1>6. InStep' => v \in Replies(cmd)
    <2>1. Head(wire).id = calls => Len(wire) = 1
      BY <1>1, <1>3, ReadStep
    <2>2. wire[Len(wire)].v \in Replies(cmd)
      BY <1>1 DEF CommandsInv, Answered
    <2>3. QED
      BY <1>1, <1>4, <2>1, <2>2 DEF InStep
  <1>7. reply'.id # 0
    <2>1. reply.id < wire[1].id /\ reply.id \in 0..calls
      BY <1>3, <1>4 DEF Queued
    <2>2. QED
      BY <1>1, <1>3, <1>4, <2>1
  <1>8. cmd \in Methods
    BY DEF CommandsInv, Answered
  <1>9. CASE pc' = "pairs"
    <2>1. d \in Looping /\ v.k = "array"
      BY <1>2, <1>9
    <2>2. Looped(d, v.a, acc', 0)
      BY <1>1, <2>1, LoopStarts
    <2>3. Len(v.a) \in Nat
      <3>1. IsArray(v)
        BY <1>5, <2>1, BulkForm DEF IsReply, IsSingle, Failure, Status, Nil
      <3>2. QED
        BY <3>1 DEF IsArray
    <2>4. 0 \in 0..Len(v.a) /\ i' = 2 * 0 /\ i' <= Len(v.a)
      BY <1>1, <2>3
    <2>5. QED
      BY <1>1, <1>5, <1>6, <1>7, <1>8, <1>9, <2>1, <2>2, <2>4 DEF Answered
  <1>10. CASE pc' = "idle"
    <2>1. Made(d, v, result')
      BY <1>2, <1>10 DEF Made
    <2>2. QED
      BY <1>1, <1>5, <1>6, <1>8, <1>10, <2>1 DEF Answered
  <1>11. QED
    BY <1>2, <1>9, <1>10

LEMMA AnsweredAbandon ==
  ASSUME CommandsInv, Abandon
  PROVE  Answered'
  <1>1. /\ pc = "wait" /\ pc' = "idle" /\ result' = Err
        /\ UNCHANGED <<cmd, wire, calls, reply>>
    BY DEF Abandon
  <1>2. ~InStep'
    BY <1>1, WaitsBehind DEF CommandsInv, InStep
  <1>3. QED
    BY <1>1, <1>2 DEF CommandsInv, Answered

\* A loop has the array it began with.
LEMMA LoopArray ==
  ASSUME CommandsInv, pc = "pairs"
  PROVE  /\ Decoder[cmd] \in {"map", "z_vec"}
         /\ reply.v.k = "array"
         /\ Len(reply.v.a) \in Nat
         /\ Len(reply.v.a) \div 2 \in Nat
  <1>1. Decoder[cmd] \in Looping /\ reply.v.k = "array" /\ IsReply(reply.v)
    BY DEF CommandsInv, Answered
  <1>2. IsArray(reply.v)
    BY <1>1, BulkForm DEF IsReply, IsSingle, Failure, Status, Nil
  <1> DEFINE n == Len(reply.v.a)
  <1>3. n \in Nat
    BY <1>2 DEF IsArray
  <1> HIDE DEF n
  <1>4. n \div 2 \in Nat
    BY <1>3
  <1>5. QED
    BY <1>1, <1>3, <1>4 DEF n, Looping

\* The loop goes on from n pairs to n + 1, or was not worth counting.
LEMMA AnsweredLoops ==
  ASSUME CommandsInv, pc = "pairs", pc' = "pairs",
         UNCHANGED <<cmd, wire, calls, reply, result>>,
         (Decoder[cmd] = "z_vec" => AllScored(reply.v.a)) =>
            \E n \in 0..Len(reply.v.a) :
              i' = 2 * n /\ i' <= Len(reply.v.a) /\ Looped(Decoder[cmd], reply.v.a, acc', n)
  PROVE  Answered'
  <1>1. InStep' = InStep
    BY DEF InStep
  <1>2. QED
    BY <1>1 DEF CommandsInv, Answered

LEMMA AnsweredEnds ==
  ASSUME CommandsInv, pc = "pairs", pc' = "idle", UNCHANGED <<cmd, wire, calls, reply>>,
         Made(Decoder[cmd], reply.v, result')
  PROVE  Answered'
  <1>1. InStep' = InStep
    BY DEF InStep
  <1>2. QED
    BY <1>1 DEF CommandsInv, Answered

LEMMA AnsweredLoopEnds ==
  ASSUME CommandsInv, LoopEnds
  PROVE  Answered'
  <1> DEFINE d == Decoder[cmd]
             a == reply.v.a
             h == Len(a) \div 2
  <1>1. /\ pc = "pairs" /\ pc' = "idle" /\ i + 1 >= Len(a) /\ result' = Ok(d, acc)
        /\ UNCHANGED <<cmd, wire, calls, reply>>
    BY DEF LoopEnds
  <1>2. d \in {"map", "z_vec"} /\ reply.v.k = "array" /\ Len(a) \in Nat /\ h \in Nat
    BY <1>1, LoopArray
  <1>3. Looped(d, a, acc, h)
    <2>1. CASE d = "z_vec" /\ ~AllScored(a)
      BY <2>1 DEF Looped
    <2>2. CASE d = "z_vec" => AllScored(a)
      <3>1. PICK n \in 0..Len(a) : i = 2 * n /\ i <= Len(a) /\ Looped(d, a, acc, n)
        BY <1>1, <2>2 DEF CommandsInv, Answered
      <3>2. n = h
        <4> DEFINE l == Len(a)
        <4>1. l \in Nat /\ n \in 0..l /\ 2 * n <= l /\ 2 * n + 1 >= l
          BY <1>1, <1>2, <3>1
        <4> HIDE DEF l
        <4>2. n = l \div 2
          BY <4>1
        <4>3. QED
          BY <4>2 DEF l
      <3>3. QED
        BY <3>1, <3>2
    <2>3. QED
      BY <2>1, <2>2
  <1>4. result'.ok /\ result'.v = acc
    BY <1>1 DEF Ok
  <1>5. d \in Looping
    BY <1>2 DEF Looping
  <1>6. Made(d, reply.v, result')
    BY <1>1, <1>2, <1>3, <1>4, <1>5 DEF Made
  <1>7. QED
    BY <1>1, <1>6, AnsweredEnds

\* A loop that stands at a pair stands at pair n + 1 of the array.
LEMMA AtNextPair ==
  ASSUME CommandsInv, NEW d \in Looping, AtPair(d), d = "z_vec" => AllScored(reply.v.a)
  PROVE  \E n \in Nat :
           /\ i = 2 * n /\ n + 1 \in Pairs(reply.v.a) /\ Looped(d, reply.v.a, acc, n)
           /\ First = reply.v.a[2 * (n + 1) - 1] /\ Second = reply.v.a[2 * (n + 1)]
           /\ n + 1 \in 0..Len(reply.v.a) /\ i + 2 = 2 * (n + 1) /\ i + 2 <= Len(reply.v.a)
  <1> DEFINE a == reply.v.a
             l == Len(a)
  <1>1. pc = "pairs" /\ Decoder[cmd] = d /\ i + 1 < l
    BY DEF AtPair
  <1>2. l \in Nat /\ l \div 2 \in Nat
    BY <1>1, LoopArray
  <1>3. PICK n \in 0..l : i = 2 * n /\ i <= l /\ Looped(d, a, acc, n)
    BY <1>1 DEF CommandsInv, Answered
  <1>4. First = a[i + 1] /\ Second = a[i + 2]
    BY DEF First, Second
  <1>5. Pairs(a) = 1..(l \div 2)
    BY DEF Pairs
  <1> HIDE DEF l, a
  <1>6. /\ n \in Nat /\ i + 1 = 2 * (n + 1) - 1 /\ i + 2 = 2 * (n + 1)
        /\ n + 1 \in 0..l /\ i + 2 <= l /\ n + 1 \in 1..(l \div 2)
    BY <1>1, <1>2, <1>3
  <1>7. QED
    BY <1>3, <1>4, <1>5, <1>6 DEF l, a

LEMMA AnsweredMapInsert ==
  ASSUME CommandsInv, MapInsert
  PROVE  Answered'
  <1> DEFINE a == reply.v.a
  <1>1. /\ AtPair("map") /\ IsText(First) /\ IsText(Second) /\ i' = i + 2
        /\ acc' = Insert(acc, First.s, Second.s)
        /\ UNCHANGED <<pc, cmd, wire, calls, reply, result>>
    BY DEF MapInsert
  <1>2. pc = "pairs" /\ Decoder[cmd] = "map" /\ "map" \in Looping
    BY <1>1 DEF AtPair, Looping
  <1>3. PICK n \in Nat :
          /\ Looped("map", a, acc, n)
          /\ First = a[2 * (n + 1) - 1] /\ Second = a[2 * (n + 1)]
          /\ n + 1 \in 0..Len(a) /\ i + 2 = 2 * (n + 1) /\ i + 2 <= Len(a)
    BY <1>1, <1>2, AtNextPair
  <1>4. Inserted(a, acc, n)
    BY <1>3 DEF Looped
  <1>5. Inserted(a, acc', n + 1)
    BY <1>1, <1>3, <1>4, InsertNext
  <1>6. Looped("map", a, acc', n + 1)
    BY <1>5 DEF Looped
  <1>7. QED
    BY <1>1, <1>2, <1>3, <1>6, AnsweredLoops

LEMMA AnsweredZPush ==
  ASSUME CommandsInv, ZPush
  PROVE  Answered'
  <1> DEFINE a == reply.v.a
  <1>1. /\ AtPair("z_vec") /\ i' = i + 2
        /\ acc' = Append(acc, <<First.s, Second.s>>)
        /\ UNCHANGED <<pc, cmd, wire, calls, reply, result>>
    BY DEF ZPush
  <1>2. pc = "pairs" /\ Decoder[cmd] = "z_vec" /\ "z_vec" \in Looping
    BY <1>1 DEF AtPair, Looping
  <1>3. ASSUME AllScored(a)
        PROVE  \E n \in 0..Len(a) : i' = 2 * n /\ i' <= Len(a) /\ Looped("z_vec", a, acc', n)
    <2>1. PICK n \in Nat :
            /\ Looped("z_vec", a, acc, n)
            /\ First = a[2 * (n + 1) - 1] /\ Second = a[2 * (n + 1)]
            /\ n + 1 \in 0..Len(a) /\ i + 2 = 2 * (n + 1) /\ i + 2 <= Len(a)
      BY <1>1, <1>2, <1>3, AtNextPair
    <2>2. acc = Scored(a, n)
      BY <1>3, <2>1 DEF Looped
    <2>3. acc' = Scored(a, n + 1)
      BY <1>1, <2>1, <2>2, ScoreNext
    <2>4. Looped("z_vec", a, acc', n + 1)
      BY <2>3 DEF Looped
    <2>5. QED
      BY <1>1, <2>1, <2>4
  <1>4. QED
    BY <1>1, <1>2, <1>3, AnsweredLoops

\* A pair without a score is met only where not all pairs have one.
LEMMA NotAllScored ==
  ASSUME CommandsInv, AtPair("z_vec"),
         ~(IsText(First) /\ IsText(Second) /\ IsNumber(Second.s))
  PROVE  ~AllScored(reply.v.a)
  <1> SUFFICES ASSUME AllScored(reply.v.a)
               PROVE  FALSE
    OBVIOUS
  <1>1. PICK n \in Nat :
          /\ n + 1 \in Pairs(reply.v.a)
          /\ First = reply.v.a[2 * (n + 1) - 1] /\ Second = reply.v.a[2 * (n + 1)]
    BY AtNextPair DEF Looping
  <1>2. QED
    BY <1>1 DEF AllScored, TextPairs

LEMMA AnsweredZInvalid ==
  ASSUME CommandsInv, ZInvalid
  PROVE  Answered'
  <1>1. /\ AtPair("z_vec") /\ ~IsNumber(Second.s) /\ pc' = "idle" /\ result' = Err
        /\ UNCHANGED <<cmd, wire, calls, reply>>
    BY DEF ZInvalid
  <1>2. pc = "pairs" /\ Decoder[cmd] = "z_vec" /\ ~AllScored(reply.v.a)
    BY <1>1, NotAllScored DEF AtPair
  <1>3. reply.v.k = "array" /\ Decoder[cmd] \in Looping
    BY <1>2, LoopArray DEF Looping
  <1>4. Made(Decoder[cmd], reply.v, result')
    BY <1>1, <1>2, <1>3 DEF Made, Err
  <1>5. QED
    BY <1>1, <1>2, <1>4, AnsweredEnds

LEMMA AnsweredZSkip ==
  ASSUME CommandsInv, ZSkip
  PROVE  Answered'
  <1>1. /\ AtPair("z_vec") /\ ~(IsText(First) /\ IsText(Second))
        /\ UNCHANGED <<pc, cmd, wire, calls, reply, result>>
    BY DEF ZSkip
  <1>2. pc = "pairs" /\ Decoder[cmd] = "z_vec" /\ ~AllScored(reply.v.a)
    BY <1>1, NotAllScored DEF AtPair
  <1>3. QED
    BY <1>1, <1>2, AnsweredLoops

LEMMA AnsweredFrame ==
  ASSUME CommandsInv, UNCHANGED vars
  PROVE  Answered'
  BY DEF CommandsInv, Answered, InStep, vars

LEMMA AnsweredDecodes ==
  ASSUME CommandsInv, DecodeStep
  PROVE  Answered'
  BY AnsweredLoopEnds, AnsweredMapInsert, AnsweredZPush, AnsweredZInvalid, AnsweredZSkip,
     AnsweredFrame DEF DecodeStep, MapContinue

LEMMA CommandsStep == CommandsInv /\ [ScriptNext]_allVars => CommandsInv'
  <1> SUFFICES ASSUME CommandsInv, [ScriptNext]_allVars
               PROVE  CommandsInv'
    OBVIOUS
  <1>1. ScriptInv'
    BY ScriptStep DEF CommandsInv
  <1>2. CASE \E c \in Methods : Call(c)
    BY <1>1, <1>2, AnsweredCall DEF CommandsInv
  <1>3. CASE RunFallback
    BY <1>1, <1>3, AnsweredFallback DEF CommandsInv
  <1>4. CASE Receive
    BY <1>1, <1>4, AnsweredReceive DEF CommandsInv
  <1>5. CASE Abandon
    BY <1>1, <1>5, AnsweredAbandon DEF CommandsInv
  <1>6. CASE DecodeStep
    BY <1>1, <1>6, AnsweredDecodes DEF CommandsInv
  <1>7. CASE UNCHANGED vars
    BY <1>1, <1>7, AnsweredFrame DEF CommandsInv
  <1>8. \/ \E c \in Methods : Call(c)
        \/ RunFallback
        \/ Receive
        \/ Abandon
        \/ DecodeStep
        \/ UNCHANGED vars
    BY MethodsAsked DEF ScriptNext, PlainCall, ScriptCall, RunCall, ScriptReceive, Flush,
       allVars, Asked
  <1>9. QED
    BY <1>1, <1>2, <1>3, <1>4, <1>5, <1>6, <1>7, <1>8

LEMMA CommandsStarts == ScriptInit => CommandsInv
  <1> SUFFICES ASSUME ScriptInit
               PROVE  CommandsInv
    OBVIOUS
  <1>1. pc = "idle" /\ cmd = "PING" /\ calls = 0 /\ reply = NoReply
    BY DEF ScriptInit, Init
  <1>2. reply.v = Nil /\ reply.id = 0
    BY <1>1 DEF NoReply
  <1>3. Answered
    BY <1>1, <1>2, NilForm, MethodsAsked DEF Answered, IsReply
  <1>4. QED
    BY <1>3, ScriptStarts DEF CommandsInv

\* The inductive invariant of what the methods make of replies: a reply in step
\* is one of those that the server gives to the command, a loop has decoded the
\* pairs before its index, and a result is what the method's decoder makes of
\* the reply, unless the call was abandoned.
THEOREM CommandsInvariant == ScriptSpec => []CommandsInv
  BY CommandsStarts, CommandsStep, PTL DEF ScriptSpec

\* Every method of client.rs and script.rs understands every answer of the
\* server to its command and loses nothing of it, for hashes, lists and sorted
\* sets of any length, and after any number of calls.
THEOREM RepliesDecodedInFull == ScriptSpec => []DecodedInFull
  <1>1. CommandsInv => DecodedInFull
    <2> SUFFICES ASSUME CommandsInv, pc = "idle", calls > 0, InStep
                 PROVE  Carries(result, reply.v)
      BY DEF DecodedInFull
    <2>1. cmd \in Methods /\ reply.v \in Replies(cmd)
      BY DEF CommandsInv, Answered
    <2>2. reply.id # 0
      BY DEF InStep, CommandsInv, ScriptInv, Queued
    <2>3. Made(Decoder[cmd], reply.v, result)
      BY <2>2 DEF CommandsInv, Answered
    <2>4. Suits(Decoder[cmd], reply.v)
      BY <2>1, RepliesForm
    <2>5. QED
      BY <2>1, <2>3, <2>4, InFull
  <1>2. QED
    BY <1>1, CommandsInvariant, PTL

\* On any reply, also one that was meant for another method, that a method of
\* client.rs returns a value for and the object of commands.rs parses, both
\* have the same value, for arrays of any length.
THEOREM EitherApiAgrees == ScriptSpec => []SameByEitherApi
  <1>1. CommandsInv => SameByEitherApi
    <2> DEFINE object == Wrapper(Decoder[cmd], reply.v)
    <2> SUFFICES ASSUME CommandsInv, pc = "idle", result.ok, result # None,
                        reply.id # 0, object.parsed.ok
                 PROVE  SameValue(result, object.result)
      BY DEF SameByEitherApi
    <2>1. cmd \in Methods /\ IsReply(reply.v)
      BY DEF CommandsInv, Answered
    <2>2. Made(Decoder[cmd], reply.v, result)
      BY DEF CommandsInv, Answered, Err
    <2>3. QED
      BY <2>1, <2>2, SameEither
  <1>2. QED
    BY <1>1, CommandsInvariant, PTL
=============================================================================
