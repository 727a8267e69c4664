-------------------------------- MODULE Client --------------------------------
(***************************************************************************)
(* Requests and replies over pooled connections: Client::process_cmd,      *)
(* Pipeline::execute, Multi::exec and Connection::{write_all, parse_reply} *)
(* on top of the pool as PoolContract specifies it.                        *)
(*                                                                         *)
(* A reply is a sequence of units that the parser consumes one by one: a   *)
(* scalar, or the header of an array followed by its elements.  A unit is  *)
(* tagged with the operation it answers, so that a reply that reaches the  *)
(* wrong caller can be told from the right one.                            *)
(***************************************************************************)
EXTENDS Naturals, Sequences, FiniteSets

CONSTANTS
  Tasks, Conns, NoConn, PoolSize,
  Ops,         \* the kinds of operation the tasks use
  MaxBatch,    \* bound: commands in a pipeline or transaction
  MaxOps,      \* bound: operations issued in all
  MayAbandon,  \* timeouts are set, or callers drop futures
  MayBreak     \* servers and networks may close connections

ASSUME OpsAssumption == Ops \subseteq {"cmd", "eval", "pipeline", "multi"}

ASSUME BoundsAssumption == MaxBatch \in Nat /\ MaxOps \in Nat /\ PoolSize \in Nat

ASSUME NoConnAssumption == NoConn \notin Conns

VARIABLES
  closed, idle, returning, lent, removed,  \* the pool
  wire,    \* wire[c]: units the server has sent or will send, still unread
  rdbuf,   \* rdbuf[c]: units in the BufReader of c
  broken,  \* connections the other end has closed
  torn,    \* connections on which a request stops in the middle
  cmds,    \* cmds[t]: commands queued in the Pipeline or Multi of task t
  pc,      \* pc[t]: the await point of task t
  op,      \* op[t]: its current or last operation
  left,    \* left[t]: replies it has still to read
  open,    \* open[t]: array elements the parser has still to read
  got,     \* got[t]: tags of the units it has read
  sent,    \* sent[t]: number of units the server answered it with
  result,  \* result[t]: how its last operation ended
  issued   \* number of operations issued

poolVars == <<closed, idle, returning, lent, removed>>
connVars == <<wire, rdbuf, broken, torn>>
taskVars == <<cmds, pc, op, left, open, got, sent, result, issued>>
vars == <<poolVars, connVars, taskVars>>

Pool == INSTANCE PoolContract

Kinds   == {"val", "nil", "err", "arr", "cut"}
Units   == [op : 0..MaxOps, i : Nat, k : Kinds, n : 0..MaxBatch]
Results == {"none", "ok", "reply_err", "abandoned", "io", "no_conn"}
NoOp    == [kind |-> "none", n |-> 0, id |-> 0]

TypeOK ==
  /\ lent \in [Tasks -> Conns \cup {NoConn}]
  /\ wire \in [Conns -> Seq(Units)]
  /\ rdbuf \in [Conns -> Seq(Units)]
  /\ broken \subseteq Conns
  /\ torn \subseteq Conns
  /\ cmds \in [Tasks -> 0..MaxBatch]
  /\ pc \in [Tasks -> {"rest", "get", "write", "read"}]
  /\ op \in [Tasks -> {NoOp} \cup [kind : Ops, n : 0..MaxBatch \cup {1},
                                   id : 1..MaxOps]]
  /\ left \in [Tasks -> Nat]
  /\ open \in [Tasks -> 0..MaxBatch]
  /\ got \in [Tasks -> Seq((0..MaxOps) \X Nat)]
  /\ sent \in [Tasks -> Nat]
  /\ result \in [Tasks -> Results]
  /\ issued \in 0..MaxOps

Init ==
  /\ Pool!Init
  /\ wire = [c \in Conns |-> <<>>]
  /\ rdbuf = [c \in Conns |-> <<>>]
  /\ broken = {}
  /\ torn = {}
  /\ cmds = [t \in Tasks |-> 0]
  /\ pc = [t \in Tasks |-> "rest"]
  /\ op = [t \in Tasks |-> NoOp]
  /\ left = [t \in Tasks |-> 0]
  /\ open = [t \in Tasks |-> 0]
  /\ got = [t \in Tasks |-> <<>>]
  /\ sent = [t \in Tasks |-> 0]
  /\ result = [t \in Tasks |-> "none"]
  /\ issued = 0

-----------------------------------------------------------------------------
(* The server: what it may answer.  A reply is first a sequence of shapes.   *)

Shape(kind)     == [k |-> kind, n |-> 0]
Scalars(K, n)   == {[j \in 1..n |-> Shape(f[j])] : f \in [1..n -> K]}
ArraysOf(K, n)  == {<<[k |-> "arr", n |-> n]>> \o e : e \in Scalars(K, n)}

CmdAnswers == Scalars({"val", "nil", "err"}, 1)
                \cup UNION {ArraysOf({"val", "nil"}, n) : n \in 0..MaxBatch}

\* A script may put an error inside an array.
EvalAnswers == CmdAnswers
                 \cup UNION {ArraysOf({"val", "err"}, n) : n \in 0..MaxBatch}

PipelineAnswers(n) == Scalars({"val", "nil", "err"}, n)

\* +OK, a QUEUED or an error per command, then EXEC: an array with a result or
\* an error per command, nil, or EXECABORT if a command was refused.
MultiAnswers(n) ==
  LET queued  == Scalars({"val"}, n)
      refused == Scalars({"val", "err"}, n) \ queued
      exec    == ArraysOf({"val", "nil", "err"}, n) \cup Scalars({"nil"}, 1)
      abort   == Scalars({"err"}, 1)
  IN  {<<Shape("val")>> \o q \o e : q \in queued, e \in exec}
        \cup {<<Shape("val")>> \o q \o e : q \in refused, e \in abort}

Answers(o) ==
  CASE o.kind = "cmd"      -> CmdAnswers
    [] o.kind = "eval"     -> EvalAnswers
    [] o.kind = "pipeline" -> PipelineAnswers(o.n)
    [] o.kind = "multi"    -> MultiAnswers(o.n)

Tagged(id, shapes) ==
  [j \in 1..Len(shapes) |->
     [op |-> id, i |-> j, k |-> shapes[j].k, n |-> shapes[j].n]]

\* What still arrives of a stream that is cut: some first units, and perhaps
\* the beginning of the line of the next one.
CutOff(s) ==
  {SubSeq(s, 1, n) : n \in 0..Len(s)}
    \cup {Append(SubSeq(s, 1, n - 1), [s[n] EXCEPT !.k = "cut"]) :
            n \in {m \in 1..Len(s) : s[m].k = "val"}}

Break(c) ==
  /\ MayBreak
  /\ c \in Pool!InUse \ broken
  /\ broken' = broken \cup {c}
  /\ \E rest \in CutOff(wire[c]) : wire' = [wire EXCEPT ![c] = rest]
  /\ UNCHANGED <<poolVars, rdbuf, torn, taskVars>>

\* What a server makes of a request behind the torso of an earlier one: the
\* new bytes complete the old request, or make no sense, or are waited for
\* together with more; the answer, if any, is to no operation.
TornAnswers == {<<>>} \cup Scalars({"val", "err"}, 1)

-----------------------------------------------------------------------------
(* Pooled connections                                                        *)

\* Dropping connections closes their sockets.
CloseSockets(C) ==
  /\ wire' = [c \in Conns |-> IF c \in C THEN <<>> ELSE wire[c]]
  /\ rdbuf' = [c \in Conns |-> IF c \in C THEN <<>> ELSE rdbuf[c]]
  /\ broken' = broken \ C
  /\ torn' = torn \ C

Settle(c) ==
  /\ Pool!Settle(c)
  /\ UNCHANGED <<connVars, taskVars>>

Reap(c) ==
  /\ Pool!DropReturning(c) \/ Pool!Evict(c)
  /\ CloseSockets({c})
  /\ UNCHANGED taskVars

\* Client::close, in its two halves.
CloseBegins ==
  /\ Pool!SetClosed
  /\ UNCHANGED <<connVars, taskVars>>

CloseEnds ==
  /\ Pool!ClearIdle
  /\ CloseSockets(idle)
  /\ UNCHANGED taskVars

-----------------------------------------------------------------------------
(* Operations                                                                *)

\* Pipeline::cmd, Multi::cmd.
Queue(t) ==
  /\ pc[t] = "rest"
  /\ Ops \cap {"pipeline", "multi"} # {}
  /\ cmds[t] < MaxBatch
  /\ cmds' = [cmds EXCEPT ![t] = @ + 1]
  /\ UNCHANGED <<poolVars, connVars, pc, op, left, open, got, sent, result,
                 issued>>

\* Pipeline::clear, Multi::discard.
Clear(t) ==
  /\ pc[t] = "rest"
  /\ cmds[t] > 0
  /\ cmds' = [cmds EXCEPT ![t] = 0]
  /\ UNCHANGED <<poolVars, connVars, pc, op, left, open, got, sent, result,
                 issued>>

\* The operation begins: a batch is taken out of its queue, and an empty one
\* ends at once without a connection.
Start(t, kind) ==
  LET n == IF kind \in {"cmd", "eval"} THEN 1 ELSE cmds[t]
  IN /\ pc[t] = "rest"
     /\ issued < MaxOps
     /\ issued' = issued + 1
     /\ op' = [op EXCEPT ![t] = [kind |-> kind, n |-> n, id |-> issued + 1]]
     /\ cmds' = IF kind \in {"cmd", "eval"} THEN cmds
                                            ELSE [cmds EXCEPT ![t] = 0]
     /\ pc' = [pc EXCEPT ![t] = IF n = 0 THEN "rest" ELSE "get"]
     /\ result' = [result EXCEPT ![t] = IF n = 0 THEN "ok" ELSE "none"]
     /\ left' = [left EXCEPT ![t] = 0]
     /\ open' = [open EXCEPT ![t] = 0]
     /\ got' = [got EXCEPT ![t] = <<>>]
     /\ sent' = [sent EXCEPT ![t] = 0]
     /\ UNCHANGED <<poolVars, connVars>>

\* pool.get().await? returns a guard ...
Acquire(t, c) ==
  /\ pc[t] = "get"
  /\ Pool!Reuse(t, c) \/ Pool!Connect(t, c)
  /\ pc' = [pc EXCEPT ![t] = "write"]
  /\ UNCHANGED <<connVars, cmds, op, left, open, got, sent, result, issued>>

\* ... or an error: closed, no connection, or the future is dropped.
AcquireErr(t) ==
  /\ pc[t] = "get"
  /\ pc' = [pc EXCEPT ![t] = "rest"]
  /\ result' = [result EXCEPT ![t] = "no_conn"]
  /\ UNCHANGED <<poolVars, connVars, cmds, op, left, open, got, sent, issued>>

\* Seeded fault: a transaction waits for one reply too many.
RepliesOfOneMore(o) == IF o.kind = "multi" THEN o.n + 3 ELSE o.n

\* The replies an operation reads: one per command, and for a transaction
\* those of MULTI and EXEC too.
RepliesOf(o) == IF o.kind = "multi" THEN o.n + 2 ELSE o.n

\* conn.write_all(&buf): all requests in one buffer.  Into a broken connection
\* they go without an answer; a torn one the server may close.
Write(t) ==
  LET c == lent[t]
  IN /\ pc[t] = "write"
     /\ pc' = [pc EXCEPT ![t] = "read"]
     /\ left' = [left EXCEPT ![t] = RepliesOf(op[t])]
     /\ \/ /\ c \in broken
           /\ UNCHANGED <<wire, sent, broken>>
        \/ /\ c \in torn \ broken
           /\ \E a \in TornAnswers :
                wire' = [wire EXCEPT ![c] = @ \o Tagged(0, a)]
           /\ broken' \in {broken, broken \cup {c}}
           /\ UNCHANGED sent
        \/ /\ c \notin broken \cup torn
           /\ \E a \in Answers(op[t]) :
                /\ wire' = [wire EXCEPT ![c] = @ \o Tagged(op[t].id, a)]
                /\ sent' = [sent EXCEPT ![t] = Len(a)]
           /\ UNCHANGED broken
     /\ UNCHANGED <<poolVars, rdbuf, torn, cmds, op, open, got, result,
                    issued>>

\* Seeded fault: drop() does not look at the BufReader.
KeepsConnAlways(buf) == TRUE

\* The test of PoolGuard::drop on what is left in the BufReader.
KeepsConn(buf) == buf = <<>>

\* The operation returns with buf left in its BufReader, and drops its guard.
Finish(t, res, buf) ==
  /\ pc' = [pc EXCEPT ![t] = "rest"]
  /\ result' = [result EXCEPT ![t] = res]
  /\ IF KeepsConn(buf)
     THEN /\ Pool!GiveBack(t)
          /\ rdbuf' = [rdbuf EXCEPT ![lent[t]] = buf]
          /\ UNCHANGED <<wire, broken, torn>>
     ELSE /\ Pool!Discard(t)
          /\ CloseSockets({lent[t]})

\* write_all fails: the other end is gone.
WriteErr(t) ==
  /\ pc[t] = "write"
  /\ lent[t] \in broken
  /\ Finish(t, "io", rdbuf[lent[t]])
  /\ UNCHANGED <<cmds, op, left, open, got, sent, issued>>

\* write_timeout elapses, or the caller drops the future, when some commands
\* and perhaps a part of the next one are written.  The BufReader is empty
\* (LentEmpty), so the connection goes back to the pool.
AbandonWrite(t) ==
  LET c == lent[t]
  IN /\ MayAbandon
     /\ pc[t] = "write"
     /\ IF c \in broken \cup torn
        THEN /\ Finish(t, "abandoned", rdbuf[c])
             /\ UNCHANGED sent
        ELSE /\ pc' = [pc EXCEPT ![t] = "rest"]
             /\ result' = [result EXCEPT ![t] = "abandoned"]
             /\ Pool!GiveBack(t)
             /\ \E k \in 0..(RepliesOf(op[t]) - 1), a \in Answers(op[t]) :
                  /\ wire' = [wire EXCEPT ![c] =
                                @ \o Tagged(op[t].id, SubSeq(a, 1, k))]
                  /\ sent' = [sent EXCEPT ![t] = k]
             /\ torn' \in {torn, torn \cup {c}}
             /\ UNCHANGED <<rdbuf, broken>>
     /\ UNCHANGED <<cmds, op, left, open, got, issued>>

\* BufReader::fill_buf: with nothing buffered, take what has arrived.
Fill(t) ==
  LET c == lent[t]
  IN /\ pc[t] = "read"
     /\ rdbuf[c] = <<>>
     /\ \E n \in 1..Len(wire[c]) :
          /\ rdbuf' = [rdbuf EXCEPT ![c] = SubSeq(wire[c], 1, n)]
          /\ wire' = [wire EXCEPT ![c] = SubSeq(wire[c], n + 1, Len(wire[c]))]
     /\ UNCHANGED <<poolVars, broken, torn, taskVars>>

\* Seeded fault: a nil inside an array is not turned into a value.
FailsOpOnNil(t, u) == u.k \in {"err", "nil"}

\* An error reply ends the operation, even inside an array; a nil does so only
\* outside one.
FailsOp(t, u) == u.k = "err" \/ (u.k = "nil" /\ open[t] = 0)

\* Seeded fault: the loop over an array's elements stops one early.
EndsReplyEarly(t, u) ==
  IF u.k = "arr" THEN u.n = 0 ELSE open[t] \in {0, 1, 2}

EndsReply(t, u) ==
  IF u.k = "arr" THEN u.n = 0 ELSE open[t] \in {0, 1}

\* Seeded fault: a scalar outside an array counts as an element.
ElementsLeftUnchecked(t, u) == IF u.k = "arr" THEN u.n ELSE open[t] - 1

ElementsLeft(t, u) ==
  IF u.k = "arr" THEN u.n ELSE IF open[t] = 0 THEN 0 ELSE open[t] - 1

\* EXEC must be answered by an array that is not empty; MULTI and the queued
\* commands by anything that is not an error.
ExecAccepts(t, u) == op[t].kind = "multi" => u.k # "arr" /\ open[t] = 1

\* One unit of a reply is parsed.  A line that the end of the stream cut short
\* passes for a whole one.
Parse(t) ==
  LET c    == lent[t]
      u    == Head(rdbuf[c])
      last == EndsReply(t, u) /\ left[t] = 1
  IN /\ pc[t] = "read"
     /\ rdbuf[c] # <<>>
     /\ got' = [got EXCEPT ![t] = Append(@, <<u.op, u.i>>)]
     /\ open' = [open EXCEPT ![t] = ElementsLeft(t, u)]
     /\ left' = [left EXCEPT ![t] = IF EndsReply(t, u) THEN @ - 1 ELSE @]
     /\ IF FailsOp(t, u) \/ last
        THEN Finish(t,
                    IF FailsOp(t, u) \/ ~ExecAccepts(t, u) THEN "reply_err"
                                                           ELSE "ok",
                    Tail(rdbuf[c]))
        ELSE /\ rdbuf' = [rdbuf EXCEPT ![c] = Tail(@)]
             /\ UNCHANGED <<poolVars, wire, broken, torn, pc, result>>
     /\ UNCHANGED <<cmds, op, sent, issued>>

\* fill_buf finds the end of the stream: "unexpected EOF".
ReadEof(t) ==
  LET c == lent[t]
  IN /\ pc[t] = "read"
     /\ c \in broken
     /\ rdbuf[c] = <<>>
     /\ wire[c] = <<>>
     /\ Finish(t, "io", rdbuf[c])
     /\ UNCHANGED <<cmds, op, left, open, got, sent, issued>>

\* read_timeout elapses, or the caller drops the future, while fill_buf waits.
AbandonRead(t) ==
  /\ MayAbandon
  /\ pc[t] = "read"
  /\ rdbuf[lent[t]] = <<>>
  /\ Finish(t, "abandoned", rdbuf[lent[t]])
  /\ UNCHANGED <<cmds, op, left, open, got, sent, issued>>

-----------------------------------------------------------------------------
ReadStep(t) == Fill(t) \/ Parse(t) \/ ReadEof(t)

Next ==
  \/ \E t \in Tasks :
       \/ Queue(t) \/ Clear(t)
       \/ \E kind \in Ops : Start(t, kind)
       \/ \E c \in Conns : Acquire(t, c)
       \/ AcquireErr(t)
       \/ Write(t) \/ WriteErr(t) \/ AbandonWrite(t)
       \/ ReadStep(t) \/ AbandonRead(t)
  \/ \E c \in Conns : Settle(c) \/ Reap(c) \/ Break(c)
  \/ CloseBegins
  \/ CloseEnds

Spec == Init /\ [][Next]_vars

\* The runtime polls ready tasks, and the server answers what it is sent.
Fairness ==
  \A t \in Tasks : WF_vars(Write(t) \/ WriteErr(t)) /\ WF_vars(ReadStep(t))

FairSpec == Spec /\ Fairness
-----------------------------------------------------------------------------
(* Properties                                                                *)

\* What operation t has read of its own answer, from the first unit on.
InStepSoFar(t) == \A j \in DOMAIN got[t] : got[t][j] = <<op[t].id, j>>

\* No caller ever reads a reply to somebody else's request, over reused,
\* evicted and broken connections, concurrent callers and a closing pool.
\* It holds for single commands that nobody abandons.
OwnReplies == \A t \in Tasks : InStepSoFar(t)

\* "Connections are returned to the pool on drop unless they have unread data":
\* when a connection is idle, no reply is on its way to it.
IdleQuiet == \A c \in idle : wire[c] = <<>>

\* With timeouts, aborted pipelines and failed transactions too: an operation
\* that starts in step stays in step, and when it succeeds it has read exactly
\* its own answer, to the last unit.
InStep ==
  \A t \in Tasks :
    (got[t] # <<>> /\ Head(got[t]) = <<op[t].id, 1>>) =>
      /\ InStepSoFar(t)
      /\ result[t] = "ok" => Len(got[t]) = sent[t]

\* A connection is handed out with an empty BufReader, whatever ended the
\* operation before.
LentEmpty == \A t \in Tasks : pc[t] = "write" => rdbuf[lent[t]] = <<>>

\* No operation waits for a reply that never comes: even on a connection that
\* an earlier operation left out of step, an operation finds as many replies
\* as it reads.  The exception is a connection on which a write timeout left
\* half a request: it goes back to the pool too, and the server may wait for
\* the other half while the next caller waits for the server.
OpEnds ==
  \A t \in Tasks :
    (pc[t] \in {"write", "read"} /\ lent[t] \notin torn) ~> (pc[t] = "rest")
=============================================================================
