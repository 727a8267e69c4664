------------------------------ MODULE RespWhole ------------------------------
(***************************************************************************)
(* What read_line and read_n of src/parser.rs promise to the rest of the   *)
(* parser: lines and bulk strings, whole, one after the other, as if the   *)
(* stream were there from the start.  What a line or a bulk string makes   *)
(* of the call is a parameter.                                             *)
(***************************************************************************)
EXTENDS Naturals, Sequences

CONSTANTS
  Jobs, MaxLine, LF, TooLong, Err,
  Start(_),             \* the call before it reads anything
  Stripped(_),          \* a line without its end
  ParseReply(_, _, _),  \* the calls that a line may make of a call
  BulkDone(_, _, _),    \* the call that a bulk string makes of it ...
  Deliver(_, _, _)      \* ... and the one that a result does

VARIABLES job, pos, call

vars == <<job, pos, call>>

\* The n bytes that come next.
Ahead(n) == SubSeq(job.bytes, pos + 1, pos + n)

\* None of the next n bytes ends a line.
NoEnd(n) == \A j \in (pos + 1)..(pos + n) : job.bytes[j] # LF

Init ==
  /\ job \in Jobs
  /\ pos = 0
  /\ call = Start(job)

TakeLine ==
  /\ call.pc = "line"
  /\ \E n \in 1..MaxLine :
       /\ pos + n <= Len(job.bytes)
       /\ job.bytes[pos + n] = LF
       /\ NoEnd(n - 1)
       /\ pos' = pos + n
       /\ call' \in ParseReply(job.fn, call.stack, Stripped(Ahead(n)))
  /\ UNCHANGED job

\* A line is too long.  How much of it has been consumed is not promised.
RefuseLine ==
  /\ call.pc = "line"
  /\ pos + MaxLine < Len(job.bytes)
  /\ NoEnd(MaxLine)
  /\ pos' \in pos..(pos + MaxLine)
  /\ call' = Deliver(job.fn, call.stack, TooLong)
  /\ UNCHANGED job

\* The stream ends before the line does, and its end counts as the line's.
TakeLastLine ==
  /\ call.pc = "line"
  /\ job.ends
  /\ \E n \in 0..MaxLine :
       /\ pos + n = Len(job.bytes)
       /\ NoEnd(n)
       /\ pos' = pos + n
       /\ call' \in IF n = 0 THEN {Deliver(job.fn, call.stack, Err)}
                    ELSE ParseReply(job.fn, call.stack, Ahead(n))
  /\ UNCHANGED job

TakeBulk ==
  /\ call.pc = "bulk"
  /\ pos + call.need <= Len(job.bytes)
  /\ pos' = pos + call.need
  /\ call' = BulkDone(job.fn, call.stack, Ahead(call.need))
  /\ UNCHANGED job

\* The stream ends before the bulk string does.
RefuseBulk ==
  /\ call.pc = "bulk"
  /\ job.ends
  /\ pos + call.need > Len(job.bytes)
  /\ pos' = Len(job.bytes)
  /\ call' = Deliver(job.fn, call.stack, Err)
  /\ UNCHANGED job

Next == TakeLine \/ RefuseLine \/ TakeLastLine \/ TakeBulk \/ RefuseBulk

Spec == Init /\ [][Next]_vars
=============================================================================
