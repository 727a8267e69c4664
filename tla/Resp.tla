--------------------------------- MODULE Resp ---------------------------------
(***************************************************************************)
(* src/parser.rs, byte by byte: one call of parse_reply, parse_scan_reply  *)
(* or one of the decoders that read array elements straight from the       *)
(* stream.                                                                 *)
(*                                                                         *)
(* The bytes of the stream arrive in chunks of any size.  A behaviour is   *)
(* one call: it steps whenever it finds bytes in its BufReader, up to its  *)
(* next await.  The nested calls of parse_reply and parse_slice_inner are  *)
(* a stack of frames.                                                      *)
(***************************************************************************)
EXTENDS TypedCmd

CONSTANTS
  Jobs,         \* the calls: function, bytes of the stream, what they stand for
  MaxLine,      \* MAX_LINE_LEN, scaled down
  BufCap,       \* capacity of the BufReader, scaled down
  I64Max,       \* largest i64 and ...
  UsizeMax,     \* ... usize, scaled down
  MaxCapacity   \* longest Vec that can be allocated

ASSUME SizesAssumption ==
  /\ {MaxLine, BufCap} \subseteq Nat \ {0}
  /\ {I64Max, UsizeMax, MaxCapacity} \subseteq Nat
  /\ MaxCapacity < I64Max /\ I64Max < UsizeMax

ASSUME JobsAssumption == \A j \in Jobs : j.bytes \in Seq(STRING)

VARIABLES
  job,     \* the call, and the stream it reads
  pos,     \* number of bytes consumed
  filled,  \* number of bytes that have reached the BufReader
  line,    \* read_line: the bytes of the line so far
  data,    \* read_n: the bytes read so far
  call     \* what is between the tokens of the stream:
           \*   stack: the calls that wait for an element, innermost last
           \*   pc: where the call is; "line" and "bulk" are await points
           \*   need: read_n's number of bytes
           \*   out: the Result

vars == <<job, pos, filled, line, data, call>>

CR == "cr"
LF == "lf"

\* Results that are neither a value nor a plain error.
Unfinished == [ok |-> FALSE, pending |-> TRUE]
NilErr     == [ok |-> FALSE, nil |-> TRUE]
TooLong    == [ok |-> FALSE, long |-> TRUE]
ErrText(s) == [ok |-> FALSE, s |-> s]

\* A byte that is not UTF-8 is replaced in a line.
Lossy(s) == [j \in DOMAIN s |-> IF s[j] = "bad" THEN "repl" ELSE s[j]]

\* The decoders that read the elements of an array from the stream; their
\* caller has read the header.
Streamers == {"strings", "bools", "map", "z"}

-----------------------------------------------------------------------------
(* Elements and the calls that wait for them                                 *)

Frame(fn, n) == [fn |-> fn, left |-> n, acc |-> <<>>, key |-> <<>>]

Paired(f) == f.fn \in {"map", "z"}

\* Seeded fault: a score need not be a number.
AcceptsAnyScore(f, v) ==
  CASE f.fn = "array"   -> TRUE
    [] f.fn = "strings" -> IsText(v)
    [] f.fn = "bools"   -> v.k = "int"
    [] Paired(f)        -> f.key = <<>> \/ (IsText(f.key[1]) /\ IsText(v))

\* The type a decoder expects; pairs are looked at when both parts are there.
Accepts(f, v) ==
  CASE f.fn = "array"   -> TRUE
    [] f.fn = "strings" -> IsText(v)
    [] f.fn = "bools"   -> v.k = "int"
    [] Paired(f)        -> f.key = <<>>
                             \/ /\ IsText(f.key[1]) /\ IsText(v)
                                /\ f.fn = "z" => IsNumber(v.s)

\* The frame once it has taken v.
Took(f, v) ==
  LET g == [f EXCEPT !.left = @ - 1]
  IN CASE f.fn = "array"   -> [g EXCEPT !.acc = Append(@, v)]
       [] f.fn = "strings" -> [g EXCEPT !.acc = Append(@, v.s)]
       [] f.fn = "bools"   -> [g EXCEPT !.acc = Append(@, v.n = 1)]
       [] Paired(f) /\ f.key = <<>> -> [g EXCEPT !.key = <<v>>]
       [] f.fn = "map" /\ f.key # <<>> ->
            [g EXCEPT !.key = <<>>, !.acc = (f.key[1].s :> v.s) @@ @]
       [] f.fn = "z" /\ f.key # <<>> ->
            [g EXCEPT !.key = <<>>, !.acc = Append(@, <<f.key[1].s, v.s>>)]

ResultType == [array |-> "value", strings |-> "strings", bools |-> "bools",
               map |-> "map", z |-> "z_vec"]

FrameResult(f) ==
  Ok(ResultType[f.fn], IF f.fn = "array" THEN Array(f.acc) ELSE f.acc)

\* Seeded fault: an error inside an array is taken for a nil.
ElementOfLenient(f, r) ==
  IF r.ok THEN <<r.v>> ELSE IF f.fn = "array" THEN <<Nil>> ELSE <<>>

\* The element a result is to the frame that waits for it, if it is one: nil
\* is a value inside an array, and an error to the other decoders.
ElementOf(f, r) ==
  IF r.ok THEN <<r.v>>
          ELSE IF r = NilErr /\ f.fn = "array" THEN <<Nil>> ELSE <<>>

\* What frame f, handed result r, hands on: nothing while it waits for more.
Handed(f, r) ==
  LET e == ElementOf(f, r)
  IN CASE e = <<>> -> r
       [] e # <<>> /\ ~Accepts(f, e[1]) -> Err
       [] e # <<>> /\ Accepts(f, e[1]) ->
            IF f.left = 1 THEN FrameResult(Took(f, e[1])) ELSE Unfinished

\* parse_reply returns r to the frames that wait, from the innermost on.
Return(st, r) ==
  LET passed[m \in 0..Len(st)] ==
        IF m = 0 THEN r ELSE Handed(st[Len(st) + 1 - m], passed[m - 1])
      waits == {m \in 1..Len(st) : passed[m] = Unfinished}
  IN IF waits = {} THEN [stack |-> <<>>, out |-> passed[Len(st)]]
     ELSE LET m == Min(waits)
              f == st[Len(st) + 1 - m]
          IN [stack |-> Append(SubSeq(st, 1, Len(st) - m),
                               Took(f, ElementOf(f, passed[m - 1])[1])),
              out   |-> Unfinished]

\* parse_scan_reply, after its parse_reply.
ScanReply(r) ==
  IF ~r.ok THEN r
  ELSE IF r.v.k = "array" /\ Len(r.v.a) >= 2
       THEN Ok("scan", <<CursorOf(r.v.a[1]), KeysOf(r.v.a[2])>>)
       ELSE Err

-----------------------------------------------------------------------------
(* What a line and a bulk string make of the call                            *)

Call(st, at, n, r) == [stack |-> st, pc |-> at, need |-> n, out |-> r]

Panic(st) == Call(st, "panic", 0, Unfinished)

\* A reply, or the part of one that was being read, is r.
Deliver(fn, st, r) ==
  LET ret == Return(st, r)
  IN IF ret.out = Unfinished THEN Call(ret.stack, "line", 0, Unfinished)
     ELSE Call(<<>>, "done", 0, IF fn = "scan" THEN ScanReply(ret.out) ELSE ret.out)

Start(j) ==
  LET n == IF j.fn \in {"map", "z"} THEN 2 * (Len(j.v.a) \div 2) ELSE Len(j.v.a)
  IN CASE j.fn \notin Streamers -> Call(<<>>, "line", 0, Unfinished)
       [] j.fn \in Streamers /\ n = 0 ->
            Call(<<>>, "done", 0, FrameResult(Frame(j.fn, 0)))
       [] j.fn \in Streamers /\ n # 0 ->
            Call(<<Frame(j.fn, n)>>, "line", 0, Unfinished)

\* Vec::with_capacity(n as usize), and the loop over the n elements.
OpenArray(fn, st, n) ==
  CASE n < 0 \/ n > MaxCapacity -> Panic(st)
    [] n = 0 -> Deliver(fn, st, Ok("value", Array(<<>>)))
    [] n \in 1..MaxCapacity ->
         Call(Append(st, Frame("array", n)), "line", 0, Unfinished)

\* Seeded fault: one byte too many is asked for.
BulkSizeOneMore(n) == (n + 3) % (UsizeMax + 1)

\* reply_len + 2 in a usize.
BulkSize(n) == (n + 2) % (UsizeMax + 1)

\* The sum wraps around, or panics where overflow is checked; then read_n
\* allocates its buffer.
OpenBulk(st, n) ==
  {Panic(st) : m \in {n} \ 0..(UsizeMax - 2)}
    \cup {IF BulkSize(n) > MaxCapacity THEN Panic(st)
          ELSE Call(st, "bulk", BulkSize(n), Unfinished)}

\* Seeded fault: *-1 is not looked for.
IsNilLineBulkOnly(l) == l = <<"$", "-", "1">>

IsNilLine(l) == l \in {<<"$", "-", "1">>, <<"*", "-", "1">>}

IsI64(s)   == IsNumber(s) /\ NumberOf(s) \in (-I64Max - 1)..I64Max
IsUsize(s) == IsNumber(s) /\ Head(s) # "-" /\ NumberOf(s) <= UsizeMax

\* parse_reply once read_line has returned l.
ParseReply(fn, st, l) ==
  LET s == Tail(l)
      Result(r) == {Deliver(fn, st, r)}
  IN CASE l = <<>> -> Result(Err)
       [] l # <<>> /\ l[1] = "-" -> Result(ErrText(Lossy(s)))
       [] l # <<>> /\ l[1] = "+" -> Result(Ok("value", Status(Lossy(s))))
       [] l # <<>> /\ l[1] = ":" ->
            Result(IF IsI64(s) THEN Ok("value", Num(NumberOf(s))) ELSE Err)
       [] l # <<>> /\ l[1] = "$" ->
            IF IsNilLine(l) THEN Result(NilErr)
            ELSE IF IsUsize(s) THEN OpenBulk(st, NumberOf(s)) ELSE Result(Err)
       [] l # <<>> /\ l[1] = "*" ->
            IF IsNilLine(l) THEN Result(NilErr)
            ELSE IF IsI64(s) THEN {OpenArray(fn, st, NumberOf(s))} ELSE Result(Err)
       [] l # <<>> /\ l[1] \notin {"-", "+", ":", "$", "*"} -> Result(Err)

Stripped(l) ==
  IF Len(l) >= 2 /\ l[Len(l) - 1] = CR THEN SubSeq(l, 1, Len(l) - 2)
                                       ELSE SubSeq(l, 1, Len(l) - 1)

\* A bulk string is complete: its last two bytes are dropped unseen, unless
\* the sum was wrapped.
BulkDone(fn, st, d) ==
  LET s == SubSeq(d, 1, IF Len(d) < 2 THEN Len(d) ELSE Len(d) - 2)
  IN Deliver(fn, st, IF "bad" \in Range(s) THEN Err ELSE Ok("value", Bulk(s)))

-----------------------------------------------------------------------------
(* One call                                                                  *)

Init ==
  /\ job \in Jobs
  /\ pos = 0
  /\ filled = 0
  /\ line = <<>>
  /\ data = <<>>
  /\ call = Start(job)

Buffered == SubSeq(job.bytes, pos + 1, filled)

AtEof == job.ends /\ filled = Len(job.bytes)

\* fill_buf: with nothing buffered, wait for some bytes.
FillBuf ==
  /\ call.pc \in {"line", "bulk"}
  /\ filled = pos
  /\ \E n \in 1..BufCap :
       /\ filled + n <= Len(job.bytes)
       /\ filled' = filled + n
  /\ UNCHANGED <<job, pos, line, data, call>>

\* A line or a bulk string has been read, and the call goes on.
Continue(calls) ==
  /\ call' \in calls
  /\ line' = <<>>
  /\ data' = <<>>

\* Seeded fault: read_line takes all there is.
ScannedAll == Buffered

\* What read_line looks at: up to a line feed, or all there is.
Scanned ==
  LET n == SelectInSeq(Buffered, LAMBDA b : b = LF)
  IN IF n = 0 THEN Buffered ELSE SubSeq(Buffered, 1, n)

\* Seeded fault: the limit is tested against the bytes at hand only.
ExceedsLimitChunkwise(l, s) == Len(s) > MaxLine

ExceedsLimit(l, s) == Len(l) + Len(s) > MaxLine

\* read_line finds bytes.  A line that gets too long is given up before
\* anything of this chunk is consumed.
ReadLine ==
  /\ call.pc = "line"
  /\ filled > pos
  /\ \E s \in {Scanned} :
       IF ExceedsLimit(line, s)
       THEN /\ Continue({Deliver(job.fn, call.stack, TooLong)})
            /\ UNCHANGED pos
       ELSE /\ pos' = pos + Len(s)
            /\ IF s[Len(s)] = LF
               THEN \E l \in {Stripped(line \o s)} :
                      Continue(ParseReply(job.fn, call.stack, l))
               ELSE /\ line' = line \o s
                    /\ UNCHANGED <<data, call>>
  /\ UNCHANGED <<job, filled>>

\* read_line finds the end of the stream, and takes what it has for a line.
ReadLineEof ==
  /\ call.pc = "line"
  /\ filled = pos
  /\ AtEof
  /\ Continue(IF line = <<>> THEN {Deliver(job.fn, call.stack, Err)}
                             ELSE ParseReply(job.fn, call.stack, line))
  /\ UNCHANGED <<job, pos, filled>>

\* read_n finds bytes, or needs none.
ReadN ==
  LET m   == IF call.need - Len(data) < filled - pos
             THEN call.need - Len(data) ELSE filled - pos
      got == data \o SubSeq(Buffered, 1, m)
  IN /\ call.pc = "bulk"
     /\ filled > pos \/ call.need = 0
     /\ pos' = pos + m
     /\ IF Len(got) = call.need
        THEN Continue({BulkDone(job.fn, call.stack, got)})
        ELSE /\ data' = got
             /\ UNCHANGED <<line, call>>
     /\ UNCHANGED <<job, filled>>

\* Seeded fault: the end of the stream ends the loop.
ReadNEofTakesRest ==
  /\ call.pc = "bulk"
  /\ filled = pos
  /\ AtEof
  /\ call.need > 0
  /\ Continue({Deliver(job.fn, call.stack, Ok("value", Bulk(data)))})
  /\ UNCHANGED <<job, pos, filled>>

ReadNEof ==
  /\ call.pc = "bulk"
  /\ filled = pos
  /\ AtEof
  /\ call.need > 0
  /\ Continue({Deliver(job.fn, call.stack, Err)})
  /\ UNCHANGED <<job, pos, filled>>

Next == FillBuf \/ ReadLine \/ ReadLineEof \/ ReadN \/ ReadNEof

\* The stream's bytes arrive, and the runtime polls the call.
Spec == Init /\ [][Next]_vars /\ WF_vars(Next)

-----------------------------------------------------------------------------
(* Properties of every stream                                                *)

out  == call.out
Done == call.pc = "done"

\* read_line never holds more than MAX_LINE_LEN bytes, over any number of
\* chunks, and when it gives a line up it leaves bytes in the BufReader, so that
\* PoolGuard::drop closes the connection.
LineBounded ==
  /\ Len(line) <= MaxLine
  /\ out = TooLong => filled > pos

\* Where the line or the bulk string that is being read begins.
Boundary == pos - Len(line) - Len(data)

Whole == INSTANCE RespWhole WITH pos <- Boundary

\* However the bytes are cut into chunks, the parser does what one does that
\* takes lines and bulk strings off the stream in one piece: what it returns,
\* which lines it refuses as longer than MAX_LINE_LEN, and how much it consumes
\* of all others, depend on the bytes alone.
ReadsWhole == Whole!Spec

\* The call returns: once the bytes of a reply have arrived, nothing makes it
\* wait for more.
ParseEnds == <>(call.pc \in {"done", "panic"})
=============================================================================
