------------------------------ MODULE RespReplies ------------------------------
(***************************************************************************)
(* What the parser of Resp makes of the replies that a server sends and of *)
(* the requests that append_args writes.                                   *)
(***************************************************************************)
EXTENDS Resp

CRLF == <<CR, LF>>

-----------------------------------------------------------------------------
(* Writing: append_args                                                      *)

\* itoa's text of a number.
DecimalOf[n \in Nat] ==
  IF n < 10 THEN <<Digits[n + 1]>>
            ELSE Append(DecimalOf[n \div 10], Digits[(n % 10) + 1])

\* Seeded fault: no early return for 0.
DecimalLenNoZero(n) ==
  LET len[m \in Nat] == IF m = 0 THEN 0 ELSE 1 + len[m \div 10]
  IN len[n]

DecimalLen(n) ==
  LET len[m \in Nat] == IF m = 0 THEN 0 ELSE 1 + len[m \div 10]
  IN IF n = 0 THEN 1 ELSE len[n]

AppendArgs(args) ==
  <<"*">> \o DecimalOf[Len(args)] \o CRLF
    \o FlattenSeq([j \in DOMAIN args |->
         <<"$">> \o DecimalOf[Len(args[j])] \o CRLF \o args[j] \o CRLF])

EstimateRespSize(args) ==
  FoldLeft(LAMBDA n, s : n + 1 + DecimalLen(Len(s)) + 2 + Len(s) + 2,
           4 + DecimalLen(Len(args)), args)

-----------------------------------------------------------------------------
(* The server's side of the protocol                                         *)

NilArray == [k |-> "nil_array"]

SignedOf(n) == IF n < 0 THEN <<"-">> \o DecimalOf[-n] ELSE DecimalOf[n]

\* A reply comes as parts: an array's header and then its elements' parts.
RECURSIVE Parts(_)
Parts(v) ==
  IF v.k = "array"
  THEN <<v>> \o FlattenSeq([j \in DOMAIN v.a |-> Parts(v.a[j])])
  ELSE <<v>>

BytesOf(v) ==
  CASE v.k = "status"    -> <<"+">> \o v.s \o CRLF
    [] v.k = "error"     -> <<"-">> \o v.s \o CRLF
    [] v.k = "int"       -> <<":">> \o SignedOf(v.n) \o CRLF
    [] v.k = "nil"       -> <<"$", "-", "1">> \o CRLF
    [] v.k = "nil_array" -> <<"*", "-", "1">> \o CRLF
    [] v.k = "bulk"      -> <<"$">> \o DecimalOf[Len(v.s)] \o CRLF \o v.s \o CRLF
    [] v.k = "array"     -> <<"*">> \o DecimalOf[Len(v.a)] \o CRLF

EncodeParts(p) == FlattenSeq([j \in DOMAIN p |-> BytesOf(p[j])])
Encode(v)      == EncodeParts(Parts(v))

\* What a reply stands for.
RECURSIVE Received(_)
Received(v) ==
  CASE v.k = "array"     -> Array([j \in DOMAIN v.a |-> Received(v.a[j])])
    [] v.k = "nil_array" -> Nil
    [] v.k = "status"    -> Status(Lossy(v.s))
    [] v.k \notin {"array", "nil_array", "status"} -> v

\* A reply that may follow on the same stream.
Follower == Encode(Status(<<"x">>))

-----------------------------------------------------------------------------
(* Properties                                                                *)

\* What nobody has consumed: the bytes the next reader starts with.
Rest == SubSeq(job.bytes, pos + 1, Len(job.bytes))

\* The first part of the reply that makes parse_reply fail, or 0.
Breaks(v) == v.k = "error" \/ (v.k = "bulk" /\ "bad" \in Range(v.s))

FirstBreak(p) ==
  IF \E j \in DOMAIN p : Breaks(p[j])
  THEN Min({j \in DOMAIN p : Breaks(p[j])}) ELSE 0

AfterReply(v) ==
  LET n == FirstBreak(Parts(v))
  IN IF n = 0 THEN <<>> ELSE EncodeParts(SubSeq(Parts(v), n + 1, Len(Parts(v))))

\* However the bytes of a reply are cut into chunks, parse_reply returns what
\* the server sent, and it consumes the reply to its last byte and not a byte
\* of the next one.  A reply with an error inside fails, and then the bytes
\* after the error are left on the stream.  parse_scan_reply consumes the
\* same and agrees with ScanCmd.
ParsedExactly ==
  (Done /\ job.kind = "whole") =>
    LET v == job.v
        next == SubSeq(job.bytes, Len(Encode(v)) + 1, Len(job.bytes))
    IN /\ Rest = AfterReply(v) \o next
       /\ out.ok => FirstBreak(Parts(v)) = 0
       /\ (FirstBreak(Parts(v)) = 0 /\ Received(v) # Nil) =>
            out = IF job.fn = "scan" THEN ScanCmd(Received(v)).parsed
                                     ELSE Ok("value", Received(v))
       /\ Received(v) = Nil => out = NilErr
       /\ v.k = "error" => out = ErrText(Lossy(v.s))

\* A connection that ends inside a reply gives an error, never a value: with
\* the one exception that read_line takes the end of the stream for the end of
\* a line, so that a reply whose last line is cut may pass for a whole one.
CutRefused ==
  (Done /\ job.kind = "cut" /\ out.ok) =>
    LET last == Last(Parts(job.v))
    IN /\ last.k # "bulk"
       /\ Len(Encode(job.v)) - Len(job.bytes) < Len(BytesOf(last))

\* No reply a server sends makes the parser panic, and no beginning of one: it
\* panics only for a negative or huge length.  Other malformed lines give an
\* error; of all streams only a bulk length whose sum with 2 wraps around makes
\* a value out of nothing.
PanicsOnHugeLengths ==
  /\ call.pc = "panic" => job.kind \in {"huge", "wrap"}
  /\ (Done /\ job.kind \in {"bad", "huge"}) => ~out.ok

\* What append_args writes is read back as the same arguments, and fits in the
\* buffer that estimate_resp_size asks for.
RequestsWhole ==
  job.kind = "request" =>
    /\ Len(job.bytes) <= EstimateRespSize(job.args)
    /\ Done => out = Ok("value", job.v) /\ Rest = <<>>

CmdFor(fn, v) ==
  CASE fn = "strings" -> StringSliceCmd(v)
    [] fn = "bools"   -> BoolSliceCmd(v)
    [] fn = "map"     -> StringMapCmd(v)
    [] fn = "z"       -> ZSliceCmd(v)

\* The decoders that read elements from the stream and the typed commands that
\* read a parsed array agree: the same arrays are accepted, with the same
\* value, and an accepted array is consumed to its end, but for the odd last
\* element of an array of pairs.
StreamedAgrees ==
  (Done /\ job.kind = "elements") =>
    LET v   == job.v
        bad == FirstBreak(Parts(v)) # 0
        cmd == CmdFor(job.fn, v).parsed
        odd == job.fn \in {"map", "z"} /\ Len(v.a) % 2 = 1
    IN /\ ~bad => (out.ok <=> cmd.ok) /\ (out.ok => out = cmd)
       /\ (out.ok /\ odd) => Rest = Encode(Last(v.a)) \o Follower
       /\ (out.ok /\ ~odd) => ~bad /\ Rest = Follower
================================================================================
