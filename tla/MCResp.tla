-------------------------------- MODULE MCResp --------------------------------
(* The calls and streams with which TLC checks the parser.                  *)
EXTENDS RespReplies

X(n) == [j \in 1..n |-> "x"]

Plain == {Status(<<"x">>), Num(-1), Nil, NilArray, Bulk(<<>>), Bulk(<<"1">>),
          Bulk(CRLF)}

Scalars == Plain \cup {Status(<<>>), Status(<<"bad">>), Failure(<<"bad">>),
                       Num(12), Bulk(X(10)), Bulk(<<"x", "bad">>)}

Elements == {Status(<<"x">>), Num(1), Nil, Bulk(<<"1">>), Bulk(CRLF),
             Failure(<<"x">>), Bulk(<<"bad">>)}

ArraysOf(S, n) == {Array(a) : a \in UNION {[1..m -> S] : m \in 0..n}}

Nested == {Array(<<v, a, w>>) : v \in {Bulk(<<"1">>), Nil}, w \in {Num(2)},
             a \in ArraysOf({Bulk(<<"x">>), Nil, Failure(<<>>)}, 2)}

\* One reply, and perhaps the next one behind it; the stream stays open.
WholeJobs ==
  {[fn |-> fn, kind |-> "whole", v |-> v, bytes |-> Encode(v) \o next,
    ends |-> FALSE] :
     fn \in {"reply", "scan"}, next \in {<<>>, Follower},
     v \in Scalars \cup ArraysOf(Elements, 2) \cup Nested}

\* A reply whose line is at the limit or beyond it, alone or in an array.
LongJobs ==
  {[fn |-> "reply", kind |-> "long", v |-> v, bytes |-> Encode(v),
    ends |-> FALSE] :
     v \in UNION {{Status(X(MaxLine - n)), Array(<<Nil, Failure(X(MaxLine - n))>>)}
                    : n \in {1, 2, 3}}}

\* A reply cut by the end of the stream.
CutJobs ==
  UNION {{[fn |-> "reply", kind |-> "cut", v |-> v,
           bytes |-> SubSeq(Encode(v), 1, n), ends |-> TRUE] :
             n \in 0..(Len(Encode(v)) - 1)} :
         v \in Scalars \cup ArraysOf(Plain, 2) \cup {Array([j \in 1..10 |-> Nil])}}

\* Lines no server sends, alone or as the element of an array; the numbers are
\* about the limits of lengths and integers.
Odd(t, n) == <<t>> \o SignedOf(n) \o CRLF

BadLines ==
  {CRLF, <<LF>>, <<"x">> \o CRLF, <<":">> \o CRLF, <<"*", "x">> \o CRLF,
   <<"$", "bad">> \o CRLF, Odd("$", -2), Odd("$", UsizeMax + 1),
   Odd(":", I64Max + 1), Odd(":", -(I64Max + 2)), Odd("*", I64Max + 1)}

HugeLines ==
  {Odd("*", -2), Odd("*", -I64Max), Odd("*", MaxCapacity + 1),
   Odd("*", I64Max), Odd("$", MaxCapacity)}

WrapLines == {Odd("$", UsizeMax), Odd("$", UsizeMax - 1)}

OddJobs ==
  {[fn |-> "reply", kind |-> kind, v |-> Nil, ends |-> FALSE,
    bytes |-> before \o l \o Follower] :
     before \in {<<>>, BytesOf(Array(<<Nil>>))},
     <<kind, l>> \in ({"bad"} \X BadLines) \cup ({"huge"} \X HugeLines)
                       \cup ({"wrap"} \X WrapLines)}

\* A request, read back.
Args == UNION {[1..n -> {<<>>, <<"x">>, CRLF, X(10)}] : n \in 0..2}
          \cup {[j \in 1..10 |-> <<>>]}

RequestJobs ==
  {[fn |-> "reply", kind |-> "request", ends |-> FALSE, args |-> args,
    v |-> Array([j \in DOMAIN args |-> Bulk(args[j])]),
    bytes |-> AppendArgs(args)] : args \in Args}

\* The elements of an array whose header the caller has read.
StreamJobs ==
  {[fn |-> fn, kind |-> "elements", v |-> v, ends |-> FALSE,
    bytes |-> EncodeParts(Tail(Parts(v))) \o Follower] :
     fn \in Streamers,
     v \in ArraysOf(Elements, 2)
             \cup ArraysOf({Bulk(<<"1">>), Status(<<"2">>)}, 4)
             \cup ArraysOf({Num(0), Num(1), Num(2)}, 3)}

AllJobs == WholeJobs \cup LongJobs \cup CutJobs \cup OddJobs \cup RequestJobs
             \cup StreamJobs
=============================================================================
