------------------------------- MODULE Commands -------------------------------
(***************************************************************************)
(* The typed command methods of src/client.rs and src/script.rs.  A method *)
(* sends one command and makes its return value of the reply; which of     *)
(* sixteen ways it does so is its decoder.  The tables below give the      *)
(* decoder of every method, by the command it sends.                       *)
(*                                                                         *)
(* Client shows that a connection may go back to the pool with a reply     *)
(* still unread.  Here the same connection is used by one call after       *)
(* another, so a decoder also meets replies that were meant for another    *)
(* method.                                                                 *)
(***************************************************************************)
EXTENDS TypedCmd

CONSTANTS
  MaxCalls,   \* bound: calls made on the connection
  MaxPairs    \* bound: pairs in an array, elements in a list

ASSUME CommandsAssumption == {MaxCalls, MaxPairs} \subseteq Nat

VARIABLES
  pc,      \* "idle", "wait" for a reply, or in the loop over "pairs"
  cmd,     \* the command of the current or last call
  wire,    \* replies sent and not read, each with the number of its call
  calls,   \* calls made
  reply,   \* the reply being decoded, or decoded last, with its number
  i,       \* the index of the loop
  acc,     \* what the loop has collected
  result   \* what the last call returned

vars == <<pc, cmd, wire, calls, reply, i, acc, result>>

-----------------------------------------------------------------------------
(* Methods, by decoder                                                       *)

ConnectionCommands == [
  status |-> {"AUTH", "SELECT"},
  string |-> {"ECHO", "PING"}]

KeyCommands == [
  int        |-> {"DEL"},
  bool       |-> {"EXISTS", "EXPIRE", "EXPIREAT", "PERSIST", "PEXPIRE",
                  "PEXPIREAT", "RENAMENX"},
  strings    |-> {"KEYS"},
  duration   |-> {"PTTL", "TTL"},
  opt_string |-> {"RANDOMKEY"},
  status     |-> {"RENAME", "TYPE"}]

StringCommands == [
  opt_string  |-> {"GET", "GETSET"},
  status      |-> {"SET", "SETEX", "MSET"},
  bool        |-> {"SETNX", "MSETNX"},
  opt_strings |-> {"MGET"},
  int         |-> {"INCR", "INCRBY", "DECR", "DECRBY", "APPEND", "STRLEN"},
  float       |-> {"INCRBYFLOAT"},
  string      |-> {"GETRANGE"}]

HashCommands == [
  opt_string  |-> {"HGET"},
  bool        |-> {"HSET", "HEXISTS", "HSETNX"},
  map         |-> {"HGETALL"},
  int         |-> {"HDEL", "HLEN", "HINCRBY"},
  strings     |-> {"HKEYS", "HVALS"},
  float       |-> {"HINCRBYFLOAT"},
  opt_strings |-> {"HMGET"},
  status      |-> {"HMSET"}]

ListCommands == [
  int        |-> {"LPUSH", "RPUSH", "LLEN", "LREM"},
  opt_string |-> {"LPOP", "RPOP", "LINDEX"},
  strings    |-> {"LRANGE"},
  status     |-> {"LSET", "LTRIM"},
  opt_pair   |-> {"BLPOP", "BRPOP"}]

SetCommands == [
  int        |-> {"SADD", "SREM", "SCARD"},
  strings    |-> {"SMEMBERS", "SDIFF", "SINTER", "SUNION"},
  bool       |-> {"SISMEMBER"},
  opt_string |-> {"SPOP", "SRANDMEMBER"}]

ZSetCommands == [
  int       |-> {"ZADD", "ZREM", "ZCARD", "ZCOUNT"},
  strings   |-> {"ZRANGE", "ZREVRANGE"},
  z_vec     |-> {"ZRANGE WITHSCORES", "ZREVRANGE WITHSCORES"},
  opt_float |-> {"ZSCORE"},
  opt_int   |-> {"ZRANK", "ZREVRANK"},
  float     |-> {"ZINCRBY"}]

ServerCommands == [
  status |-> {"FLUSHDB", "FLUSHALL"},
  string |-> {"INFO"},
  int    |-> {"DBSIZE"}]

PubSubCommands == [int |-> {"PUBLISH"}]

ScriptCommands == [
  string |-> {"SCRIPT LOAD"},
  bools  |-> {"SCRIPT EXISTS"},
  raw    |-> {"EVAL", "EVALSHA"}]

Groups == {ConnectionCommands, KeyCommands, StringCommands, HashCommands,
           ListCommands, SetCommands, ZSetCommands, ServerCommands,
           PubSubCommands, ScriptCommands}

Methods == UNION {UNION {g[d] : d \in DOMAIN g} : g \in Groups}

Decoder == [c \in Methods |->
              CHOOSE d \in UNION {DOMAIN g : g \in Groups} :
                \E g \in Groups : d \in DOMAIN g /\ c \in g[d]]

-----------------------------------------------------------------------------
(* Replies, and what the server answers each command with                    *)

Plain   == <<"x">>
One     == <<"1">>   \* a text that is a number
Texts   == {Plain, One}
Bulks   == {Bulk(s) : s \in Texts}
Arrays(S, lengths) == {Array(a) : a \in UNION {[1..n -> S] : n \in lengths}}
PairsOf(K, V) ==
  {r \in Arrays(K \cup V, {2 * n : n \in 0..MaxPairs}) :
     \A j \in 1..Len(r.a) :
       /\ r.a[j] \in IF j % 2 = 1 THEN K ELSE V
       /\ \A l \in 1..(j - 1) : l % 2 = 1 /\ j % 2 = 1 => r.a[j] # r.a[l]}

Acknowledged == {"AUTH", "SELECT", "RENAME", "TYPE", "SET", "SETEX", "MSET",
                 "HMSET", "LSET", "LTRIM", "FLUSHDB", "FLUSHALL", "PING"}
LongTTL      == U64 \div Precision + 1   \* more nanoseconds than a u64 holds
YesNo        == {"EXISTS", "EXPIRE", "EXPIREAT", "PERSIST", "PEXPIRE",
                 "PEXPIREAT", "RENAMENX", "SETNX", "MSETNX", "HSET", "HEXISTS",
                 "HSETNX", "SISMEMBER"}
Counts       == {"DEL", "INCR", "INCRBY", "DECR", "DECRBY", "APPEND", "STRLEN",
                 "HDEL", "HLEN", "HINCRBY", "LPUSH", "RPUSH", "LLEN", "LREM",
                 "SADD", "SREM", "SCARD", "ZADD", "ZREM", "ZCARD", "ZCOUNT",
                 "DBSIZE", "PUBLISH"}
Values       == {"ECHO", "GETRANGE", "INFO", "SCRIPT LOAD"}
MaybeValues  == {"RANDOMKEY", "GET", "GETSET", "HGET", "LPOP", "RPOP", "LINDEX",
                 "SPOP", "SRANDMEMBER"}
ValueLists   == {"KEYS", "HKEYS", "HVALS", "LRANGE", "SMEMBERS", "SDIFF",
                 "SINTER", "SUNION", "ZRANGE", "ZREVRANGE"}
Increments   == {"INCRBYFLOAT", "HINCRBYFLOAT", "ZINCRBY"}

\* What a script may answer, which includes an error of its own making.
ScriptReplies == {Num(1), Nil, Array(<<Num(1), Nil>>), Failure("NOSCRIPT")}

Replies(c) ==
  {Failure("ERR")} \cup
  CASE c \in Acknowledged     -> {Status(Plain)}
    [] c \in YesNo            -> {Num(0), Num(1)}
    [] c \in Counts           -> {Num(0), Num(1), Num(2)}
    [] c \in {"TTL", "PTTL"}  -> {Num(-2), Num(-1), Num(0), Num(1), Num(LongTTL)}
    [] c \in Values           -> Bulks
    [] c \in MaybeValues      -> Bulks \cup {Nil}
    [] c \in ValueLists       -> Arrays(Bulks, 0..MaxPairs)
    [] c \in {"MGET", "HMGET"} -> Arrays(Bulks \cup {Nil}, 1..MaxPairs)
    [] c \in Increments       -> {Bulk(One)}
    [] c = "ZSCORE"           -> {Bulk(One), Nil}
    [] c \in {"ZRANK", "ZREVRANK"} -> {Num(0), Num(1), Nil}
    [] c \in {"BLPOP", "BRPOP"} -> Arrays(Bulks, {2}) \cup {Nil}
    [] c = "HGETALL"          -> PairsOf(Bulks, Bulks)
    [] c \in {"ZRANGE WITHSCORES", "ZREVRANGE WITHSCORES"} ->
         PairsOf(Bulks, {Bulk(One)})
    [] c = "SCRIPT EXISTS"    -> {Array(<<Num(0)>>), Array(<<Num(1)>>)}
    [] c \in {"EVAL", "EVALSHA"} -> ScriptReplies

-----------------------------------------------------------------------------
(* Decoders                                                                  *)

\* array_to_option_strings: what is not a string is None.
OptStrings(a) ==
  [j \in 1..Len(a) |-> IF IsText(a[j]) THEN Ok("some", a[j].s) ELSE None]

\* The values among options, in order, as filter_map() collects them.
Somes(o) ==
  LET kept[n \in 0..Len(o)] ==
        IF n = 0 THEN <<>>
        ELSE IF o[n] = None THEN kept[n - 1] ELSE Append(kept[n - 1], o[n].v)
  IN kept[Len(o)]

\* array_to_strings: what is not a string is left out.
Strings(a) == Somes(OptStrings(a))

\* Script::exists: what is not an integer is left out.
Bools(a) == Somes([j \in 1..Len(a) |->
                     IF a[j].k = "int" THEN Ok("some", a[j].n = 1) ELSE None])

Float(s) == IF IsNumber(s) THEN Ok("float", s) ELSE Err

\* blpop and brpop.
OptPair(v) ==
  CASE v.k # "array"  -> None
    [] v.k = "array" /\ Len(v.a) < 2 -> None
    [] v.k = "array" /\ Len(v.a) >= 2 ->
         IF IsText(v.a[1]) /\ IsText(v.a[2])
         THEN Ok("pair", <<v.a[1].s, v.a[2].s>>) ELSE Err

Optional == {"opt_string", "opt_float", "opt_int", "opt_pair"}
Looping  == {"map", "z_vec"}

\* What decoder d makes of reply v, where it does not loop.  The parser has
\* made an Err of an error and of a nil.
Decode(d, v) ==
  CASE v.k = "error" -> Err
    [] v.k = "nil"   -> IF d \in Optional THEN None ELSE Err
    [] v.k \notin {"error", "nil"} ->
       CASE d = "status"     -> IF v.k = "status" THEN Ok("string", v.s) ELSE Err
         [] d \in {"string", "opt_string"} ->
                                IF IsText(v) THEN Ok("string", v.s) ELSE Err
         [] d \in {"int", "opt_int"} ->
                                IF v.k = "int" THEN Ok("int", v.n) ELSE Err
         [] d = "bool"       -> IF v.k = "int" THEN Ok("bool", v.n = 1) ELSE Err
         [] d = "duration"   -> IF v.k # "int" THEN Err
                                ELSE Ok("duration", IF v.n < 0 THEN 0 ELSE v.n)
         [] d \in {"float", "opt_float"} -> IF IsText(v) THEN Float(v.s) ELSE Err
         [] d = "strings"    -> IF v.k = "array" THEN Ok("strings", Strings(v.a))
                                ELSE Err
         [] d = "opt_strings" -> IF v.k = "array"
                                 THEN Ok("options", OptStrings(v.a))
                                 ELSE Err
         [] d = "opt_pair"   -> OptPair(v)
         [] d = "bools"      -> IF v.k = "array" THEN Ok("bools", Bools(v.a))
                                ELSE Err
         [] d = "raw"        -> Ok("value", v)
         [] d \in Looping    -> Err

-----------------------------------------------------------------------------
(* Calls                                                                     *)

NoReply == [id |-> 0, v |-> Nil]

Init ==
  /\ pc = "idle"
  /\ cmd = "PING"
  /\ wire = <<>>
  /\ calls = 0
  /\ reply = NoReply
  /\ i = 0
  /\ acc = <<>>
  /\ result = None

\* Request c goes out behind the unread replies w, and the server answers.
Request(c, w) ==
  /\ calls' = calls + 1
  /\ \E v \in Replies(c) : wire' = Append(w, [id |-> calls', v |-> v])

\* A method writes its command and waits.
Call(c) ==
  /\ pc = "idle"
  /\ calls < MaxCalls
  /\ Request(c, wire)
  /\ pc' = "wait"
  /\ cmd' = c
  /\ UNCHANGED <<reply, i, acc, result>>

\* The call times out or is dropped before its reply has arrived, and the
\* connection serves the next one.
Abandon ==
  /\ pc = "wait"
  /\ pc' = "idle"
  /\ result' = Err
  /\ UNCHANGED <<cmd, wire, calls, reply, i, acc>>

Entering(v) == Decoder[cmd] \in Looping /\ v.k = "array"

\* The reply is read.
Receive ==
  /\ pc = "wait"
  /\ reply' = Head(wire)
  /\ wire' = Tail(wire)
  /\ IF Entering(reply'.v)
     THEN pc' = "pairs" /\ UNCHANGED result
     ELSE pc' = "idle" /\ result' = Decode(Decoder[cmd], reply'.v)
  /\ i' = 0
  /\ acc' = <<>>
  /\ UNCHANGED <<cmd, calls>>

\* The loop of decoder d stands at a pair of elements ...
AtPair(d) ==
  /\ pc = "pairs"
  /\ Decoder[cmd] = d
  /\ i + 1 < Len(reply.v.a)

First  == reply.v.a[i + 1]
Second == reply.v.a[i + 2]

\* HashMap::insert: of two pairs with the same key the later one stays.
Insert(m, f, s) == [g \in DOMAIN m \cup {f} |-> IF g = f THEN s ELSE m[g]]

\* ... or has passed the last one.
LoopEnds ==
  /\ pc = "pairs"
  /\ i + 1 >= Len(reply.v.a)
  /\ pc' = "idle"
  /\ result' = Ok(Decoder[cmd], acc)
  /\ UNCHANGED <<cmd, wire, calls, reply, i, acc>>

\* Seeded fault: the index moves on by one.
MapInsertByOne ==
  /\ AtPair("map")
  /\ IsText(First) /\ IsText(Second)
  /\ acc' = Insert(acc, First.s, Second.s)
  /\ i' = i + 1
  /\ UNCHANGED <<pc, cmd, wire, calls, reply, result>>

\* hget_all: a pair of strings is inserted ...
MapInsert ==
  /\ AtPair("map")
  /\ IsText(First) /\ IsText(Second)
  /\ acc' = Insert(acc, First.s, Second.s)
  /\ i' = i + 2
  /\ UNCHANGED <<pc, cmd, wire, calls, reply, result>>

\* ... and for anything else `continue' leaves the index where it is.
MapContinue ==
  /\ AtPair("map")
  /\ ~(IsText(First) /\ IsText(Second))
  /\ UNCHANGED vars

\* array_to_z_vec: a member and its score ...
ZPush ==
  /\ AtPair("z_vec")
  /\ IsText(First) /\ IsText(Second)
  /\ IsNumber(Second.s)
  /\ acc' = Append(acc, <<First.s, Second.s>>)
  /\ i' = i + 2
  /\ UNCHANGED <<pc, cmd, wire, calls, reply, result>>

\* ... a score that is no number ends the call ...
ZInvalid ==
  /\ AtPair("z_vec")
  /\ IsText(First) /\ IsText(Second)
  /\ ~IsNumber(Second.s)
  /\ pc' = "idle"
  /\ result' = Err
  /\ UNCHANGED <<cmd, wire, calls, reply, i, acc>>

\* Seeded fault: `continue' without the increment, as in hget_all.
ZSkipStays ==
  /\ AtPair("z_vec")
  /\ ~(IsText(First) /\ IsText(Second))
  /\ UNCHANGED vars

\* ... and anything else is skipped by one.
ZSkip ==
  /\ AtPair("z_vec")
  /\ ~(IsText(First) /\ IsText(Second))
  /\ i' = i + 1
  /\ UNCHANGED <<pc, cmd, wire, calls, reply, acc, result>>

DecodeStep ==
  LoopEnds \/ MapInsert \/ MapContinue \/ ZPush \/ ZInvalid \/ ZSkip

-----------------------------------------------------------------------------
(* Properties                                                                *)

\* The reply being decoded, or decoded last, answers the last call.
InStep == reply.id = calls

PairsIn(a) == {<<a[2 * j - 1].s, a[2 * j].s>> : j \in 1..(Len(a) \div 2)}

CarriesInt(r, n) ==
  CASE r.type = "int"      -> r.v = n
    [] r.type = "bool"     -> n = IF r.v THEN 1 ELSE 0
    [] r.type = "duration" -> n = r.v \/ (n < 0 /\ r.v = 0)
    [] r.type = "value"    -> r.v = Num(n)

CarriesArray(r, a) ==
  CASE r.type = "strings" -> a = [j \in DOMAIN r.v |-> Bulk(r.v[j])]
    [] r.type = "options" -> a = [j \in DOMAIN r.v |-> IF r.v[j] = None THEN Nil
                                                       ELSE Bulk(r.v[j].v)]
    [] r.type = "pair"    -> a = [j \in 1..2 |-> Bulk(r.v[j])]
    [] r.type = "bools"   -> a = [j \in DOMAIN r.v |-> Num(IF r.v[j] THEN 1 ELSE 0)]
    [] r.type = "value"   -> r.v = Array(a)
    [] r.type = "map"     -> PairsIn(a) = {<<f, r.v[f]>> : f \in DOMAIN r.v}
    [] r.type = "z_vec"   -> /\ PairsIn(a) = {r.v[j] : j \in DOMAIN r.v}
                             /\ 2 * Len(r.v) = Len(a)

\* Result r carries everything that reply v says.
Carries(r, v) ==
  CASE v.k = "error" -> ~r.ok
    [] v.k = "nil"   -> IF Decoder[cmd] = "raw" THEN ~r.ok ELSE r = None
    [] v.k = "int"   -> r.ok /\ CarriesInt(r, v.n)
    [] v.k = "array" -> r.ok /\ CarriesArray(r, v.a)
    [] IsText(v)     -> r.ok /\ r.v = v.s

\* Every method understands every answer the server gives to its command, and
\* loses nothing of it: a missing value is None and not an error, a hash has
\* all its fields, a list all its elements (a negative TTL, for a key without
\* one or no key, becomes 0).
DecodedInFull == pc = "idle" /\ calls > 0 /\ InStep => Carries(result, reply.v)

\* A call that has its reply returns, even if that reply was meant for another
\* method; the exception is hget_all out of step, whose loop stands still at an
\* element that is not a string.
CallsReturn ==
  /\ pc = "wait" ~> pc # "wait"
  /\ pc = "pairs" /\ (InStep \/ Decoder[cmd] # "map") ~> pc = "idle"

\* The typed command object for the replies a decoder reads.
Wrapper(d, v) ==
  CASE d = "status"                -> StatusCmd(v)
    [] d \in {"string", "opt_string"} -> StringCmd(v)
    [] d \in {"int", "opt_int"}     -> IntCmd(v)
    [] d = "bool"                  -> BoolCmd(v)
    [] d = "duration"              -> DurationCmd(v)
    [] d \in {"float", "opt_float"} -> FloatCmd(v)
    [] d \in {"strings", "opt_pair"} -> StringSliceCmd(v)
    [] d \in {"opt_strings", "raw"} -> SliceCmd(v)
    [] d = "bools"                 -> BoolSliceCmd(v)
    [] d = "map"                   -> StringMapCmd(v)
    [] d = "z_vec"                 -> ZSliceCmd(v)

\* Results r of a method and x of an object say the same.
SameValue(r, x) ==
  CASE r.type = "duration" -> x.v = r.v * Precision \/ r.v * Precision >= U64
    [] r.type = "options"  -> r.v = OptStrings(x.v)
    [] r.type = "pair"     -> r.v = SubSeq(x.v, 1, 2)
    [] r.type = "value"    -> r.v = Array(x.v)
    [] r.type \notin {"duration", "options", "pair", "value"} -> r = x

\* The methods of client.rs and the objects of commands.rs are two decoders for
\* the same replies: on any reply, also one meant for another method, that a
\* method returns a value for and an object parses, both have the same value.
\* The exception is a TTL whose nanoseconds do not fit in 64 bits.
SameByEitherApi ==
  LET object == Wrapper(Decoder[cmd], reply.v)
  IN  (pc = "idle" /\ calls > 0 /\ result.ok /\ result # None
                  /\ reply.id # 0 /\ object.parsed.ok)
        => SameValue(result, object.result)
=============================================================================
