------------------------------- MODULE TypedCmd -------------------------------
(***************************************************************************)
(* src/commands.rs: typed command objects, a second way to read a reply.   *)
(* XCmd(v) is an object of that type after new() and parse(v): what parse  *)
(* answers, and what result() then returns.  parse() keeps its own error   *)
(* to itself, so result() of an object that has no value falls back to     *)
(* `empty': an error, None, or an empty collection.                        *)
(***************************************************************************)
EXTENDS RedisValue

CONSTANTS
  Precision,  \* DurationCmd.precision in nanoseconds, scaled down
  U64         \* the number of values of a u64, scaled down with it

ASSUME WidthAssumption == {Precision, U64} \subseteq Nat \ {0}

Cmd(parsed, empty) ==
  [parsed |-> parsed,
   result |-> IF parsed.ok /\ parsed # None THEN parsed ELSE empty]

StatusCmd(v) == Cmd(IF IsText(v) THEN Ok("string", v.s) ELSE Err, Err)

IntCmd(v) ==
  Cmd(CASE v.k = "int"                  -> Ok("int", v.n)
        [] IsText(v) /\ IsNumber(v.s)   -> Ok("int", NumberOf(v.s))
        [] v.k # "int" /\ ~(IsText(v) /\ IsNumber(v.s)) -> Err,
      Err)

BoolCmd(v) == Cmd(IF v.k = "int" THEN Ok("bool", v.n = 1) ELSE Err, Err)

\* A nil is accepted and leaves the object without a value.
StringCmd(v) ==
  Cmd(CASE v.k = "nil" -> None
        [] IsText(v)   -> Ok("string", v.s)
        [] v.k # "nil" /\ ~IsText(v) -> Err,
      None)

FloatCmd(v) ==
  Cmd(IF IsText(v) /\ IsNumber(v.s) THEN Ok("float", v.s) ELSE Err, Err)

\* Seeded fault: the sign of the reply is not looked at.
DurationCmdUnsigned(v) ==
  Cmd(IF v.k = "int" THEN Ok("nanos", (v.n * Precision) % U64) ELSE Err, Err)

\* The product is taken in 64 bits and wraps (with overflow checks it panics).
DurationCmd(v) ==
  Cmd(IF v.k = "int"
      THEN Ok("nanos", IF v.n < 0 THEN 0 ELSE (v.n * Precision) % U64)
      ELSE Err, Err)

TextsOf(a) == [j \in 1..Len(a) |-> a[j].s]

StringSliceCmd(v) ==
  Cmd(IF v.k = "array" /\ \A j \in DOMAIN v.a : IsText(v.a[j])
      THEN Ok("strings", TextsOf(v.a)) ELSE Err, Ok("strings", <<>>))

SliceCmd(v) ==
  Cmd(IF v.k = "array" THEN Ok("slice", v.a) ELSE Err, Ok("slice", <<>>))

BoolSliceCmd(v) ==
  Cmd(IF v.k = "array" /\ \A j \in DOMAIN v.a : v.a[j].k = "int"
      THEN Ok("bools", [j \in 1..Len(v.a) |-> v.a[j].n = 1])
      ELSE Err, Ok("bools", <<>>))

\* The loops over pairs stop before an odd last element.
Pairs(a)     == 1..(Len(a) \div 2)
TextPairs(a) == \A j \in Pairs(a) : IsText(a[2 * j - 1]) /\ IsText(a[2 * j])

\* Of two pairs with the same key the later one stays.
StringMapCmd(v) ==
  Cmd(IF v.k = "array" /\ TextPairs(v.a)
      THEN Ok("map", [f \in {v.a[2 * j - 1].s : j \in Pairs(v.a)} |->
                 v.a[2 * Max({j \in Pairs(v.a) : v.a[2 * j - 1].s = f})].s])
      ELSE Err, Ok("map", <<>>))

ZSliceCmd(v) ==
  Cmd(IF /\ v.k = "array"
         /\ TextPairs(v.a)
         /\ \A j \in Pairs(v.a) : IsNumber(v.a[2 * j].s)
      THEN Ok("z_vec", [j \in Pairs(v.a) |-> <<v.a[2 * j - 1].s, v.a[2 * j].s>>])
      ELSE Err, Ok("z_vec", <<>>))

\* The number a cursor stands for; what is not a number counts as 0, the
\* cursor that ends a scan.
CursorOf(v) ==
  CASE v.k = "int" -> v.n
    [] IsText(v) /\ IsNumber(v.s) -> NumberOf(v.s)
    [] v.k # "int" /\ ~(IsText(v) /\ IsNumber(v.s)) -> 0

KeysOf(v) == IF v.k = "array" THEN TextsOf(SelectSeq(v.a, IsText)) ELSE <<>>

ScanCmd(v) ==
  Cmd(IF v.k = "array" /\ Len(v.a) >= 2
      THEN Ok("scan", <<CursorOf(v.a[1]), KeysOf(v.a[2])>>)
      ELSE Err, Ok("scan", <<0, <<>>>>))
=============================================================================
