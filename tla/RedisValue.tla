------------------------------ MODULE RedisValue ------------------------------
(***************************************************************************)
(* Replies as the enum Value of src/parser.rs, what the decoders make of   *)
(* them (a Result), and the error reply, which the parser turns into       *)
(* Error::Redis.  A text is a sequence of bytes; of the bytes only those   *)
(* that mean something to the parser are told apart.                       *)
(***************************************************************************)
EXTENDS Integers, Sequences, SequencesExt

Status(s) == [k |-> "status", s |-> s]
Bulk(s)   == [k |-> "bulk", s |-> s]
Num(n)    == [k |-> "int", n |-> n]
Nil       == [k |-> "nil"]
Array(a)  == [k |-> "array", a |-> a]

Failure(s) == [k |-> "error", s |-> s]

IsText(v) == v.k \in {"status", "bulk"}

Ok(type, v) == [ok |-> TRUE, type |-> type, v |-> v]
None        == [ok |-> TRUE, type |-> "none"]
Err         == [ok |-> FALSE]

-----------------------------------------------------------------------------
(* Numbers in texts                                                          *)

Digits == <<"0", "1", "2", "3", "4", "5", "6", "7", "8", "9">>

DigitValue(b) == (CHOOSE j \in 1..10 : Digits[j] = b) - 1

IsDecimal(s) == s # <<>> /\ \A j \in DOMAIN s : s[j] \in Range(Digits)

Decimal(s) ==
  LET value[n \in 0..Len(s)] ==
        IF n = 0 THEN 0 ELSE 10 * value[n - 1] + DigitValue(s[n])
  IN value[Len(s)]

\* What str::parse takes for a number: digits, perhaps with a sign.
IsNumber(s) ==
  IsDecimal(s) \/ (s # <<>> /\ Head(s) \in {"+", "-"} /\ IsDecimal(Tail(s)))

NumberOf(s) ==
  CASE Head(s) = "-" -> -Decimal(Tail(s))
    [] Head(s) = "+" -> Decimal(Tail(s))
    [] Head(s) \notin {"+", "-"} -> Decimal(s)
=============================================================================
