-------------------------------- MODULE UIntTypes ------------------------------
(***************************************************************************)
(* UInt8, UInt16, UInt32 and UInt64 of daw_uint_types.h: enumerations with *)
(* operators on operands of mixed widths, which all convert to a type to   *)
(* compute in, and convert the result to a type to return.                 *)
(*                                                                         *)
(* The widths are constants, small ones in the runs. A number is computed  *)
(* with step by step; exact follows it as an integer without a width, for  *)
(* as long as every result is as wide as what it was computed from.        *)
(***************************************************************************)
EXTENDS Integers, FiniteSets, FiniteSetsExt, Bitwise

CONSTANTS Bits8, Bits16, Bits32, Bits64, \* the widths; int is as wide as UInt32
          MaxSteps                       \* bound: operations on a number

ASSUME WidthAssumption ==
  /\ 0 < Bits8 /\ Bits8 < Bits16 /\ Bits16 < Bits32 /\ Bits32 < Bits64
  /\ MaxSteps \in Nat

VARIABLE calc \* type, value, exact, steps

Sizes == {8, 16, 32, 64}
Width(n) == CASE n = 8 -> Bits8 [] n = 16 -> Bits16 [] n = 32 -> Bits32 [] n = 64 -> Bits64

UInt(n) == [uint |-> "UInt", size |-> n]
Raw(n) == [uint |-> "std::uint", size |-> n]
UInts(n) == {UInt(m) : m \in {k \in Sizes : k <= n}}
Operands(n) == UInts(n) \cup {Raw(n)}

-------------------------------------------------------------------------------
(* The overloads, by the size that each group of them computes and returns.*)

(* UInt(n) with all that is no wider, in both orders.                      *)
Either(n) == ({UInt(n)} \X Operands(n)) \cup (Operands(n) \X {UInt(n)})

Shifts64 == ({UInt(64)} \X Operands(64)) \cup ({Raw(64)} \X UInts(64))
Bits64Or == Either(64)
Compares64 == (UInts(64) \X {Raw(64)}) \cup ({Raw(64)} \X UInts(64))
Adds64 == Either(64)
Subs64 == Either(64)
Muls64 == Either(64)
Divs64 == Either(64) \cup ({Raw(64)} \X UInts(64))

Shifts32 == ({UInt(32)} \X Operands(32)) \cup ({Raw(32)} \X UInts(32))
Bits32Or == Either(32)
Adds32 == Either(32) \cup (UInts(16) \X {Raw(32)}) \cup ({Raw(32)} \X UInts(16))
Subs32 == Either(32) \cup ({Raw(32)} \X UInts(16))
Muls32 == Either(32) \cup ({Raw(32)} \X UInts(16))
Divs32 == Either(32) \cup ({Raw(32)} \X UInts(16))

Shifts16 == ({UInt(16)} \X Operands(16)) \cup {<<Raw(16), UInt(16)>>}
Bits16Or == ({UInt(16)} \X Operands(16)) \cup {<<Raw(16), UInt(16)>>}
Compares16 == {<<UInt(16), Raw(16)>>, <<Raw(16), UInt(16)>>}
Adds16 == Either(16) \cup {<<UInt(8), Raw(16)>>}
Subs16 == Either(16) \cup {<<Raw(16), UInt(8)>>}
Muls16 == Either(16) \cup {<<UInt(8), Raw(16)>>}
Divs16 == Either(16) \cup {<<Raw(16), UInt(8)>>}

Adds8 == Either(8)
Muls8 == {<<UInt(8), UInt(8)>>, <<UInt(8), Raw(64)>>, <<Raw(8), UInt(64)>>}
Divs8 == Muls8
Shifts8 == Either(8)
Bits8Or == Either(8)

Overloads(op, n) ==
  CASE op \in {"<<", ">>"} -> (CASE n = 64 -> Shifts64 [] n = 32 -> Shifts32 [] n = 16 -> Shifts16 [] n = 8 -> Shifts8)
    [] op \in {"&", "|", "^"} -> (CASE n = 64 -> Bits64Or [] n = 32 -> Bits32Or [] n = 16 -> Bits16Or [] n = 8 -> Bits8Or)
    [] op = "<" -> (CASE n = 64 -> Compares64 [] n = 16 -> Compares16 [] n \in {8, 32} -> Either(n) \ {<<UInt(n), UInt(n)>>})
    [] op = "+" -> (CASE n = 64 -> Adds64 [] n = 32 -> Adds32 [] n = 16 -> Adds16 [] n = 8 -> Adds8)
    [] op = "-" -> (CASE n = 64 -> Subs64 [] n = 32 -> Subs32 [] n = 16 -> Subs16 [] n = 8 -> Adds8)
    [] op = "*" -> (CASE n = 64 -> Muls64 [] n = 32 -> Muls32 [] n = 16 -> Muls16 [] n = 8 -> Muls8)
    [] op = "/" -> (CASE n = 64 -> Divs64 [] n = 32 -> Divs32 [] n = 16 -> Divs16 [] n = 8 -> Divs8)

-------------------------------------------------------------------------------
(* Computing.                                                              *)

(* Mutant of Narrowed: the result is as wide as what it was computed in.   *)
NarrowedToInt(x, n) == x % 2 ^ Max({Width(n), Width(32)})
Narrowed(x, n) == x % 2 ^ Width(n)

(* What is shorter than int computes as int.                               *)
Computing(n) == IF n < 32 THEN 32 ELSE n

BitOr(x, y) == x | y
BitAnd(x, y) == x & y
BitXor(x, y) == BitOr(x, y) - BitAnd(x, y)
Complement(x, n) == 2 ^ Width(n) - 1 - x

(* In the code a shift by the width or more, and a division by zero, are   *)
(* undefined: the caller makes none.                                       *)
Defined(op, n, y) ==
  /\ op \in {"<<", ">>"} => y < Width(Computing(n))
  /\ op = "/" => y # 0

OnNumbers(op, x, y) ==
  CASE op = "+" -> x + y [] op = "-" -> x - y [] op = "*" -> x * y [] op = "/" -> x \div y
    [] op = "<<" -> x * 2 ^ y [] op = ">>" -> x \div 2 ^ y
    [] op = "&" -> BitAnd(x, y) [] op = "|" -> BitOr(x, y) [] op = "^" -> BitXor(x, y)

(* uint8_t / UInt64 takes of the divisor no more than int can hold.        *)
Divisor(pair, y) == IF pair = <<Raw(8), UInt(64)>> THEN Narrowed(y, 32) ELSE y
Truncates(op, pair, y) == op = "/" /\ Divisor(pair, y) # y

Compute(op, n, pair, x, y) ==
  Narrowed(Narrowed(OnNumbers(op, x, IF op = "/" THEN Divisor(pair, y) ELSE y), Computing(n)), n)

(* In int, or in what is wider, a number is what it is.                    *)
Less(n, x, y) == Narrowed(x, Computing(n)) < Narrowed(y, Computing(n))

(* Rotating is shifting both ways: by all or none of 32 or 64 bits it is   *)
(* undefined.                                                              *)
RotateLeft(x, n, k) ==
  Narrowed(BitOr(Narrowed(x * 2 ^ k, Computing(n)), x \div 2 ^ (Width(n) - k)), n)
RotateRight(x, n, k) ==
  Narrowed(BitOr(x \div 2 ^ k, Narrowed(x * 2 ^ (Width(n) - k), Computing(n))), n)
RotateBy(n) == IF n < 32 THEN 0..Width(n) ELSE 1..(Width(n) - 1)

(* The mask is an unsigned int: in a UInt64 set_bit clears all bits that   *)
(* an int does not have, too.                                              *)
SetBit(x, n, k, state) ==
  BitOr(BitAnd(x, Complement(2 ^ k, 32)), Narrowed((IF state THEN 1 ELSE 0) * 2 ^ k, n))
GetBit(x, k) == BitAnd(x \div 2 ^ k, 1)

MaskFromLsb(n, k) ==
  IF k = 0 THEN 0 ELSE Complement(Narrowed(Complement(1, n) * 2 ^ (k - 1), n), n)

(* The lowest byte comes first.                                            *)
FromBuffer(n, bytes) ==
  FoldSet(LAMBDA i, x : BitOr(x, bytes[i] * 2 ^ (Width(8) * i)), 0, 0..((Width(n) \div Width(8)) - 1))

-------------------------------------------------------------------------------
(* The steps.                                                              *)

Highest(n) == 2 ^ Width(n) - 1
Samples(n) == {1, 2 ^ (Width(n) - 1), Highest(n)}

NumberOf(t, x) == [type |-> t, value |-> x, exact |-> x, steps |-> 0]

UIntInit ==
  \E t \in [uint : {"UInt", "std::uint"}, size : Sizes] : \E x \in {0} \cup Samples(t.size) :
    calc = NumberOf(t, x)

Becomes(t, x, exact) ==
  /\ calc.steps < MaxSteps
  /\ calc' = [type |-> t, value |-> x, exact |-> exact, steps |-> calc.steps + 1]

(* Widened, or taken bits of, a number has forgotten where it came from.   *)
Known(op, n) == IF op \in {"+", "-", "*", "<<"} /\ n <= calc.type.size THEN calc.exact ELSE calc.value

(* With the number to the left of an operator, or to its right. A compound *)
(* assignment computes the same.                                           *)
Operate ==
  \E op \in {"+", "-", "*", "/", "<<", ">>", "&", "|", "^"}, n \in Sizes :
  \E pair \in Overloads(op, n) :
    \/ /\ pair[1] = calc.type
       /\ \E y \in Samples(pair[2].size) \cup (IF op \in {"<<", ">>"} THEN {0, Width(n) - 1} ELSE {}) :
            /\ y <= Highest(pair[2].size) /\ Defined(op, n, y) /\ Defined(op, n, Divisor(pair, y))
            /\ LET x == Compute(op, n, pair, calc.value, y)
               IN Becomes(UInt(n), x, IF Truncates(op, pair, y) THEN x ELSE OnNumbers(op, Known(op, n), y))
    \/ /\ pair[2] = calc.type /\ op \notin {"<<", ">>"}
       /\ Defined(op, n, calc.value) /\ Defined(op, n, Divisor(pair, calc.value))
       /\ \E x \in Samples(pair[1].size) :
            LET r == Compute(op, n, pair, x, calc.value)
            IN Becomes(UInt(n), r, IF Truncates(op, pair, calc.value) THEN r ELSE OnNumbers(op, x, Known(op, n)))

(* Unary operators, and conversions. Negation goes through a signed type,  *)
(* of int or more: of its least number it is undefined.                    *)
Unary ==
  LET n == calc.type.size IN
  /\ calc.type.uint = "UInt"
  /\ \/ Becomes(calc.type, Narrowed(Complement(calc.value, Computing(n)), n), -calc.exact - 1)
     \/ Becomes(calc.type, Narrowed(calc.value + 1, n), calc.exact + 1)
     \/ Becomes(calc.type, Narrowed(calc.value - 1, n), calc.exact - 1)
     \/ /\ n >= 32 => calc.value # 2 ^ (Width(n) - 1)
        /\ Becomes(calc.type, Narrowed(Narrowed(-calc.value, Computing(n)), n), -calc.exact)

ToUInt ==
  \E n \in Sizes :
    Becomes(UInt(n), Narrowed(calc.value, n), IF n <= calc.type.size THEN calc.exact ELSE calc.value)

(* Bits: rotated there and half way back, set, masked, got.                *)
Rotate ==
  LET n == calc.type.size IN
  /\ calc.type.uint = "UInt"
  /\ \E k \in RotateBy(n) :
       \/ Becomes(calc.type, RotateRight(RotateLeft(calc.value, n, k), n, k), calc.exact)
       \/ Becomes(calc.type, RotateLeft(RotateRight(calc.value, n, k), n, k), calc.exact)

SetOrMask ==
  LET n == calc.type.size
      Without(k) == calc.value - GetBit(calc.value, k) * 2 ^ k
  IN /\ calc.type.uint = "UInt"
     /\ \/ \E k \in 0..(Min({Width(n), Width(32)}) - 1), state \in BOOLEAN :
             LET x == SetBit(calc.value, n, k, state)
             IN Becomes(calc.type, x, IF calc.value > Highest(32) THEN x
                                      ELSE IF state THEN Without(k) + 2 ^ k ELSE Without(k))
        \/ \E k \in 0..Width(n) :
             Becomes(calc.type, BitAnd(calc.value, MaskFromLsb(n, k)), calc.value % 2 ^ k)

(* The number is written byte by byte and read back.                       *)
ThroughBuffer ==
  LET n == calc.type.size
      bytes == [i \in 0..((Width(n) \div Width(8)) - 1) |-> calc.value \div 2 ^ (Width(8) * i) % 2 ^ Width(8)]
  IN /\ n > 8 /\ calc.type.uint = "UInt"
     /\ Becomes(calc.type, FromBuffer(n, bytes), calc.exact)

UIntNext == Operate \/ Unary \/ ToUInt \/ Rotate \/ SetOrMask \/ ThroughBuffer
UIntSpec == UIntInit /\ [][UIntNext]_calc

-------------------------------------------------------------------------------
(* Properties.                                                             *)

(* However operands of different widths are mixed, and whatever is used to *)
(* compute in on the way, a number is the one that exact arithmetic gives, *)
(* taken modulo two to the power of its width: converting in between never *)
(* makes a difference, to quotients, shifts, bits and orderings either.    *)
(* (uint8_t / UInt64 with a divisor that int cannot hold, and set_bit of a *)
(* UInt64 that it cannot hold, are left out: they do make one.)            *)
ComputesModulo ==
  /\ calc.value = calc.exact % 2 ^ Width(calc.type.size)
  /\ \A n \in Sizes : \A pair \in Overloads("<", n) :
       pair[1] = calc.type =>
         \A y \in Samples(pair[2].size) : Less(n, calc.value, y) <=> calc.value < y
===============================================================================
