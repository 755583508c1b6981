---------------------------- MODULE CheckedPointers -----------------------------
(***************************************************************************)
(* safe_pointer, which knows the array it was made for, and not_null of a  *)
(* pointer. Addresses are numbers, one for an object; an assertion that    *)
(* fails ends the program. Not the build without assertions.               *)
(***************************************************************************)
EXTENDS Integers

CONSTANTS AddressCount, \* addresses are below it, and sizes wrap at it
          ArrayAt, ArrayCount, \* where the one array is, and its size
          PointerJump   \* the largest move at once

ASSUME CheckedPointersAssumption ==
  /\ {AddressCount, PointerJump} \subseteq Nat
  /\ ArrayAt \in Nat \ {0} /\ ArrayCount \in Nat \ {0} /\ ArrayAt + ArrayCount < AddressCount

VARIABLE ptrs \* which of the two, a pair of them, the last object read

NullPtr == 0
ArrayObjects == ArrayAt .. (ArrayAt + ArrayCount - 1)
Safe(ptr, base, size) == [ptr |-> ptr, base |-> base, size |-> size, destroyed |-> FALSE]
pointer(h) == ptrs.at[h]

(* Of nullptr, of a pointer, and of the array or a part of it.             *)
SafePointers ==
  {Safe(NullPtr, NullPtr, 0)} \cup {Safe(p, NullPtr, 0) : p \in ArrayObjects}
    \cup UNION {{Safe(p, p, n) : n \in 0 .. (ArrayAt + ArrayCount - p)} : p \in ArrayObjects}

(* not_null terminates if it is given null.                                *)
CheckedInit ==
  \/ \E p, q \in SafePointers : ptrs = [safe |-> TRUE, at |-> <<p, q>>, read |-> <<>>]
  \/ \E p, q \in ArrayObjects : ptrs = [safe |-> FALSE, at |-> <<p, q>>, read |-> <<>>]

PointTo(h, p) == ptrs' = [ptrs EXCEPT !.at[h] = p, !.read = <<>>]

-------------------------------------------------------------------------------
(* safe_pointer.                                                           *)

Pointing(p) == ~p.destroyed /\ p.ptr # NullPtr
GetBase(p) == IF p.base # NullPtr THEN p.base ELSE p.ptr
PointerIndex(p) == p.ptr - p.base

(* can_add( n ), and can_sub( -n ): without a range the room is what is    *)
(* left of all addresses.                                                  *)
CanMove(p, n) ==
  IF n >= 0 THEN n <= (p.size - PointerIndex(p)) % AddressCount ELSE -n <= PointerIndex(p)

MovedBy(p, n) == [p EXCEPT !.ptr = (@ + n) % AddressCount]

Steps(p) ==
  {MovedBy(p, 1) : x \in {y \in {p} : Pointing(y) /\ PointerIndex(y) < y.size}}
    \cup {MovedBy(p, -1) : x \in {y \in {p} : Pointing(y) /\ PointerIndex(y) > 0}}

(* += and -=, and, of a copy, + and -. A destroyed one can be moved, too.  *)
Moves(p) == {MovedBy(p, n) : n \in {m \in -PointerJump..PointerJump : CanMove(p, m)}}

(* * and []: the first object of the range, wherever the pointer is; a     *)
(* pointer without one, or of no objects, is undefined.                    *)
Dereference(p) ==
  /\ Pointing(p) /\ p.base # NullPtr /\ p.size > 0
  /\ ptrs' = [ptrs EXCEPT !.read = <<p, p.base>>]

PointerInRange(p, address) ==
  (GetBase(p) = NullPtr /\ address = NullPtr) \/ (GetBase(p) <= address /\ address < p.base + p.size)

(* Which comparisons of two addresses hold, and of two pointers, by get( ).*)
ComparingAddresses(x, y) ==
  CASE x < y -> {"<", "<=", "!="} [] x > y -> {">", ">=", "!="} [] OTHER -> {"==", "<=", ">="}
ComparingSafe(p, q) == ComparingAddresses(p.ptr, q.ptr)
ComparingNotNull(x, y) == ComparingAddresses(x, y)

(* The difference of two: q has to be in the range of p, not at its end.   *)
DifferenceOfSafe(p, q) == {p.ptr - a : a \in {b \in {q.ptr} : PointerInRange(p, b)}}
DifferenceOfNotNull(x, y) == x - y

(* What is destroyed is told by a flag that a converted pointer has not.   *)
Destroyed(p) == [p EXCEPT !.destroyed = TRUE]
Convert(p) == Safe(p.ptr, p.base, p.size)

OnSafePointers ==
  /\ ptrs.safe
  /\ \E h \in 1..2 :
       \/ \E p \in Steps(pointer(h)) : PointTo(h, p)
       \/ \E p \in Moves(pointer(h)) : PointTo(h, p) \/ PointTo(3 - h, p) \/ Dereference(p)
       \/ PointTo(3 - h, Convert(pointer(h)))
       \/ GetBase(pointer(h)) # NullPtr /\ PointTo(h, Destroyed(pointer(h)))

-------------------------------------------------------------------------------
(* not_null. It must not be moved out of all addresses, which ++ does not  *)
(* check. The others assert that what they come to is not null.            *)
OnNotNull ==
  /\ ~ptrs.safe
  /\ \E h \in 1..2 :
       \/ pointer(h) + 1 < AddressCount /\ PointTo(h, pointer(h) + 1)
       \/ \E n \in -PointerJump..PointerJump :
            /\ pointer(h) + n \in 1 .. AddressCount - 1
            /\ PointTo(h, pointer(h) + n) \/ PointTo(3 - h, pointer(h) + n)
       \/ \E p \in ArrayObjects : PointTo(h, p)

CheckedNext == OnSafePointers \/ OnNotNull

-------------------------------------------------------------------------------
(* However they are moved, copied and converted, a safe_pointer of a range *)
(* stays in it or at its end, and reads an object of the array; where two  *)
(* of the same range can be subtracted, the difference leads from one to   *)
(* the other, and has the sign that comparing them has. So it has for two  *)
(* not_null, which are never null.                                         *)
PointersStay ==
  IF ptrs.safe
  THEN /\ \A h \in 1..2 :
            LET p == pointer(h)
                q == pointer(3 - h) IN
            /\ p.base # NullPtr => p.ptr \in p.base .. (p.base + p.size)
            /\ p.base = q.base /\ p.size = q.size => \A n \in DifferenceOfSafe(p, q) :
                 CanMove(q, n) /\ (n < 0 <=> "<" \in ComparingSafe(p, q)) /\ (n = 0 <=> "==" \in ComparingSafe(p, q))
       /\ ptrs.read # <<>> => ptrs.read[2] \in ArrayObjects
  ELSE \A h \in 1..2 :
         LET n == DifferenceOfNotNull(pointer(h), pointer(3 - h))
             comparing == ComparingNotNull(pointer(h), pointer(3 - h)) IN
         pointer(h) # NullPtr /\ (n < 0 <=> "<" \in comparing) /\ (n = 0 <=> "==" \in comparing)
================================================================================
