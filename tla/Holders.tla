-------------------------------- MODULE Holders ---------------------------------
(***************************************************************************)
(* Objects that hold one of two things or nothing: expected_t, checked_    *)
(* expected_t of a value and of void, union_pair_t, value_ptr and function *)
(* of daw_stack_function. The value (type_0 of the pair, the callable) is  *)
(* "first", the exception (type_1) is "second". The types in the pair and  *)
(* the callables have no destructor to run: the pair assigns to a member   *)
(* it has not constructed, and function copies the bytes of a callable.    *)
(* And daw::optional, which holds one thing or nothing, and is compared.   *)
(***************************************************************************)
EXTENDS Integers

CONSTANTS HeldValues, Expected, Unexpected, \* values, the exceptions a checked one lists, the others
          Moved,                            \* a value that was moved away
          Nil

HolderKinds == {"expected", "checked", "checked void", "union pair", "value ptr", "function"}
Errors == Expected \cup Unexpected
NoContent == [first |-> Nil, second |-> Nil]
First(v) == [NoContent EXCEPT !.first = v]
Second(e) == [NoContent EXCEPT !.second = e]

VARIABLE holders \* the kind, the two objects, and whether the void one was assigned over its exception

held(h) == holders.at[h]
kindIs(kinds) == holders.kind \in kinds

HoldersInit ==
  \E k \in HolderKinds : holders = [kind |-> k, at |-> [h \in 1..2 |-> NoContent], both |-> FALSE]

Now(h, content) == holders' = [holders EXCEPT !.at[h] = content]

TwoSided == kindIs({"expected", "checked", "checked void", "union pair"})

(* Mutant of SetValue: the exception stays.                                *)
SetValueOnly(h, v) == Now(h, [held(h) EXCEPT !.first = v])

(* operator=( value ), set_value, and function = callable.                 *)
SetValue(h, v) == Now(h, First(v))

(* operator=( exception_ptr ), set_exception. Only the void one looks      *)
(* whether the exception is one of the listed, and throws before it        *)
(* changes.                                                                *)
SetException(h, e) ==
  /\ TwoSided
  /\ kindIs({"checked void"}) => e \in Expected
  /\ Now(h, Second(e))

(* The value's own assignment throws: the pair has no type by then; the    *)
(* others keep what they held.                                             *)
StoreThrows(h) == kindIs({"union pair"}) /\ Now(h, NoContent)

Clear(h) == kindIs({"expected", "value ptr"}) /\ Now(h, NoContent)

(* The void one keeps its exception when it is assigned one without.       *)
AssignVoid(h, rhs) ==
  holders' = [holders EXCEPT
    !.at[h] = [first |-> rhs.first, second |-> IF rhs.second # Nil THEN rhs.second ELSE @.second],
    !.both = @ \/ (held(h).second # Nil /\ rhs.second = Nil)]

Assign2(h, rhs) == IF kindIs({"checked void"}) THEN AssignVoid(h, rhs) ELSE Now(h, rhs)

(* from_code, assigned to an object: what the function returns or throws.  *)
(* An exception that is not listed passes on. expected_from_code<Result>   *)
(* calls the function and gives back an empty object.                      *)
FromCode(h, outcome) ==
  /\ kindIs({"expected", "checked", "checked void"})
  /\ kindIs({"checked", "checked void"}) => outcome.second \notin Unexpected
  /\ Assign2(h, outcome)

ExpectedFromCode(h) == kindIs({"expected"}) /\ Now(h, NoContent)

(* Another object made from this one. Of one of void that is not const,    *)
(* the constructor from anything is the better match, and means a value.   *)
CopyConstruct2(h, from) ==
  /\ kindIs({"value ptr"}) => held(from) # NoContent
  /\ \/ Now(h, held(from))
     \/ kindIs({"checked void"}) /\ \E v \in HeldValues : Now(h, First(v))

(* value_ptr's does not compile.                                           *)
CopyAssign2(h, from) == ~kindIs({"value ptr"}) /\ Assign2(h, held(from))

(* What is left behind: a value that was moved away, no exception, no      *)
(* object, or, of a callable, its bytes.                                   *)
MovedFrom(x) == IF x = Nil THEN Nil ELSE Moved
LeftBehind(c) ==
  CASE kindIs({"function"}) -> c
    [] kindIs({"value ptr", "checked void"}) -> NoContent
    [] kindIs({"checked"}) -> First(MovedFrom(c.first))
    [] OTHER -> [first |-> MovedFrom(c.first), second |-> MovedFrom(c.second)]

(* By the constructor; the void one has no assignment that moves, and is   *)
(* copied by it.                                                           *)
Move2(h, from) ==
  holders' = [holders EXCEPT !.at[h] = held(from), !.at[from] = LeftBehind(@)]

HoldersNext ==
  /\ ~holders.both
  /\ \E h \in 1..2 :
       \/ StoreThrows(h) \/ Clear(h) \/ ExpectedFromCode(h)
       \/ \E v \in HeldValues : SetValue(h, v) \/ FromCode(h, First(v))
       \/ \E e \in Errors : SetException(h, e) \/ FromCode(h, Second(e))
       \/ CopyConstruct2(h, 3 - h) \/ CopyAssign2(h, 3 - h) \/ Move2(h, 3 - h)

HoldersSpec == HoldersInit /\ [][HoldersNext]_holders

(* Through assignments, copies, moves and functions that throw, no object  *)
(* has a value and an exception at once, and the one of void has none that *)
(* is not listed; until one of void that has an exception is assigned one  *)
(* that has none, which leaves it both.                                    *)
ValueOrException ==
  ~holders.both =>
    \A h \in 1..2 : /\ held(h).first = Nil \/ held(h).second = Nil
                    /\ kindIs({"checked void"}) => held(h).second \in Expected \cup {Nil}
-------------------------------------------------------------------------------
(* daw::optional of a value, over a std::optional, and of a reference,     *)
(* over a std::optional of a pointer, and their comparisons: with each     *)
(* other, with nullopt and with a value; and those of value_ptr, which may *)
(* be empty too. Values are numbers, for their order.                      *)

CONSTANTS OptionalValues, Nullopt

ASSUME OptionalsAssumption == OptionalValues \subseteq Nat /\ 0 \in OptionalValues /\ Nullopt \notin Nat

VARIABLE opts \* of values or of references; what each holds or refers to; the objects referred to

heldBy(h) == opts.at[h]
HasValue(x) == x # Nullopt
Hold(h, x) == opts' = [opts EXCEPT !.at[h] = x]

OptionalsInit ==
  \E kind \in {"value", "reference"}, objects \in [1..2 -> OptionalValues] :
    opts = [kind |-> kind, at |-> [h \in 1..2 |-> Nullopt], objects |-> objects]

ResetOptional(h) == Hold(h, Nullopt)
SwapOptionals == opts' = [opts EXCEPT !.at = [h \in 1..2 |-> heldBy(3 - h)]]
CopyOptional(h) == Hold(h, heldBy(3 - h))

(* emplace and assignments, also through what * and value( ) refer to. An  *)
(* emplace that throws has already destroyed the value; of one that was    *)
(* moved away, anything may be left.                                       *)
OnValues ==
  /\ opts.kind = "value"
  /\ \E h \in 1..2 :
       \/ \E v \in OptionalValues : Hold(h, v)
       \/ Hold(h, Nullopt) \* emplace throws
       \/ /\ HasValue(heldBy(3 - h))
          /\ \E left \in OptionalValues : opts' = [opts EXCEPT !.at = [@ EXCEPT ![h] = heldBy(3 - h), ![3 - h] = left]]

(* Nothing but another optional, or nullopt, can be assigned to one of a   *)
(* reference: it is bound when it is constructed.                          *)
OnReferences ==
  /\ opts.kind = "reference"
  /\ \E h \in 1..2 :
       \/ \E object \in 1..2 : Hold(h, object)
       \/ HasValue(heldBy(h)) /\ \E v \in OptionalValues : opts' = [opts EXCEPT !.objects[heldBy(h)] = v]

OptionalsNext ==
  \/ OnValues \/ OnReferences \/ SwapOptionals
  \/ \E h \in 1..2 : ResetOptional(h) \/ CopyOptional(h)

-------------------------------------------------------------------------------
(* Comparisons, of what they find: values of the two, or Nullopt.          *)

Holds(op, x, y) ==
  CASE op = "==" -> x = y
    [] op = "!=" -> x # y
    [] op = "<" -> x < y
    [] op = "<=" -> x <= y
    [] op = ">" -> x > y
    [] op = ">=" -> x >= y

Comparisons == {"==", "!=", "<", "<=", ">", ">="}

CompareOptionals(op, x, y) ==
  IF HasValue(x) /\ HasValue(y) THEN Holds(op, x, y)
  ELSE CASE op = "==" -> HasValue(x) = HasValue(y)
         [] op = "!=" -> HasValue(x) # HasValue(y)
         [] op = "<" -> HasValue(y)
         [] op = "<=" -> ~HasValue(x)
         [] op = ">" -> HasValue(x)
         [] op = ">=" -> ~HasValue(y)

(* nullopt is on the right, or, reversed, on the left.                     *)
CompareNullopt(op, reversed, x) ==
  CASE op = "==" -> ~HasValue(x)
    [] op = "!=" -> HasValue(x)
    [] op = "<" -> reversed /\ HasValue(x)
    [] op = "<=" -> reversed \/ ~HasValue(x)
    [] op = ">" -> ~reversed /\ HasValue(x)
    [] op = ">=" -> ~reversed \/ HasValue(x)

(* So is the value; the last of them compares the other way around, and    *)
(* with >.                                                                 *)
CompareValue(op, reversed, x, v) ==
  IF HasValue(x)
  THEN IF ~reversed THEN Holds(op, x, v) ELSE IF op = ">=" THEN x > v ELSE Holds(op, v, x)
  ELSE op = "!=" \/ op \in (IF reversed THEN {">", ">="} ELSE {"<", "<="})

(* value_ptr: less, the same or greater, and the operators by that.        *)
CompareValuePtr(x, y) ==
  IF HasValue(x) /\ HasValue(y) THEN IF x < y THEN -1 ELSE IF y < x THEN 1 ELSE 0
  ELSE IF HasValue(y) THEN -1 ELSE IF HasValue(x) THEN 1 ELSE 0
CompareValuePtrs(op, x, y) == Holds(op, CompareValuePtr(x, y), 0)

-------------------------------------------------------------------------------
ComparedBy(h) ==
  IF opts.kind = "reference" /\ HasValue(heldBy(h)) THEN opts.objects[heldBy(h)] ELSE heldBy(h)

(* Whatever two optionals hold or refer to, each of the eighteen           *)
(* comparisons, and each of the six of two value_ptr, answers as if an     *)
(* optional were a value, and none, like nullopt, were less than all       *)
(* others: but for >= of nullopt or a value with an optional on its right. *)
OptionalsOrdered ==
  LET Rank(x) == IF HasValue(x) THEN x ELSE -1
      Ordered(op, reversed, x, y) == IF reversed THEN Holds(op, y, x) ELSE Holds(op, x, y) IN
  \A op \in Comparisons, h \in 1..2 :
    /\ LET x == ComparedBy(h)
           y == ComparedBy(3 - h)
       IN \A compared \in {CompareOptionals(op, x, y), CompareValuePtrs(op, x, y)} : compared <=> Holds(op, Rank(x), Rank(y))
    /\ \A reversed \in BOOLEAN : ~(op = ">=" /\ reversed) =>
         /\ CompareNullopt(op, reversed, ComparedBy(h)) <=> Ordered(op, reversed, Rank(ComparedBy(h)), -1)
         /\ \A v \in OptionalValues :
              CompareValue(op, reversed, ComparedBy(h), v) <=> Ordered(op, reversed, Rank(ComparedBy(h)), v)
================================================================================
