--------------------------------- MODULE Vector --------------------------------
(***************************************************************************)
(* daw::vector (include/daw/vector.h): one vector, and what its operations *)
(* leave behind, also when a constructor or an assignment of an element,   *)
(* or the allocation of memory, throws in the middle of one.               *)
(*                                                                         *)
(* An operation is the list of what it does to elements, in order. If it   *)
(* throws, a beginning of that list has been done (Attempt); m_end, which  *)
(* ConstructTransaction sets when it is left in either way, has moved with *)
(* the elements constructed. An operation that needs more memory builds    *)
(* the new block aside in a split_buffer, which clears up by itself, and   *)
(* swaps the two at the end (Regrow).                                      *)
(*                                                                         *)
(* Elements can be copied. Where move_if_noexcept is used, elements whose  *)
(* move constructor may throw are copied; everywhere else they are moved.  *)
(***************************************************************************)
EXTENDS Integers, SequencesExt

CONSTANTS Values,      \* the values elements have
          Default,     \* the value of a default constructed one
          Unspecified, \* the value of one moved from
          Raw,         \* memory that holds no element
          MaxSize,     \* max_size( )
          MaxArgs      \* bound: how many elements are inserted at once

ASSUME Assumption ==
  /\ Default \in Values
  /\ Unspecified \notin Values /\ Raw \notin Values /\ Raw # Unspecified
  /\ MaxSize \in Nat \ {0} /\ MaxArgs \in Nat

VARIABLES
  v,       \* the vector: its block of memory, and m_end as an offset
  nothrow, \* whether the moves of the element type are noexcept
  last     \* the last operation: the part of the contents it was to replace,
           \* by what, and whether it threw

vars == <<v, nothrow, last>>

(* What an operation depends on: TLC need not tell other states apart.      *)
Object == <<v, nothrow>>

(* A block of memory; fault if an element was constructed over another, or *)
(* one that is not there was read, assigned to or destroyed.               *)
Block(cells, end) == [cells |-> cells, end |-> end, fault |-> FALSE]
Capacity(b) == Cardinality(DOMAIN b.cells)
Contents(b) == [i \in 1 .. b.end |-> b.cells[i - 1]]

capacity == Capacity(v)
size == v.end
contents == Contents(v)

(* A block that holds xs at its beginning.                                 *)
Holding(xs, cap) ==
  Block([i \in 0 .. cap - 1 |-> IF i < Len(xs) THEN xs[i + 1] ELSE Raw], Len(xs))

Null == Holding(<<>>, 0)

Init ==
  /\ v = Null
  /\ nothrow \in BOOLEAN
  /\ last = [op |-> "construct", from |-> 0, to |-> 0, by |-> <<>>, threw |-> FALSE]

-------------------------------------------------------------------------------
(* What is done to elements. An argument of an operation is a value, which *)
(* may be moved from, or refers to an element of the vector itself.        *)

Value(x) == [at |-> -1, x |-> x, move |-> FALSE]
ElementAt(i) == [at |-> i, x |-> Default, move |-> FALSE]
Moved(arg) == [arg EXCEPT !.move = TRUE]

Arguments ==
  LET given == {Value(x) : x \in Values}
  IN given \cup {Moved(g) : g \in given} \cup {ElementAt(i) : i \in 0 .. size - 1}

(* The ranges that are inserted and assigned.                              *)
Ranges == UNION {[1 .. n -> Values] : n \in 0 .. MaxArgs}

Read(b, arg) == IF arg.at < 0 THEN arg.x ELSE b.cells[arg.at]
ReadAll(args) == [k \in DOMAIN args |-> Read(v, args[k])]
AsValues(xs) == [k \in DOMAIN xs |-> Value(xs[k])]
AsMoved(xs) == [k \in DOMAIN xs |-> Moved(Value(xs[k]))]

Construct(arg) == [do |-> "construct", to |-> -1, arg |-> arg]
Assign(i, arg) == [do |-> "assign", to |-> i, arg |-> arg]
Destroy == [do |-> "destroy", to |-> -1, arg |-> Value(Default)]
Temporary(arg) == [do |-> "temporary", to |-> -1, arg |-> arg]
Rotate(first, middle) == [do |-> "rotate", to |-> first, arg |-> Moved(ElementAt(middle))]

ConstructAll(args) == [k \in DOMAIN args |-> Construct(args[k])]
DestroyLast(n) == [k \in 1 .. n |-> Destroy]

MayThrow(step) == step.do # "destroy" /\ (step.arg.move => ~ nothrow)

(* One that constructs does so at the end.                                 *)
Put(b, i, x, ok) ==
  [b EXCEPT !.cells = [@ EXCEPT ![i] = x], !.fault = @ \/ ~ ok \/ i \notin DOMAIN b.cells]

Without(b, step) ==
  IF step.arg.move /\ step.arg.at >= 0 THEN Put(b, step.arg.at, Unspecified, TRUE) ELSE b

Rotated(b, first, middle) ==
  LET n == b.end - first IN
  [b EXCEPT !.cells = [i \in DOMAIN @ |->
     IF i \in first .. b.end - 1 THEN @[first + ((i - first + middle - first) % n)] ELSE @[i]]]

Do(b, step) ==
  LET x == Read(b, step.arg) IN
  CASE step.do = "construct" ->
         [Put(Without(b, step), b.end, x, x # Raw /\ b.cells[b.end] = Raw) EXCEPT !.end = @ + 1]
    [] step.do = "assign" ->
         Put(Without(b, step), step.to, x, x # Raw /\ b.cells[step.to] # Raw)
    [] step.do = "destroy" ->
         [Put(b, b.end - 1, Raw, b.cells[b.end - 1] # Raw) EXCEPT !.end = @ - 1]
    [] step.do = "rotate" -> Rotated(b, step.to, step.arg.at)
    [] OTHER -> b

Run(b, steps) ==
  LET done[k \in 0 .. Len(steps)] == IF k = 0 THEN b ELSE Do(done[k - 1], steps[k])
  IN done[Len(steps)]

(* A rotation that throws leaves the elements it works on in any state.    *)
Broken(b, step) ==
  IF step.do # "rotate" THEN b
  ELSE [b EXCEPT !.cells = [i \in DOMAIN @ |->
                              IF i \in step.to .. b.end - 1 THEN Unspecified ELSE @[i]]]

-------------------------------------------------------------------------------
(* How an operation ends.                                                  *)

End(op, from, to, by, b, threw) ==
  /\ v' = b
  /\ last' = [op |-> op, from |-> from, to |-> to, by |-> by, threw |-> threw]
  /\ UNCHANGED nothrow

(* The steps are done in place, on a block b.                              *)
Attempt(op, from, to, by, b, steps) ==
  \/ End(op, from, to, by, Run(b, steps), FALSE)
  \/ \E k \in DOMAIN steps :
       /\ MayThrow(steps[k])
       /\ End(op, from, to, by, Broken(Run(b, SubSeq(steps, 1, k - 1)), steps[k]), TRUE)

(* recommend( new_size ); one beyond max_size( ) stands for length_error.  *)
Recommend(cap, new_size) ==
  IF new_size > MaxSize THEN new_size
  ELSE IF cap >= MaxSize \div 2 THEN MaxSize
  ELSE IF 2 * cap > new_size THEN 2 * cap ELSE new_size

(* Mutant of Regrow: the new block replaces the old one too soon.          *)
RegrowTooSoon(op, cap, at, xs) ==
  LET new == SubSeq(contents, 1, at) \o xs \o SubSeq(contents, at + 1, size) IN
  \/ cap <= MaxSize /\ End(op, at, at, xs, Holding(new, cap), FALSE)
  \/ cap <= MaxSize /\ End(op, at, at, xs, Holding(xs, cap), TRUE)

(* A split_buffer of capacity cap is filled: first xs, at the place where  *)
(* they belong, then the elements before and after that. Only when all is  *)
(* done do the vector and the buffer swap blocks (swap_out_circular_buffer *)
(* in both forms). Before that, the allocation or any copy may throw.      *)
Regrow(op, cap, at, xs) ==
  LET new == SubSeq(contents, 1, at) \o xs \o SubSeq(contents, at + 1, size) IN
  \/ cap <= MaxSize /\ End(op, at, at, xs, Holding(new, cap), FALSE)
  \/ End(op, at, at, xs, v, TRUE)

Recommended(n) == Recommend(capacity, size + n)

-------------------------------------------------------------------------------
(* Operations.                                                             *)

(* push_back in both forms, and emplace_back.                              *)
PushBack(arg) ==
  IF size < capacity
  THEN Attempt("push_back", size, size, ReadAll(<<arg>>), v, <<Construct(arg)>>)
  ELSE Regrow("push_back", Recommended(1), size, ReadAll(<<arg>>))

PopBack ==
  /\ size > 0
  /\ Attempt("pop_back", size - 1, size, <<>>, v, <<Destroy>>)

(* The value is moved if that cannot throw, and copied otherwise; only     *)
(* when this has been done is the element removed. (on_exit_success is     *)
(* assumed not to run while another exception is being handled.)           *)
PopBackValue ==
  LET back == ElementAt(size - 1) IN
  /\ size > 0
  /\ Attempt("pop_back_value", size - 1, size, <<>>, v,
             <<Temporary(IF nothrow THEN Moved(back) ELSE back), Destroy>>)

(* move_range: the elements first up to last go to to and beyond, those of *)
(* them that come to lie beyond the end, m_end, to new memory.             *)
MoveRange(first, past, to, m_end) ==
  LET n == m_end - to IN
  [k \in 1 .. past - first - n |-> Construct(Moved(ElementAt(first + n + k - 1)))]
    \o [k \in 1 .. n |-> Assign(m_end - k, Moved(ElementAt(first + n - k)))]

(* Mutant of Followed: the argument stays where it was.                    *)
NotFollowed(arg, at, n) == arg

(* An argument that refers to an element that was moved follows it.        *)
Followed(arg, at, n) == IF arg.at >= at THEN [arg EXCEPT !.at = @ + n] ELSE arg

(* Insertion into the room there is, in all its forms: those of args that  *)
(* go beyond the old end are constructed there first; the elements behind  *)
(* at then make room for the rest, if any.                                 *)
InsertSteps(end, at, args) ==
  LET n == Len(args)
      rest == IF n > end - at THEN end - at ELSE n
  IN ConstructAll(SubSeq(args, rest + 1, n))
       \o (IF rest = 0 THEN <<>> ELSE MoveRange(at, end, at + n, end + n - rest))
       \o [k \in 1 .. rest |-> Assign(at + k - 1, Followed(args[k], at, n))]

(* insert of one element, of n copies of one, and of a forward range.      *)
Insert(at, args) ==
  IF size + Len(args) <= capacity
  THEN Attempt("insert", at, at, ReadAll(args), v, InsertSteps(size, at, args))
  ELSE Regrow("insert", Recommended(Len(args)), at, ReadAll(args))

(* emplace constructs a temporary before it moves anything.                *)
Emplace(at, x) ==
  IF size < capacity
  THEN Attempt("emplace", at, at, <<x>>, v,
               (IF at = size THEN <<>> ELSE <<Temporary(Value(x))>>)
                 \o InsertSteps(size, at, <<IF at = size THEN Value(x) ELSE Moved(Value(x))>>))
  ELSE Regrow("emplace", Recommended(1), at, <<x>>)

(* insert of an input range: as much of it as there is room for is         *)
(* constructed at the end; the rest goes to a split_buffer, and a failure  *)
(* to do so, or to reserve memory, erases the elements at the end again.   *)
(* Then these are rotated into place, and the rest moved behind them.      *)
InsertInput(at, xs) ==
  LET room == IF Len(xs) > capacity - size THEN capacity - size ELSE Len(xs)
      here == ConstructAll(AsValues(SubSeq(xs, 1, room)))
      rest == SubSeq(xs, room + 1, Len(xs))
      rotate == IF at = size \/ room = 0 THEN <<>> ELSE <<Rotate(at, size)>>
      cap == Recommend(capacity, size + Len(xs))
      reserved == Holding(contents \o SubSeq(xs, 1, room), cap)
  IN IF rest = <<>>
     THEN Attempt("insert_input", at, at, xs, v, here \o rotate)
     ELSE \/ \E k \in DOMAIN here :
               End("insert_input", at, at, xs, Run(v, SubSeq(here, 1, k - 1)), TRUE)
          \/ End("insert_input", at, at, xs, v, TRUE)
          \/ /\ cap <= MaxSize
             /\ Attempt("insert_input", at, at, xs, reserved,
                        rotate \o InsertSteps(size + room, at + room, AsMoved(rest)))

(* erase in both forms.                                                    *)
Erase(from, to) ==
  /\ from < to
  /\ Attempt("erase", from, to, <<>>, v,
             [k \in 1 .. size - to |-> Assign(from + k - 1, Moved(ElementAt(to + k - 1)))]
               \o DestroyLast(to - from))

(* append, and resize to a larger size.                                    *)
AppendCopies(n, arg) ==
  LET args == [k \in 1 .. n |-> arg] IN
  IF size + n <= capacity
  THEN Attempt("append", size, size, ReadAll(args), v, ConstructAll(args))
  ELSE Regrow("append", Recommended(n), size, ReadAll(args))

(* Mutant of Shrink: m_end is set, and nothing destroyed.                  *)
ShrinkOnlyMovesEnd(n) == End("shrink", n, size, <<>>, [v EXCEPT !.end = n], FALSE)

(* resize to a smaller size, and clear.                                    *)
Shrink(n) == Attempt("shrink", n, size, <<>>, v, DestroyLast(size - n))

Reserve(n) == n > capacity /\ Regrow("reserve", n, size, <<>>)

(* shrink_to_fit catches what is thrown.                                   *)
ShrinkToFit ==
  /\ capacity > size
  /\ \E b \in {v, Holding(contents, size)} : End("shrink_to_fit", size, size, <<>>, b, FALSE)

(* assign: elements that are there are assigned to; or the block is given  *)
(* back before a larger one is allocated. The copy assignment does this.   *)
AssignAll(xs) ==
  LET n == Len(xs)
      both == IF n < size THEN n ELSE size
      cap == Recommend(0, n)
  IN IF n <= capacity
     THEN Attempt("assign", 0, size, xs, v,
                  [k \in 1 .. both |-> Assign(k - 1, Value(xs[k]))]
                    \o ConstructAll(AsValues(SubSeq(xs, both + 1, n)))
                    \o DestroyLast(size - both))
     ELSE \/ End("assign", 0, size, xs, Null, TRUE)
          \/ /\ cap <= MaxSize
             /\ Attempt("assign", 0, size, xs, Holding(<<>>, cap), ConstructAll(AsValues(xs)))

(* assign of an input range, by an emplace_back of each element after a    *)
(* clear( ): where that throws, the elements before it are in.             *)
AssignInput(xs) ==
  LET grown[k \in 0 .. Len(xs)] ==
        IF k = 0 THEN capacity ELSE IF k <= grown[k - 1] THEN grown[k - 1] ELSE Recommend(grown[k - 1], k)
  IN \E k \in 0 .. Len(xs) :
       /\ grown[k] <= MaxSize
       /\ End("assign", 0, size, xs, Holding(SubSeq(xs, 1, k), grown[k]), k < Len(xs))

Next ==
  \/ \E arg \in Arguments : PushBack(arg)
  \/ PopBack \/ PopBackValue \/ ShrinkToFit
  \/ \E at \in 0 .. size, arg \in Arguments : Insert(at, <<arg>>)
  \/ \E at \in 0 .. size, n \in 2 .. MaxArgs, arg \in Arguments :
       ~ arg.move /\ Insert(at, [k \in 1 .. n |-> arg])
  \/ \E at \in 0 .. size, x \in Values : Emplace(at, x)
  \/ \E at \in 0 .. size, xs \in Ranges : Insert(at, AsValues(xs)) \/ InsertInput(at, xs)
  \/ \E from, to \in 0 .. size : Erase(from, to)
  \/ \E n \in 1 .. MaxArgs, arg \in Arguments : ~ arg.move /\ AppendCopies(n, arg)
  \/ \E n \in 0 .. size : Shrink(n)
  \/ \E n \in 0 .. MaxSize + 1 : Reserve(n)
  \/ \E xs \in Ranges : AssignAll(xs) \/ AssignInput(xs)

Spec == Init /\ [][Next]_vars

-------------------------------------------------------------------------------
(* Properties.                                                             *)

(* Every variable has its type, and elements are where the vector says     *)
(* they are, below m_end and nowhere else, whatever has thrown: none is    *)
(* lost without being destroyed, destroyed twice, or used when not there.  *)
LifetimesOK ==
  /\ v.end \in 0 .. capacity /\ capacity <= MaxSize
  /\ v.cells \in [0 .. capacity - 1 -> Values \cup {Unspecified, Raw}]
  /\ \A i \in DOMAIN v.cells : v.cells[i] = Raw <=> i >= v.end
  /\ ~ v.fault
  /\ nothrow \in BOOLEAN

(* The contents are what the standard says of the operation, which puts by *)
(* in the place of the elements from up to to: with every split of the new *)
(* elements and the old ones over old and new memory, also when the value  *)
(* to insert is an element of the vector that the insertion moves.         *)
Spliced(s, from, to, by) == SubSeq(s, 1, from) \o by \o SubSeq(s, to + 1, Len(s))
DoesAsTold ==
  [][last'.threw \/ Contents(v') = Spliced(contents, last'.from, last'.to, last'.by)]_vars

(* An operation that throws has not touched what lies before its position; *)
(* and it has changed nothing at all if it put elements at the end, one    *)
(* only or into new memory, or was to take the last one off.               *)
ThrowsSafely ==
  [][last'.threw =>
       /\ SubSeq(Contents(v'), 1, last'.from) = SubSeq(contents, 1, last'.from)
       /\ last'.op \in {"push_back", "pop_back_value", "reserve"} \/
          (last'.op # "assign" /\ last'.op # "insert_input" /\ size + Len(last'.by) > capacity)
            => v' = v]_vars

(* "Exception safety: strong": an append that throws changes nothing.      *)
AppendIsStrong == [][last'.op = "append" /\ last'.threw => Contents(v') = contents]_vars
================================================================================
