------------------------------- MODULE Algorithms -------------------------------
(***************************************************************************)
(* The algorithms of daw_algorithm.h on ranges and sorted ranges. A range  *)
(* is a sequence; an iterator is the number of elements before it, and     *)
(* Len(r) is its end. The values are ordered by Before, which holds some   *)
(* different ones equivalent, as a Compare may. A call is one step.        *)
(***************************************************************************)
EXTENDS Integers, SequencesExt, FiniteSetsExt

CONSTANTS RangeValues, \* integers from 0
          ClassSize,   \* how many neighbours of them a Compare holds equivalent
          RangeLength, \* the greatest length of a range
          NeedleLength, \* and of the second range of a call
          PtrdiffMax   \* the greatest ptrdiff_t

ASSUME AlgorithmsAssumption == ClassSize > 0 /\ NeedleLength <= RangeLength /\ RangeLength < PtrdiffMax

VARIABLE asked \* a call: its ranges and value, and what came of it

(* A predicate is the set of the values that pass.                         *)
Passing(r, passing) == SelectSeq(r, LAMBDA x : x \in passing)

Before(x, y) == x \div ClassSize < y \div ClassSize
Ordered(r) == \A i, j \in DOMAIN r : i < j => ~Before(r[j], r[i])

-------------------------------------------------------------------------------
(* Where something is.                                                     *)

FindIf(r, passing) == Min({p \in 0..(Len(r) - 1) : r[p + 1] \in passing} \cup {Len(r)})
FindIfNot(r, passing) == FindIf(r, RangeValues \ passing)

(* The last of the elements at the front that pass.                        *)
FindLastOfFront(r, passing) ==
  LET n == FindIfNot(r, passing) IN IF n = 0 THEN Len(r) ELSE n - 1

SearchRange(r, s) ==
  Min({p \in 0..(Len(r) - Len(s)) : SubSeq(r, p + 1, p + Len(s)) = s} \cup {Len(r)})

RECURSIVE LowerBound(_, _, _, _)
LowerBound(r, v, first, last) ==
  IF first = last THEN first
  ELSE LET mid == first + (last - first) \div 2
       IN IF Before(r[mid + 1], v) THEN LowerBound(r, v, mid + 1, last) ELSE LowerBound(r, v, first, mid)

RECURSIVE UpperBound(_, _, _, _)
UpperBound(r, v, first, count) ==
  IF count <= 0 THEN first
  ELSE LET step == count \div 2
       IN IF ~Before(v, r[first + step + 1]) THEN UpperBound(r, v, first + step + 1, count - (step + 1))
          ELSE UpperBound(r, v, first, step)

RECURSIVE SearchBetween(_, _, _, _)
SearchBetween(r, v, first, last) ==
  IF first >= last THEN Len(r)
  ELSE LET mid == first + (last - first) \div 2
       IN IF Before(r[mid + 1], v) THEN SearchBetween(r, v, mid + 1, last)
          ELSE IF Before(v, r[mid + 1]) THEN SearchBetween(r, v, first, mid)
          ELSE mid

(* An empty range is refused with an exception.                            *)
Refused == -1
BinarySearch(r, v) == IF r = <<>> THEN Refused ELSE SearchBetween(r, v, 0, Len(r))

RECURSIVE MaxElement(_, _, _)
MaxElement(r, largest, p) ==
  IF p >= Len(r) THEN largest
  ELSE MaxElement(r, IF Before(r[largest + 1], r[p + 1]) THEN p ELSE largest, p + 1)

(* The elements two by two: the lesser may be the new minimum, the other   *)
(* the new maximum. One may be left over.                                  *)
WithMin(r, m, p) == IF Before(r[p + 1], r[m.min + 1]) THEN [m EXCEPT !.min = p] ELSE m
WithMaxKeepsFirst(r, m, p) == IF Before(r[m.max + 1], r[p + 1]) THEN [m EXCEPT !.max = p] ELSE m
WithMax(r, m, p) == IF ~Before(r[p + 1], r[m.max + 1]) THEN [m EXCEPT !.max = p] ELSE m

RECURSIVE MinMaxFrom(_, _, _)
MinMaxFrom(r, m, p) ==
  IF p >= Len(r) THEN m
  ELSE IF p + 1 = Len(r)
  THEN IF Before(r[p + 1], r[m.min + 1]) THEN WithMin(r, m, p) ELSE WithMax(r, m, p)
  ELSE IF Before(r[p + 2], r[p + 1]) THEN MinMaxFrom(r, WithMax(r, WithMin(r, m, p + 1), p), p + 2)
  ELSE MinMaxFrom(r, WithMax(r, WithMin(r, m, p), p + 1), p + 2)

MinMaxElement(r) ==
  IF Len(r) < 2 THEN [min |-> 0, max |-> 0]
  ELSE MinMaxFrom(r, IF Before(r[2], r[1]) THEN [min |-> 1, max |-> 0] ELSE [min |-> 0, max |-> 1], 2)

IsSortedUntil(r) == Min({p \in 1..(Len(r) - 1) : Before(r[p + 1], r[p])} \cup {Len(r)})

(* One before the place that is_sorted_until finds.                        *)
FindUnsorted(r) == IF IsSortedUntil(r) = Len(r) THEN Len(r) ELSE IsSortedUntil(r) - 1

(* An iterator is moved no further than the ends of its container. A count *)
(* of size_t is made a ptrdiff_t first. The least ptrdiff_t has no         *)
(* negative: this overflows, by which it stays what it is where integers   *)
(* wrap, and the iterator leaves the container.                            *)
PtrdiffMin == -(PtrdiffMax + 1)
NegatedPtrdiff(d) == IF d = PtrdiffMin THEN d ELSE -d
SafeAdvance(it, d, size) == IF d < 0 THEN it - Min({it, NegatedPtrdiff(d)}) ELSE it + Min({size - it, d})
BeginAt(size, n) == SafeAdvance(0, IF n > PtrdiffMax THEN n - 2 * (PtrdiffMax + 1) ELSE n, size)

-------------------------------------------------------------------------------
(* Two ranges against each other.                                          *)

(* The first place where two elements are not alike, or one ends.          *)
Apart(r, s, alike) ==
  LET both == Min({Len(r), Len(s)})
  IN Min({i \in 1..both : <<r[i], s[i]>> \notin alike} \cup {both + 1})

Pairs == RangeValues \X RangeValues
Same == {p \in Pairs : p[1] = p[2]}
Equivalents == {p \in Pairs : ~Before(p[1], p[2]) /\ ~Before(p[2], p[1])}

LexicographicalCompare(r, s) ==
  LET i == Apart(r, s, Equivalents)
  IN IF i \in DOMAIN r /\ i \in DOMAIN s THEN Before(r[i], s[i]) ELSE Len(r) < Len(s)

CompareRange(r, s) ==
  LET i == Apart(r, s, Same)
  IN IF i \in DOMAIN r /\ i \in DOMAIN s THEN IF r[i] < s[i] THEN -1 ELSE 1
     ELSE IF Len(r) = Len(s) THEN 0 ELSE IF Len(r) < Len(s) THEN -1 ELSE 1

EqualRanges(r, s) == LET i == Apart(r, s, Same) IN i > Len(r) /\ i > Len(s)
(* True where every element differs, and not where some do.                *)
NotEqualRanges(r, s) == LET i == Apart(r, s, Pairs \ Same) IN i > Len(r) /\ i > Len(s)

RECURSIVE SetIntersection(_, _)
SetIntersection(r, s) ==
  IF r = <<>> \/ s = <<>> THEN <<>>
  ELSE IF Before(Head(r), Head(s)) THEN SetIntersection(Tail(r), s)
  ELSE IF Before(Head(s), Head(r)) THEN SetIntersection(r, Tail(s))
  ELSE <<Head(r)>> \o SetIntersection(Tail(r), Tail(s))

-------------------------------------------------------------------------------
(* What rewrites a range.                                                  *)

(* What stays moves forward, from position i on, to position first. What   *)
(* consume_if has its function see is what stays, too.                     *)
RECURSIVE MoveForward(_, _, _, _)
MoveForward(r, drop, first, i) ==
  IF i >= Len(r) THEN [r |-> r, last |-> first]
  ELSE IF r[i + 1] \in drop THEN MoveForward(r, drop, first, i + 1)
  ELSE MoveForward([r EXCEPT ![first + 1] = r[i + 1]], drop, first + 1, i + 1)

RemoveIf(r, drop) == LET first == FindIf(r, drop) IN MoveForward(r, drop, first, first + 1)

RECURSIVE ReverseBetween(_, _, _)
ReverseBetween(r, first, last) ==
  IF first = last THEN r
  ELSE LET after == [r EXCEPT ![first + 1] = r[last + 1], ![last + 1] = r[first + 1]]
       IN IF first + 1 = last THEN after ELSE ReverseBetween(after, first + 1, last - 1)

ReverseRange(r) == IF r = <<>> THEN r ELSE ReverseBetween(r, 0, Len(r) - 1)

StablePartition(r, passing) == Passing(r, passing) \o Passing(r, RangeValues \ passing)

Gather(r, target, passing) ==
  LET front == SubSeq(r, 1, target)
      back == SubSeq(r, target + 1, Len(r))
  IN [r |-> StablePartition(front, RangeValues \ passing) \o StablePartition(back, passing),
      first |-> target - Len(Passing(front, passing)),
      last |-> target + Len(Passing(back, passing))]

(* count views: all but the last of one size, as far as there is more, and *)
(* the last with the rest.                                                 *)
PieceSize(r, count) == Max({1, Len(r) \div count})
PartitionRange(r, count) ==
  LET sz == PieceSize(r, count)
  IN [i \in 1..count |-> SubSeq(r, Min({Len(r), sz * (i - 1)}) + 1,
                                IF i = count THEN Len(r) ELSE Min({Len(r), sz * i}))]

(* What follows the last of the separators is not among the pieces.        *)
RECURSIVE SplitRange(_, _, _)
SplitRange(r, v, piece) ==
  IF r = <<>> THEN <<>>
  ELSE IF Head(r) = v THEN <<piece>> \o SplitRange(Tail(r), v, <<>>)
  ELSE SplitRange(Tail(r), v, Append(piece, Head(r)))

CopyIf(r, passing) == Passing(r, passing)
TransformIf(r, passing, becomes) ==
  LET kept == Passing(r, passing) IN [i \in DOMAIN kept |-> becomes[kept[i]]]

-------------------------------------------------------------------------------
Calls(length) == UNION {[1..n -> RangeValues] : n \in 0..length}

Answer(call, result) == asked' = [asked EXCEPT !.call = call, !.result = result]

(* The calls that need a sorted range.                                     *)
OnSorted ==
  /\ Ordered(asked.r)
  /\ LET r == asked.r
         v == asked.v
     IN \/ Answer("bounds", [lower |-> LowerBound(r, v, 0, Len(r)), upper |-> UpperBound(r, v, 0, Len(r)),
                             found |-> BinarySearch(r, v)])
        \/ Ordered(asked.s) /\ Answer("intersection", SetIntersection(r, asked.s))

OnTwo ==
  LET r == asked.r
      s == asked.s
  IN \/ Answer("search", SearchRange(r, s))
     \/ Answer("compare", [less |-> LexicographicalCompare(r, s), greater |-> LexicographicalCompare(s, r),
                           sign |-> CompareRange(r, s), equal |-> EqualRanges(r, s),
                           differ |-> NotEqualRanges(r, s)])

Scan ==
  LET r == asked.r
      is == {asked.v}
  IN \/ Answer("find", [if |-> FindIf(r, is), ifNot |-> FindIfNot(r, is), lastOf |-> FindLastOfFront(r, is)])
     \/ Answer("extremes", MinMaxElement(r) @@ [largest |-> MaxElement(r, 0, 1)])
     \/ r # <<>> /\ Answer("sorted", [until |-> IsSortedUntil(r), unsorted |-> FindUnsorted(r)])
     \/ \E n \in {m \in PtrdiffMin..(2 * PtrdiffMax + 1) : m < 0 \/ m <= Len(r) + 1 \/ m > PtrdiffMax} :
          \/ n >= 0 /\ Answer("begin_at", [n |-> n, at |-> BeginAt(Len(r), n)])
          \/ n <= PtrdiffMax /\ \E it \in 0..Len(r) :
               Answer("advance", [n |-> n, from |-> it, at |-> SafeAdvance(it, n, Len(r))])

Rewrite ==
  LET r == asked.r
      is == {asked.v}
  IN \/ Answer("remove", RemoveIf(r, is))
     \/ Answer("reverse", ReverseRange(r))
     \/ \E target \in 0..Len(r) : Answer("gather", Gather(r, target, is) @@ [target |-> target])
     \/ \E count \in 1..(RangeLength + 1) : Answer("partition", PartitionRange(r, count))
     \/ Answer("split", SplitRange(r, asked.v, <<>>))
     \/ Answer("copy", [copied |-> CopyIf(r, is),
                         transformed |-> TransformIf(r, is, [x \in RangeValues |-> x + 1])])

Unasked(r, s, v) == [call |-> "none", r |-> r, s |-> s, v |-> v, result |-> <<>>]

AlgorithmsUnasked ==
  asked \in {Unasked(r, s, v) : r \in Calls(RangeLength), s \in Calls(NeedleLength), v \in RangeValues}

(* A call on one range has no second one, and a call without a value has   *)
(* the least.                                                              *)
AlgorithmsNext ==
  /\ asked.call = "none"
  /\ \/ asked.s = <<>> /\ (OnSorted \/ Scan \/ Rewrite)
     \/ asked.v = Min(RangeValues) /\ (OnSorted \/ OnTwo)

CallsSpec == AlgorithmsUnasked /\ [][AlgorithmsNext]_asked

-------------------------------------------------------------------------------
Asked(call) == asked.call = call

(* The elements of r in classes: how many of each.                         *)
InClass(r, c) == Cardinality({i \in DOMAIN r : r[i] \div ClassSize = c})

(* The calls that compare agree with each other and with the order.        *)
(* lower_bound and upper_bound enclose exactly what is equivalent to the   *)
(* value, and binary_search finds one of it if there is any, or throws for *)
(* a range without elements. The minimum is the first of the least, the    *)
(* maximum of minmax_element the last and that of max_element the first of *)
(* the greatest. set_intersection has of each class as many as the range   *)
(* with fewer, in order. Of two ranges at most one is less, and neither is *)
(* exactly when all is equivalent. search finds the first place. not_equal *)
(* does not say that equal is false, only that all elements differ.        *)
(* begin_at( c, n ) is the end for any n past it up to the greatest        *)
(* ptrdiff_t, and beyond that the beginning; safe_advance stops at both    *)
(* ends. Nothing is said of the one distance, the least ptrdiff_t, that    *)
(* overflows when negated.                                                 *)
CallsAgree ==
  LET r == asked.r
      s == asked.s
      v == asked.v
      x == asked.result
      Equivalent(y, z) == ~Before(y, z) /\ ~Before(z, y)
  IN /\ Asked("bounds") =>
          /\ \A p \in 0..(Len(r) - 1) : Equivalent(r[p + 1], v) <=> p \in x.lower..(x.upper - 1)
          /\ x.lower <= x.upper
          /\ IF r = <<>> THEN x.found = Refused
             ELSE IF x.lower = x.upper THEN x.found = Len(r) ELSE x.found \in x.lower..(x.upper - 1)
     /\ Asked("extremes") /\ r # <<>> =>
          LET least == {p \in 0..(Len(r) - 1) : \A i \in DOMAIN r : ~Before(r[i], r[p + 1])}
              greatest == {p \in 0..(Len(r) - 1) : \A i \in DOMAIN r : ~Before(r[p + 1], r[i])}
          IN x = [min |-> Min(least), max |-> Max(greatest), largest |-> Min(greatest)]
     /\ Asked("sorted") =>
          /\ Ordered(SubSeq(r, 1, x.until))
          /\ x.until = Len(r) <=> Ordered(r)
          /\ x.unsorted = x.until \/ Before(r[x.unsorted + 2], r[x.unsorted + 1])
     /\ Asked("intersection") =>
          /\ Ordered(x)
          /\ \A c \in {e \div ClassSize : e \in RangeValues} : InClass(x, c) = Min({InClass(r, c), InClass(s, c)})
     /\ Asked("compare") =>
          /\ ~(x.less /\ x.greater)
          /\ ~x.less /\ ~x.greater <=> Len(r) = Len(s) /\ \A i \in DOMAIN r : Equivalent(r[i], s[i])
          /\ x.equal <=> r = s
          /\ x.equal <=> x.sign = 0
          /\ x.differ /\ x.equal => r = <<>>
     /\ Asked("search") => IF \E p \in 0..Len(r) : IsPrefix(s, SubSeq(r, p + 1, Len(r)))
                           THEN \A p \in 0..x : IsPrefix(s, SubSeq(r, p + 1, Len(r))) <=> p = x
                           ELSE x = Len(r)
     /\ Asked("begin_at") /\ x.n # PtrdiffMax + 1 => x.at = IF x.n <= PtrdiffMax THEN Min({x.n, Len(r)}) ELSE 0
     /\ Asked("advance") /\ x.n # PtrdiffMin => x.at - x.from = x.n \/ x.at = IF x.n < 0 THEN 0 ELSE Len(r)

(* The calls that move elements lose none that they should keep, and keep  *)
(* them in their order: what remove leaves is what was not to go; gather   *)
(* brings together, around the target, what passes; the views of           *)
(* partition_range are the range when put together, whatever the count;    *)
(* the pieces of split are, with the separators, the range up to the last  *)
(* separator.                                                              *)
NothingOutOfPlace ==
  LET r == asked.r
      v == asked.v
      x == asked.result
      Is(e) == e = v
      IsNot(e) == e # v
  IN /\ Asked("remove") => SubSeq(x.r, 1, x.last) = SelectSeq(r, IsNot)
     /\ Asked("reverse") => \A i \in DOMAIN r : x[Len(r) + 1 - i] = r[i]
     /\ Asked("gather") =>
          /\ x.target \in x.first..x.last
          /\ \A i \in DOMAIN r : Is(x.r[i]) <=> i \in (x.first + 1)..x.last
          /\ SelectSeq(x.r, IsNot) = SelectSeq(r, IsNot)
     /\ Asked("partition") => FlattenSeq(x) = r
     /\ Asked("split") =>
          LET pieces == FlattenSeq([i \in DOMAIN x |-> Append(x[i], v)])
          IN IsPrefix(pieces, r) /\ \A i \in (Len(pieces) + 1)..Len(r) : r[i] # v
     /\ Asked("find") => /\ x.if = Len(r) \/ Is(r[x.if + 1])
                         /\ \A p \in 0..(x.if - 1) : ~Is(r[p + 1])
                         /\ x.lastOf # Len(r) => x.lastOf + 1 = x.ifNot

(* Both: what the calls answer, and what they leave.                       *)
AlgorithmsDoAsNamed == CallsAgree /\ NothingOutOfPlace
================================================================================
