---------------------------------- MODULE Loops ----------------------------------
(***************************************************************************)
(* The loops of daw_algorithm.h and its parts, of the calls on whole       *)
(* containers and of the fillers of a vector. A loop reads one element     *)
(* after the other and may write what it makes of it to a second place of  *)
(* the same memory: a sequence of which [first, last) is read and what     *)
(* starts at out is written. Values, ranges and Before are those of        *)
(* Algorithms. A call is one step.                                         *)
(***************************************************************************)
EXTENDS Algorithms

CONSTANT CountMax \* one more than the greatest result of a count_if

ASSUME LoopsAssumption == CountMax > 0

VARIABLE pass \* a call: the memory and what came of it

(* What a moved-from element holds.                                        *)
Gone == -1

Next1 == [x \in RangeValues |-> (x + 1) % Cardinality(RangeValues)]
Itself == [x \in RangeValues |-> x]
Sum == [p \in RangeValues \X RangeValues |-> (p[1] + p[2]) % Cardinality(RangeValues)]

-------------------------------------------------------------------------------
(* Loops that write.                                                       *)

RECURSIVE WriteEach(_, _, _, _, _, _)
WriteEach(m, first, last, out, passing, becomes) ==
  IF first = last THEN m
  ELSE IF m[first + 1] \notin passing THEN WriteEach(m, first + 1, last, out, passing, becomes)
  ELSE WriteEach([m EXCEPT ![out + 1] = becomes[m[first + 1]]], first + 1, last, out + 1, passing, becomes)

CopyRange(m, first, last, out) == WriteEach(m, first, last, out, RangeValues, Itself)
CopyN(m, first, out, count) == CopyRange(m, first, first + count, out)
CopyPassing(m, first, last, out, passing) == WriteEach(m, first, last, out, passing, Itself)
CopyContainer(m, first, last, out) == CopyRange(m, first, last, out)
CopyContainerN(m, first, last, out, count) == CopyN(m, first, out, Min({count, last - first}))
CopyContainerIf(m, first, last, out, passing) == CopyPassing(m, first, last, out, passing)
TransformRange(m, first, last, out, becomes) == WriteEach(m, first, last, out, RangeValues, becomes)
TransformN(m, first, out, count, becomes) == TransformRange(m, first, first + count, out, becomes)
TransformIt(m, first, last, out, passing, becomes) == WriteEach(m, first, last, out, passing, becomes)
TransformContainer(m, first, last, becomes) == TransformRange(m, first, last, first, becomes)
MapRange(m, first, last, out, becomes) == TransformRange(m, first, last, out, becomes)

(* The iterators of several ranges go on together.                         *)
RECURSIVE CartesianProductMap(_, _, _, _, _)
CartesianProductMap(m, first, last, second, out) ==
  IF first = last THEN m
  ELSE CartesianProductMap([m EXCEPT ![out + 1] = Sum[m[first + 1], m[second + 1]]],
                           first + 1, last, second + 1, out + 1)

TransformMany(m, first, last, second, out) == CartesianProductMap(m, first, last, second, out)
MapTwo(m, first, last, second, out) == CartesianProductMap(m, first, last, second, out)
CartesianProduct(m, first, last, second) ==
  [i \in 1..(last - first) |-> <<m[first + i], m[second + i]>>]

RECURSIVE MoveRange(_, _, _, _)
MoveRange(m, first, last, out) ==
  IF first = last THEN m
  ELSE MoveRange([m EXCEPT ![out + 1] = m[first + 1], ![first + 1] = Gone], first + 1, last, out + 1)
MoveN(m, first, out, count) == MoveRange(m, first, first + count, out)

RECURSIVE SumsFrom(_, _, _, _, _)
SumsFrom(m, sum, first, last, out) ==
  IF first = last THEN m
  ELSE LET next == sum + m[first + 1] IN SumsFrom([m EXCEPT ![out + 1] = next], next, first + 1, last, out + 1)
PartialSum(m, first, last, out) ==
  IF first = last THEN m
  ELSE SumsFrom([m EXCEPT ![out + 1] = m[first + 1]], m[first + 1], first + 1, last, out + 1)

FillN(m, first, count, v) == [i \in DOMAIN m |-> IF i \in (first + 1)..(first + count) THEN v ELSE m[i]]
Fill(m, first, last, v) == FillN(m, first, last - first, v)
Iota(m, first, last, v) == [i \in DOMAIN m |-> IF i \in (first + 1)..last THEN v + i - first - 1 ELSE m[i]]

(* remove( first, last, value ) where value is the element at place at: it *)
(* is compared with what is there by then.                                 *)
RECURSIVE RemoveFrom(_, _, _, _)
RemoveFrom(m, at, first, i) ==
  IF i >= Len(m) THEN [r |-> m, last |-> first]
  ELSE IF m[i + 1] = m[at + 1] THEN RemoveFrom(m, at, first, i + 1)
  ELSE RemoveFrom([m EXCEPT ![first + 1] = m[i + 1]], at, first + 1, i + 1)
RemoveElement(m, at) == LET first == FindIf(m, {m[at + 1]}) IN RemoveFrom(m, at, first, first + 1)

(* consume_if shows its function the elements that it keeps, after the     *)
(* first one that passes.                                                  *)
ConsumeIf(r, passing) ==
  [seen |-> Passing(SubSeq(r, FindIf(r, passing) + 2, Len(r)), RangeValues \ passing)] @@ RemoveIf(r, passing)

EraseRemove(r, passing) == Passing(r, RangeValues \ passing)
AppendTo(source, destination) == destination \o source

(* What iota_op constructs in room for sz elements, and the size it says.  *)
RECURSIVE IotaValuesFrom(_, _, _)
IotaValuesFrom(v, step, last) == IF v < last THEN <<v>> \o IotaValuesFrom(v + step, step, last) ELSE <<>>
IotaOp(first, step, sz) == [made |-> IotaValuesFrom(first, step, first + sz * step), size |-> sz]

-------------------------------------------------------------------------------
(* Loops that ask.                                                         *)

SatisfiesOne(v, preds) == \E i \in DOMAIN preds : v \in preds[i]
SatisfiesAll(v, preds) == \A i \in DOMAIN preds : v \in preds[i]
SomeSatisfiesOne(r, preds) == \E i \in DOMAIN r : SatisfiesOne(r[i], preds)
AllSatisfyAll(r, preds) == \A i \in DOMAIN r : SatisfiesAll(r[i], preds)

AllOf(r, passing) == FindIfNot(r, passing) = Len(r)
AnyOf(r, passing) == FindIf(r, passing) # Len(r)
NoneOf(r, passing) == FindIf(r, passing) = Len(r)
ContainsIf(r, passing) == \E i \in DOMAIN r : r[i] \in passing
ContainsTheValue(r, v) == ContainsIf(r, {v})
ContainerContains(r, passing) == FindIf(r, passing) # Len(r)
FindInContainer(r, passing) == FindIf(r, passing)
CountThat(r, passing) == Len(Passing(r, passing)) % CountMax

(* The optional index is the set of it, or empty.                          *)
FindIndexIf(r, passing) == IF ContainsIf(r, passing) THEN {FindIf(r, passing)} ELSE {}
FindIndex(r, v) == FindIndexIf(r, {v})
FindIndexOfIf(r, passing) == FindIf(r, passing)
FindIndexOf(r, v) == FindIndexOfIf(r, {v})

AllEqual(r, alike) == \A i \in DOMAIN r : i > 1 => <<r[1], r[i]>> \in alike
AdjacentFind(r, alike) == Min({p \in 0..(Len(r) - 2) : <<r[p + 1], r[p + 2]>> \in alike} \cup {Len(r)})
FindFirstThat(r, passing) == FindIf(r, passing)
FindFirstOfRange(r, s) == FindFirstThat(r, Range(s))

FindFirstRangeOf(r, passing) ==
  LET first == FindFirstThat(r, passing)
      run == FindLastOfFront(SubSeq(r, first + 1, Len(r)), passing)
      second == first + run
  IN [first |-> first, second |-> IF second = Len(r) THEN second ELSE second + 1]

FindTransform(r, passing, becomes) ==
  LET p == FindIf(r, {x \in RangeValues : becomes[x] \in passing})
  IN [at |-> p, value |-> IF p = Len(r) THEN {} ELSE {becomes[r[p + 1]]}]

(* Which of the predicates hold is that of the element found or, if there  *)
(* is none, of none.                                                       *)
FindSome(r, preds) ==
  LET p == FindIf(r, UNION Range(preds))
  IN [at |-> p, results |-> [i \in DOMAIN preds |-> p # Len(r) /\ r[p + 1] \in preds[i]]]

ForEachIf(r, passing) == Passing(r, passing)

(* The elements seen, with the number each is given. The first is looked   *)
(* for no further than the end; how many there are is not asked again.     *)
ForEachWithPos(size, first, last) ==
  [i \in 1..(last - first) |-> [at |-> BeginAt(size, first) + i - 1, pos |-> first + i - 1]]
ForEachSubset(first, last) == [i \in 1..(last - first) |-> first + i - 1]

(* reverse( container ) and the reverse ends.                              *)
ReverseStep(r, i) == r[Len(r) - i]
ReverseWalk(r) == [i \in DOMAIN r |-> ReverseStep(r, i - 1)]

Reduce(r, init) == FoldLeft(LAMBDA sum, x : sum + x, init, r)
Accumulate(r, init) == Reduce(r, init)
AccumulateContainer(r, init) == Accumulate(r, init)
MapReduce(r, s, init) == Reduce([i \in DOMAIN r |-> r[i] * s[i]], init)

-------------------------------------------------------------------------------
(* A few values against each other.                                        *)

(* The places of the least and of the greatest of the arguments.           *)
RECURSIVE MinItem(_, _)
MinItem(r, i) == IF i = Len(r) THEN i
                 ELSE LET rest == MinItem(r, i + 1) IN IF Before(r[i], r[rest]) THEN i ELSE rest
RECURSIVE MaxItem(_, _)
MaxItem(r, i) == IF i = Len(r) THEN i
                 ELSE LET rest == MaxItem(r, i + 1) IN IF Before(r[rest], r[i]) THEN i ELSE rest

MinMaxItem(a, b) == IF Before(b, a) THEN <<b, a>> ELSE <<a, b>>
ClampTo(v, most) == IF v > most THEN most ELSE v

RECURSIVE AreEqual(_)
AreEqual(r) == Len(r) >= 2 => (r[1] = r[2] /\ AreEqual(SubSeq(r, 3, Len(r))))

(* Of two ranges of which only the first has an end.                       *)
EqualToFront(r, s) == LET i == Apart(r, s, Same)
                      IN [equal |-> i > Len(r), past |-> i <= Len(r) /\ i > Len(s)]
NotEqualToFront(r, s) == LET i == Apart(r, s, Pairs \ Same)
                         IN [equal |-> i > Len(r), past |-> i <= Len(r) /\ i > Len(s)]

(* Two arrays of one length: the first comparison that is not "equal".     *)
ArrayCmp(r, s) == LET i == Apart(r, s, Same)
                  IN IF i > Len(r) THEN 0 ELSE IF r[i] < s[i] THEN -1 ELSE 1

(* A predicate made of bounds. A bound given by an lvalue is kept as a     *)
(* reference and one given by an rvalue is moved from before in_range      *)
(* looks at both: moved tells that its type leaves something least then.   *)
BoundAsKept(given, now, how) == IF how = "reference" THEN now ELSE given
BoundAsChecked(given, how) == IF how = "moved" THEN Min(RangeValues) ELSE given
InRangeMade(lower, upper, how) == BoundAsChecked(lower, how) <= BoundAsChecked(upper, how)
InRange(lower, upper, x) == lower <= x /\ x <= upper
EqualTo(v, x) == x = v
LessThan(v, x) == x < v
GreaterThan(v, x) == x > v
GreaterThanOrEqualTo(v, x) == x >= v
LessThanOrEqualTo(v, x) == x <= v

(* The element of a tuple that run( i, ... ) calls its function with.      *)
RECURSIVE TupleRun(_, _)
TupleRun(n, i) == IF n = 0 THEN {} ELSE IF i = n - 1 THEN {i} ELSE TupleRun(n - 1, i)

AdvanceMany(its, d) == [i \in DOMAIN its |-> its[i] + d]

-------------------------------------------------------------------------------
(* Elements with keys, from one container to another. unique tells whether *)
(* the other one has at most one of a key; an element that it does not     *)
(* take is lost.                                                           *)

InsertInto(to, e, unique) ==
  IF unique /\ \E t \in to : t.key = e.key THEN to ELSE to \cup {e}
InsertEach(to, es, unique) == FoldLeft(LAMBDA t, e : InsertInto(t, e, unique), to, es)
HasKey(es, key) == SelectSeq(es, LAMBDA e : e.key = key)
ExtractTo(from, to, key, unique) ==
  [from |-> SelectSeq(from, LAMBDA e : e.key # key), to |-> InsertEach(to, HasKey(from, key), unique)]
ExtractAll(from, to, unique) == [from |-> <<>>, to |-> InsertEach(to, from, unique)]
TryGet(es, key) == IF HasKey(es, key) = <<>> THEN {} ELSE {Head(HasKey(es, key))}

-------------------------------------------------------------------------------
(* Whole containers put in order. Which of the equivalent elements comes   *)
(* first is std::sort's choice.                                            *)

Rearranged(r) == {[i \in DOMAIN r |-> r[p[i]]] : p \in {q \in [DOMAIN r -> DOMAIN r] : IsInjective(q)}}
SortContainer(r) == {s \in Rearranged(r) : Ordered(s)}
StableSortContainer(r) ==
  CHOOSE s \in SortContainer(r) :
    \A c \in {x \div ClassSize : x \in RangeValues} :
      SelectSeq(s, LAMBDA x : x \div ClassSize = c) = SelectSeq(r, LAMBDA x : x \div ClassSize = c)
PartitionContainer(r, passing) ==
  {s \in Rearranged(r) : \A i, j \in DOMAIN s : i < j /\ s[j] \in passing => s[i] \in passing}
StablePartitionContainer(r, passing) == StablePartition(r, passing)
MaxElementContainer(r) == IF r = <<>> THEN 0 ELSE MaxElement(r, 0, 1)

-------------------------------------------------------------------------------
Passed(call, result) == pass' = [pass EXCEPT !.call = call, !.result = result]

PlacesOf(m) == {p \in (0..Len(m)) \X (0..Len(m)) \X (0..Len(m)) : p[1] <= p[2] /\ p[3] + p[2] - p[1] <= Len(m)}

(* One pass over a part of the memory, and what it writes fits. The places *)
(* that are read and those that are written may overlap.                   *)
WriteMemory ==
  \E p \in PlacesOf(pass.r) :
    LET m == pass.r
        first == p[1]
        last == p[2]
        out == p[3]
        count == last - first
        odd == {x \in RangeValues : x % 2 = 1}
        Wrote(call, how, after) == Passed(call, [how |-> how, first |-> first, last |-> last, out |-> out, m |-> after])
    IN \/ Wrote("copy", "all", CopyRange(m, first, last, out))
       \/ Wrote("copy", "n", CopyN(m, first, out, count))
       \/ Wrote("copy", "container", CopyContainer(m, first, last, out))
       \/ Wrote("copy", "container n", CopyContainerN(m, first, last, out, count + 1))
       \/ Wrote("copy if", "all", CopyPassing(m, first, last, out, odd))
       \/ Wrote("copy if", "container", CopyContainerIf(m, first, last, out, odd))
       \/ Wrote("transform", "all", TransformRange(m, first, last, out, Next1))
       \/ Wrote("transform", "n", TransformN(m, first, out, count, Next1))
       \/ Wrote("transform", "it", TransformIt(m, first, last, out, RangeValues, Next1))
       \/ Wrote("transform", "map", MapRange(m, first, last, out, Next1))
       \/ out = first /\ Wrote("transform", "container", TransformContainer(m, first, last, Next1))
       \/ out # first /\ (\/ Wrote("move", "all", MoveRange(m, first, last, out))
                          \/ Wrote("move", "n", MoveN(m, first, out, count)))
       \/ Wrote("sums", "all", PartialSum(m, first, last, out))
       \/ out = first /\ (\/ Wrote("fill", "all", Fill(m, first, last, 1))
                          \/ Wrote("fill", "n", FillN(m, first, count, 1))
                          \/ Wrote("iota", "all", Iota(m, first, last, 1)))
       \/ \E second \in 0..(Len(m) - count) :
            \/ out = first /\ Passed("product", [second |-> second, first |-> first, last |-> last,
                                                 seen |-> CartesianProduct(m, first, last, second)])
            \/ \E how \in {"map", "product", "many"} :
                 Passed("two", [second |-> second, first |-> first, last |-> last, out |-> out,
                                m |-> CASE how = "map" -> MapTwo(m, first, last, second, out)
                                        [] how = "product" -> CartesianProductMap(m, first, last, second, out)
                                        [] how = "many" -> TransformMany(m, first, last, second, out)])

(* Calls that ask about a whole range.                                     *)
AskRange ==
  LET r == pass.r
      Alike == {Same, Equivalents, Pairs \ Same}
  IN \/ \E passing \in SUBSET RangeValues :
          \/ Passed("which", [passing |-> passing, all |-> AllOf(r, passing), any |-> AnyOf(r, passing),
                              none |-> NoneOf(r, passing), contains |-> ContainsIf(r, passing),
                              container |-> ContainerContains(r, passing), count |-> CountThat(r, passing),
                              index |-> FindIndexIf(r, passing), indexOf |-> FindIndexOfIf(r, passing),
                              found |-> FindInContainer(r, passing), run |-> FindFirstRangeOf(r, passing),
                              seen |-> ForEachIf(r, passing)])
          \/ Passed("consume", ConsumeIf(r, passing) @@ [passing |-> passing, erased |-> EraseRemove(r, passing)])
          \/ Passed("transformed", FindTransform(r, passing, Next1) @@ [passing |-> passing])
          \/ \E other \in SUBSET RangeValues :
               Passed("predicates", [passing |-> passing, other |-> other,
                                     some |-> FindSome(r, <<passing, other>>),
                                     one |-> SomeSatisfiesOne(r, <<passing, other>>),
                                     every |-> AllSatisfyAll(r, <<passing, other>>)])
          \/ \E s \in PartitionContainer(r, passing) :
               Passed("partition", [passing |-> passing, r |-> s, stable |-> StablePartitionContainer(r, passing)])
     \/ \E v \in RangeValues : Passed("value", [v |-> v, contains |-> ContainsTheValue(r, v), index |-> FindIndex(r, v),
                                                indexOf |-> FindIndexOf(r, v)])
     \/ \E alike \in Alike : Passed("alike", [alike |-> alike, all |-> AllEqual(r, alike), next |-> AdjacentFind(r, alike),
                                              are |-> AreEqual(r)])
     \/ \E at \in 0..(Len(r) - 1) : Passed("remove", RemoveElement(r, at) @@ [at |-> at])
     \/ r # <<>> /\ Passed("extreme", [min |-> MinItem(r, 1) - 1, max |-> MaxItem(r, 1) - 1,
                                       both |-> MinMaxItem(Head(r), Last(r))])
     \/ \E s \in SortContainer(r) : Passed("sort", [r |-> s, stable |-> StableSortContainer(r),
                                                    largest |-> MaxElementContainer(r)])
     \/ \E init \in 0..1 : Passed("sum", [init |-> init, of |-> Accumulate(r, init),
                                          container |-> AccumulateContainer(r, init),
                                          squares |-> MapReduce(r, r, init), backwards |-> Reduce(ReverseWalk(r), init)])
     \/ \E first, last \in 0..(Len(r) + 1) :
          first <= last /\ Passed("positions", [first |-> first, last |-> last, seen |-> ForEachWithPos(Len(r), first, last),
                                                subset |-> ForEachSubset(first, last)])
     \/ \E i \in 0..RangeLength : Passed("tuple", [i |-> i, called |-> TupleRun(Len(r), i)])

(* Calls on two ranges. The elements of the first one, and of the second   *)
(* one, have the values as their keys.                                     *)
AskTwo ==
  LET r == pass.r
      s == pass.s
      from == [i \in DOMAIN r |-> [key |-> r[i], id |-> i]]
      to == {[key |-> s[i], id |-> -i] : i \in DOMAIN s}
  IN \/ Passed("fronts", [equal |-> EqualToFront(r, s), differ |-> NotEqualToFront(r, s), first |-> FindFirstOfRange(r, s)])
     \/ Len(r) = Len(s) /\ Passed("arrays", [sign |-> ArrayCmp(r, s)])
     \/ Passed("append", [r |-> AppendTo(r, s)])
     \/ \E unique \in BOOLEAN :
          /\ unique => IsInjective(s)
          /\ \/ \E key \in RangeValues : Passed("extract", ExtractTo(from, to, key, unique)
                                                  @@ [keys |-> {key}, unique |-> unique, was |-> to,
                                                      found |-> TryGet(from, key)])
             \/ Passed("extract", ExtractAll(from, to, unique)
                         @@ [keys |-> RangeValues, unique |-> unique, was |-> to, found |-> {}])

(* Calls on values: what fills a vector, and predicates made of bounds,    *)
(* whose variables may have changed when they are used.                    *)
AskValues ==
  \/ \E first, step \in -1..2, sz \in 0..RangeLength :
       Passed("iota_op", IotaOp(first, step, sz) @@ [step |-> step, first |-> first])
  \/ \E lower, upper, now, x \in RangeValues, how \in {"copied", "moved", "reference"} :
       /\ InRangeMade(lower, upper, how)
       /\ LET kept == BoundAsKept(lower, now, how)
          IN Passed("bounds", [lower |-> lower, upper |-> upper, now |-> now, x |-> x, how |-> how,
                               in |-> InRange(kept, upper, x), equal |-> EqualTo(kept, x),
                               less |-> LessThan(kept, x), greater |-> GreaterThan(kept, x),
                               atLeast |-> GreaterThanOrEqualTo(kept, x),
                               atMost |-> LessThanOrEqualTo(kept, x)])
  \/ \E v, most \in RangeValues : Passed("clamp", [v |-> v, most |-> most, to |-> ClampTo(v, most)])
  \/ \E its \in [1..2 -> 0..1], d \in 0..2 : Passed("advance", [its |-> its, d |-> d, to |-> AdvanceMany(its, d)])

NoPass(r, s) == [call |-> "none", r |-> r, s |-> s, result |-> <<>>]

LoopsInit == pass \in {NoPass(r, s) : r \in Calls(RangeLength), s \in Calls(NeedleLength)}

LoopsNext ==
  /\ pass.call = "none"
  /\ \/ pass.s = <<>> /\ (WriteMemory \/ AskRange)
     \/ AskTwo
     \/ pass.r = <<>> /\ pass.s = <<>> /\ AskValues

-------------------------------------------------------------------------------
PassIs(call) == pass.call = call

(* The loops that write have written at out what they make of [first,      *)
(* last) as it was before the call, and nothing else, unless out is inside *)
(* the part that is still to be read: there they may read what they wrote. *)
(* A partial sum ends with the sum. What is moved is gone where it was,    *)
(* and is nowhere twice.                                                   *)
WritesOnce ==
  LET m == pass.r
      x == pass.result
      Ahead == x.first < x.out /\ x.out < x.last
      Read == SubSeq(m, x.first + 1, x.last)
      Written(n) == SubSeq(x.m, x.out + 1, x.out + n)
      Kept(n) == \A i \in DOMAIN m : i \notin (x.out + 1)..(x.out + n) => x.m[i] = m[i]
      Made == [i \in DOMAIN Read |-> Next1[Read[i]]]
  IN /\ PassIs("copy") => Kept(Len(Read)) /\ (~Ahead => Written(Len(Read)) = Read)
     /\ PassIs("copy if") /\ ~Ahead =>
          LET odds == SelectSeq(Read, LAMBDA v : v % 2 = 1) IN Kept(Len(odds)) /\ Written(Len(odds)) = odds
     /\ PassIs("transform") => Kept(Len(Read)) /\ (~Ahead => Written(Len(Read)) = Made)
     /\ PassIs("move") /\ ~Ahead =>
          /\ Written(Len(Read)) = Read
          /\ \A i \in DOMAIN m : x.m[i] = Gone <=> i \in (x.first + 1)..x.last \ (x.out + 1)..(x.out + Len(Read))
     /\ PassIs("sums") /\ ~Ahead => /\ Kept(Len(Read))
                                    /\ \A n \in DOMAIN Read : Written(Len(Read))[n] = Reduce(SubSeq(Read, 1, n), 0)
     /\ PassIs("fill") => Kept(Len(Read)) /\ Range(Written(Len(Read))) \subseteq {1}
     /\ PassIs("iota") => Kept(Len(Read)) /\ \A n \in DOMAIN Read : Written(Len(Read))[n] = n
     /\ PassIs("two") =>
          LET Ahead2 == x.second < x.out /\ x.out < x.second + Len(Read)
          IN ~Ahead /\ ~Ahead2 => Written(Len(Read)) = [i \in DOMAIN Read |-> Sum[Read[i], m[x.second + i]]]
     /\ PassIs("product") => Len(x.seen) = Len(Read)

(* What the loops that ask say of one range fits together: an index is     *)
(* there exactly if the range contains what is asked for, all of is none   *)
(* of the rest, and a counter is right unless the count is too great for   *)
(* it. The first range of is as long as it can be. The predicates of       *)
(* find_some hold of its element; it finds one exactly if one of the       *)
(* predicates holds of some element. are_equal compares pairs, and so all  *)
(* are alike only if it says so, but not the other way round. Of           *)
(* equivalent arguments min_item and max_item give the last.               *)
AnswersFit ==
  LET r == pass.r
      x == pass.result
      End == Len(r)
  IN /\ PassIs("which") =>
          /\ x.contains = x.any /\ x.container = x.any /\ x.none = ~x.any
          /\ x.index # {} <=> x.any
          /\ x.index \subseteq {x.indexOf} /\ x.found = x.indexOf
          /\ x.any <=> x.indexOf < End
          /\ x.all <=> Len(x.seen) = End
          /\ x.count = Len(x.seen) \/ Len(x.seen) >= CountMax
          /\ x.run.first = x.found /\ x.run.first <= x.run.second
          /\ \A p \in x.run.first..(x.run.second - 1) : r[p + 1] \in x.passing
          /\ x.run.second < End => r[x.run.second + 1] \notin x.passing
     /\ PassIs("value") => (x.contains <=> x.index = {x.indexOf}) /\ (x.contains <=> x.indexOf < End)
     /\ PassIs("predicates") =>
          /\ x.one <=> x.some.at < End
          /\ x.one <=> TRUE \in Range(x.some.results)
          /\ x.every <=> \A i \in DOMAIN r : r[i] \in x.passing \cap x.other
          /\ x.every /\ r # <<>> => x.one
     /\ PassIs("alike") =>
          /\ x.all /\ x.alike = Same => x.are /\ (x.next = 0 \/ End < 2)
          /\ x.are /\ End = 2 /\ x.alike = Same => x.all
          /\ x.alike # Pairs \ Same /\ x.all => x.next \in {0, End}
     /\ PassIs("extreme") =>
          /\ \A i \in DOMAIN r : ~Before(r[i], r[x.min + 1]) /\ ~Before(r[x.max + 1], r[i])
          /\ \A i \in (x.min + 2)..End : Before(r[x.min + 1], r[i])
          /\ \A i \in (x.max + 2)..End : Before(r[i], r[x.max + 1])
          /\ ~Before(x.both[2], x.both[1])
     /\ PassIs("transformed") => x.value = {} <=> \A i \in DOMAIN r : Next1[r[i]] \notin x.passing
     /\ PassIs("sum") => x.of = x.container /\ x.of = x.backwards /\ x.squares >= x.of
     /\ PassIs("positions") =>
          /\ \A n \in DOMAIN x.seen : x.seen[n].pos = x.subset[n]
          /\ (\A n \in DOMAIN x.seen : x.seen[n].at < End) <=> x.last <= End \/ x.first = x.last
          /\ x.first <= End => \A n \in DOMAIN x.seen : x.seen[n].at = x.seen[n].pos
     /\ PassIs("tuple") => x.called = {i \in 0..(End - 1) : i = x.i}
     /\ PassIs("fronts") =>
          /\ x.equal.equal <=> IsPrefix(r, pass.s)
          /\ x.equal.past => IsStrictPrefix(pass.s, r)
          /\ x.equal.equal /\ x.differ.equal => r = <<>>
     /\ PassIs("arrays") => (x.sign = 0 <=> r = pass.s) /\ x.sign = CompareRange(r, pass.s)

(* No element is lost that should stay. Elements that go to another        *)
(* container are in one of the two, or are gone because their key was      *)
(* there already. What consume_if keeps is what erasing would have kept. A *)
(* remove whose value is an element of the range is right if the element   *)
(* is not overwritten on the way: if it lies behind what is kept. A        *)
(* partition and a sort keep all, and the stable ones also the order.      *)
(* iota_op makes the elements that it says only with a step above 0. A     *)
(* predicate made of lvalues changes its mind with them, and in_range asks *)
(* for the order of its bounds only at first, and not of what it moved.    *)
KeepsAll ==
  LET r == pass.r
      x == pass.result
  IN /\ PassIs("extract") =>
          LET moved == {i \in DOMAIN r : r[i] \in x.keys}
              ThereAs(i) == {e \in x.to : e.id = i}
          IN /\ \A i \in DOMAIN r : i \notin moved <=> \E n \in DOMAIN x.from : x.from[n] = [key |-> r[i], id |-> i]
             /\ x.was \subseteq x.to
             /\ \A i \in moved : ThereAs(i) = {} => x.unique /\ \E e \in x.to : e.key = r[i]
             /\ x.unique => \A e, f \in x.to : e.key = f.key => e = f
             /\ \A e \in x.found : e.key \in x.keys
     /\ PassIs("consume") => /\ SubSeq(x.r, 1, x.last) = x.erased
                             /\ IsSuffix(x.seen, x.erased)
     /\ PassIs("remove") =>
          LET kept == SelectSeq(r, LAMBDA v : v # r[x.at + 1])
          IN x.at >= Len(kept) => SubSeq(x.r, 1, x.last) = kept
     /\ PassIs("partition") =>
          LET n == Len(Passing(r, x.passing))
          IN /\ \A i \in DOMAIN r : i <= n <=> x.r[i] \in x.passing
             /\ Passing(x.stable, x.passing) = Passing(r, x.passing)
             /\ \A v \in RangeValues : InClass(x.r, v) = InClass(x.stable, v)
     /\ PassIs("sort") =>
          /\ \A i \in DOMAIN r : ~Before(x.r[i], x.stable[i]) /\ ~Before(x.stable[i], x.r[i])
          /\ r # <<>> => ~Before(r[x.largest + 1], Last(x.r))
     /\ PassIs("append") => Len(x.r) = Len(r) + Len(pass.s) /\ IsPrefix(pass.s, x.r)
     /\ PassIs("iota_op") => (Len(x.made) = x.size <=> x.step > 0 \/ x.size = 0)
     /\ PassIs("bounds") =>
          /\ x.how # "moved" => x.lower <= x.upper
          /\ x.in => x.atLeast
          /\ x.equal <=> x.atLeast /\ x.atMost
          /\ x.less <=> ~x.atLeast
          /\ x.greater <=> ~x.atMost
          /\ x.how # "reference" => (x.equal <=> x.x = x.lower)
     /\ PassIs("clamp") => x.to <= x.most /\ (x.to = x.v \/ x.v > x.most)
     /\ PassIs("advance") => x.to[1] - x.to[2] = x.its[1] - x.its[2]

(* The calls on ranges of Algorithms, and these loops.                     *)
RangesDoAsNamed == AlgorithmsDoAsNamed /\ WritesOnce /\ AnswersFit /\ KeepsAll
================================================================================
