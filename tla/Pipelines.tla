-------------------------------- MODULE Pipelines --------------------------------
(***************************************************************************)
(* The lazy views of daw::pipelines, each over ranges of elements: an      *)
(* iterator that keeps a place in the range below, sometimes a little      *)
(* more, and is compared with an end. A program looks at an element, goes  *)
(* on by one, or jumps, in any order, and index counts where it has got    *)
(* to. Views that are made at once (Skip, DropWhile, DropUntil) are pairs  *)
(* of iterators.                                                           *)
(*                                                                         *)
(* Functions of a program are sets (predicates) or Negated; a pair <<i,    *)
(* j>> stands for the elements from place i up to j.                       *)
(***************************************************************************)
EXTENDS Integers, SequencesExt, FiniteSetsExt

CONSTANTS
  PipeValues,  \* elements
  PipeLength,  \* bound: elements of a range
  PipeRanges,  \* bound: ranges of a range of ranges, each of up to 2 elements
  IotaValues   \* the number of values an iota can take

ASSUME PipelinesAssumption ==
  PipeValues \subseteq Nat /\ PipeLength \in Nat /\ PipeRanges \in Nat /\ IotaValues \in Nat \ {0}

VARIABLE walk

RangesUpTo(n) == UNION {[1..l -> PipeValues] : l \in 0..n}
Negated == [v \in PipeValues |-> Max(PipeValues) - v]

Filters == {"Filter", "TakeWhile", "TakeUntil", "Every"}
PairViews == {"Skip", "DropWhile", "DropUntil"}
Zips == {"Zip", "Enumerate"}
NotFound == -1

(* A view before its constructor has run: the ranges below, its number,    *)
(* predicate and delimiter. fn is the state of its function, or its count. *)
ViewOver(kind, src, arg, set, del) ==
  [kind |-> kind, src |-> src, arg |-> arg, set |-> set, del |-> del,
   it |-> [i \in DOMAIN src |-> 0], fn |-> 0, next |-> NotFound, cached |-> <<>>, index |-> 0]

Below(w) == w.src[1]
Place(w) == w.it[1]
Here(w) == Below(w)[Place(w) + 1]
FirstPlace(places, w) == Min(places \cup {Len(Below(w))})

-------------------------------------------------------------------------------
(* Filter, and what it is used for. Each function is asked once about each *)
(* element, and may keep a state.                                          *)

(* Mutant of Answered: Every counts one too many.                          *)
AnsweredLate(w, v) ==
  CASE w.kind = "Filter" -> [keep |-> v \in w.set, fn |-> w.fn]
    [] w.kind = "TakeWhile" -> [keep |-> w.fn = 1 \/ v \notin w.set, fn |-> IF v \in w.set THEN w.fn ELSE 1]
    [] w.kind = "TakeUntil" -> [keep |-> w.fn = 0 /\ v \notin w.set, fn |-> IF v \in w.set THEN 1 ELSE w.fn]
    [] w.kind = "Every" -> [keep |-> w.fn > w.arg, fn |-> IF w.fn > w.arg THEN 1 ELSE w.fn + 1]

Answered(w, v) ==
  CASE w.kind = "Filter" -> [keep |-> v \in w.set, fn |-> w.fn]
    [] w.kind = "TakeWhile" -> [keep |-> w.fn = 1 \/ v \notin w.set, fn |-> IF v \in w.set THEN w.fn ELSE 1]
    [] w.kind = "TakeUntil" -> [keep |-> w.fn = 0 /\ v \notin w.set, fn |-> IF v \in w.set THEN 1 ELSE w.fn]
    [] w.kind = "Every" -> [keep |-> w.fn >= w.arg, fn |-> IF w.fn >= w.arg THEN 1 ELSE w.fn + 1]

RECURSIVE Seek(_)
Seek(w) ==
  IF Place(w) = Len(Below(w)) THEN w
  ELSE LET answer == Answered(w, Here(w))
           moved == [w EXCEPT !.fn = answer.fn]
       IN IF answer.keep THEN moved ELSE Seek([moved EXCEPT !.it[1] = @ + 1])

-------------------------------------------------------------------------------
(* Split.                                                                  *)

Occurs(w, p) ==
  IF w.kind = "SplitRange" THEN p + Len(w.del) <= Len(Below(w)) /\ SubSeq(Below(w), p + 1, p + Len(w.del)) = w.del
  ELSE Below(w)[p + 1] \in w.set

Sought(w) ==
  IF w.next # NotFound \/ Place(w) = Len(Below(w)) THEN w
  ELSE [w EXCEPT !.next = FirstPlace({p \in Place(w)..(Len(Below(w)) - 1) : Occurs(w, p)}, w)]

-------------------------------------------------------------------------------
(* The constructors, with their begin( ).                                  *)

Begun(w) ==
  CASE w.kind \in Filters -> Seek([w EXCEPT !.fn = IF w.kind = "Every" THEN w.arg ELSE 0])
    [] w.kind = "Skip" -> [w EXCEPT !.it[1] = Min({w.arg, Len(Below(w))})]
    [] w.kind = "DropWhile" ->
         [w EXCEPT !.it[1] = FirstPlace({p \in 0..(Len(Below(w)) - 1) : Below(w)[p + 1] \notin w.set}, w)]
    [] w.kind = "DropUntil" ->
         [w EXCEPT !.it[1] = FirstPlace({p \in 0..(Len(Below(w)) - 1) : Below(w)[p + 1] \in w.set}, w)]
    [] w.kind = "Take" -> [w EXCEPT !.fn = Min({w.arg, Len(Below(w))})]
    [] w.kind \in {"Split", "SplitRange"} -> Sought(w)
    [] w.kind = "Flatten" -> [w EXCEPT !.it = <<0, 0>>]
    [] w.kind = "Concat" -> [w EXCEPT !.fn = 1]
    [] w.kind = "Reverse" -> [w EXCEPT !.it[1] = Len(Below(w))]
    [] OTHER -> w

(* The comparison with end( ) that a loop makes.                           *)
Ended(w) ==
  CASE w.kind = "Take" -> w.fn = 0
    [] w.kind \in {"Split", "SplitRange"} -> Place(w) = Len(Below(w)) /\ w.next = NotFound
    [] w.kind = "Flatten" -> Place(w) = Len(w.src)
    [] w.kind = "Concat" -> \A i \in DOMAIN w.src : w.it[i] = Len(w.src[i])
    [] w.kind \in Zips -> \E i \in DOMAIN w.src : w.it[i] = Len(w.src[i])
    [] w.kind = "Reverse" -> Place(w) = 0
    [] w.kind = "Iota" -> (w.arg + w.fn) % IotaValues = w.del[1]
    [] OTHER -> Place(w) = Len(Below(w))

(* What * gives.                                                           *)
Item(w) ==
  CASE w.kind = "Map" -> Negated[Here(w)]
    [] w.kind = "Clamp" -> IF Here(w) < w.del[1] THEN w.del[1] ELSE IF w.del[2] < Here(w) THEN w.del[2] ELSE Here(w)
    [] w.kind \in {"Split", "SplitRange"} -> <<Place(w), Sought(w).next>>
    [] w.kind \in {"Chunk", "Slide"} -> <<Place(w), Place(w) + w.arg>>
    [] w.kind = "Flatten" -> w.src[Place(w) + 1][w.it[2] + 1]
    [] w.kind = "Concat" -> w.src[w.fn][w.it[w.fn] + 1]
    [] w.kind \in Zips -> [i \in DOMAIN w.src |-> w.src[i][w.it[i] + 1]]
    [] w.kind = "Reverse" -> Below(w)[Place(w)]
    [] w.kind = "CacheLast" -> IF w.cached # <<>> THEN w.cached[1] ELSE Here(w)
    [] w.kind = "Iota" -> (w.arg + w.fn) % IotaValues
    [] OTHER -> Here(w)

(* Whether what * gives is in the ranges below.                            *)
Inside(w) ==
  CASE w.kind \in {"Chunk", "Slide"} -> Place(w) + w.arg <= Len(Below(w))
    [] w.kind = "Flatten" -> w.it[2] < Len(w.src[Place(w) + 1])
    [] w.kind = "Concat" -> w.fn \in DOMAIN w.src /\ w.it[w.fn] < Len(w.src[w.fn])
    [] OTHER -> TRUE

-------------------------------------------------------------------------------
(* ++, one action for each way to do it.                                   *)

OnWalk(kinds) == walk.kind \in kinds /\ ~Ended(walk)
Goes(w) == walk' = [w EXCEPT !.index = walk.index + 1]

StepFilter == OnWalk(Filters) /\ Goes(Seek([walk EXCEPT !.it[1] = @ + 1]))

StepPlain == OnWalk(PairViews \cup {"Map", "Clamp"}) /\ Goes([walk EXCEPT !.it[1] = @ + 1])

StepCached == OnWalk({"CacheLast"}) /\ Goes([walk EXCEPT !.it[1] = @ + 1, !.cached = <<>>])

StepTake == OnWalk({"Take"}) /\ Goes([walk EXCEPT !.it[1] = @ + 1, !.fn = @ - 1])

(* It asserts that the next delimiter has been looked for.                 *)
StepSplit ==
  /\ OnWalk({"Split", "SplitRange"})
  /\ walk.next # NotFound
  /\ Goes([walk EXCEPT !.it[1] = IF walk.next = Len(Below(walk)) THEN walk.next ELSE walk.next + 1, !.next = NotFound])

StepChunk ==
  OnWalk({"Chunk"}) /\ Goes([walk EXCEPT !.it[1] = Min({@ + walk.arg, Len(Below(walk))})])

StepSlide ==
  /\ OnWalk({"Slide"})
  /\ Goes([walk EXCEPT !.it[1] = IF @ + walk.arg >= Len(Below(walk)) THEN Len(Below(walk)) ELSE @ + 1])

StepUnique ==
  LET others == {p \in Place(walk)..(Len(Below(walk)) - 1) : Below(walk)[p + 1] # Here(walk)}
  IN OnWalk({"Unique"}) /\ Goes([walk EXCEPT !.it[1] = FirstPlace(others, walk)])

(* From past the end of an inner range there is no way on.                 *)
StepFlatten ==
  /\ OnWalk({"Flatten"}) /\ Inside(walk)
  /\ Goes([walk EXCEPT !.it = IF @[2] + 1 = Len(walk.src[@[1] + 1]) THEN <<@[1] + 1, 0>> ELSE <<@[1], @[2] + 1>>])

StepConcat ==
  /\ OnWalk({"Concat"}) /\ Inside(walk)
  /\ Goes([walk EXCEPT !.it[walk.fn] = @ + 1,
                       !.fn = IF walk.it[walk.fn] + 1 = Len(walk.src[walk.fn]) THEN @ + 1 ELSE @])

StepZip == OnWalk(Zips) /\ Goes([walk EXCEPT !.it = [i \in DOMAIN @ |-> @[i] + 1]])

StepReverse == OnWalk({"Reverse"}) /\ Goes([walk EXCEPT !.it[1] = @ - 1])

StepIota == OnWalk({"Iota"}) /\ Goes([walk EXCEPT !.fn = @ + 1])

(* Looking at an element has an effect where something is kept.            *)
Look ==
  \/ OnWalk({"Split", "SplitRange"}) /\ walk' = Sought(walk)
  \/ OnWalk({"CacheLast"}) /\ walk' = [walk EXCEPT !.cached = <<Item(walk)>>]

(* += and -=, to a place in the range: of Take the count moves too, of Zip *)
(* all iterators. -- of CacheLast.                                         *)
TakeAdvanced(w, n) == [w EXCEPT !.it[1] = @ + n, !.fn = @ - Min({n, w.fn})]

Jump ==
  \E n \in -PipeLength..PipeLength :
    /\ walk.index + n >= 0
    /\ \/ walk.kind = "Take" /\ n <= walk.fn /\ walk' = [TakeAdvanced(walk, n) EXCEPT !.index = @ + n]
       \/ /\ walk.kind \in {"Map", "Clamp"} /\ Place(walk) + n <= Len(Below(walk))
          /\ walk' = [walk EXCEPT !.it[1] = @ + n, !.index = @ + n]
       \/ /\ walk.kind = "CacheLast" /\ n = -1
          /\ walk' = [walk EXCEPT !.it[1] = @ - 1, !.index = @ - 1, !.cached = <<>>]
       \/ /\ walk.kind \in Zips /\ \A i \in DOMAIN walk.it : walk.it[i] + n <= Len(walk.src[i])
          /\ walk' = [walk EXCEPT !.it = [i \in DOMAIN @ |-> @[i] + n], !.index = @ + n]
       \/ /\ walk.kind = "Iota" /\ walk.fn + n <= (walk.del[1] - walk.arg) % IotaValues
          /\ walk' = [walk EXCEPT !.fn = @ + n, !.index = @ + n]

Counted(from, s) == [i \in 1..(Len(s) + 1) |-> from + i - 1]

PipesOver(s) ==
  {ViewOver(k, <<s>>, 0, set, <<>>) : k \in {"Filter", "TakeWhile", "TakeUntil", "DropWhile", "DropUntil", "Split"},
                                      set \in SUBSET PipeValues}
  \cup {ViewOver(k, <<s>>, n, {}, <<>>) : k \in {"Every", "Skip", "Take", "Slide"}, n \in 0..(PipeLength + 1)}
  \cup {ViewOver("Chunk", <<s>>, n, {}, <<>>) : n \in 1..(PipeLength + 1)}
  \cup {ViewOver("SplitRange", <<s>>, 0, {}, d) : d \in RangesUpTo(2)}
  \cup {ViewOver(k, <<s>>, 0, {}, <<>>) : k \in {"Unique", "Map", "Reverse", "CacheLast"}}
  \cup {ViewOver("Clamp", <<s>>, 0, {}, d) : d \in {e \in PipeValues \X PipeValues : e[1] <= e[2]}}
  \cup {ViewOver("Enumerate", <<Counted(n, s), s>>, 0, {}, <<>>) : n \in 0..1}

PipesInit ==
  \E w \in UNION {PipesOver(s) : s \in RangesUpTo(PipeLength)}
           \cup {ViewOver("Iota", <<<<>>>>, n, {}, <<m>>) : n, m \in 0..(IotaValues - 1)}
           \cup UNION {{ViewOver(k, src, 0, {}, <<>>) : k \in {"Flatten", "Concat", "Zip"}} :
                         src \in UNION {[1..n -> RangesUpTo(2)] : n \in 1..PipeRanges}} :
    walk = Begun(w)

PipesNext ==
  \/ StepFilter \/ StepPlain \/ StepCached \/ StepTake \/ StepSplit \/ StepChunk \/ StepSlide \/ StepUnique
  \/ StepFlatten \/ StepConcat \/ StepZip \/ StepReverse \/ StepIota
  \/ Look \/ Jump

PipesSpec == PipesInit /\ [][PipesNext]_walk

-------------------------------------------------------------------------------
(* Functions that walk through all of a range at once.                     *)

FindWidth(s, width, windows) ==
  Min({p \in 0..(Len(s) - width) : SubSeq(s, p + 1, p + width) \in windows} \cup {Len(s)})
FindValue(s, v) == Min({p \in 0..(Len(s) - 1) : s[p + 1] = v} \cup {Len(s)})
ContainsValue(s, v) == \E p \in DOMAIN s : s[p] = v
CountIf(s, set) == Cardinality({p \in DOMAIN s : s[p] \in set})
SumOf(s) == FoldSeq(LAMBDA v, sum : sum + v, 0, s)
FirstOf(s) == IF s = <<>> THEN <<>> ELSE <<s[1]>>
Best(s, bounds) == Min({p \in 0..(Len(s) - 1) : s[p + 1] \in bounds} \cup {Len(s)})
LargestOf(s) == Best(s, IF s = <<>> THEN {} ELSE {Max(ToSet(s))})
MinElement(s) == Best(s, IF s = <<>> THEN {} ELSE {Min(ToSet(s))})
BoundsOf(s) ==
  <<MinElement(s), IF s = <<>> THEN 0 ELSE Max({p \in 0..(Len(s) - 1) : s[p + 1] = Max(ToSet(s))})>>
ToArray(s, n, default) == [i \in 1..n |-> IF i <= Len(s) THEN s[i] ELSE default]

(* std::distance of two random access iterators: that of Zip asks the      *)
(* first iterator, and that of Take the counts.                            *)
DistanceToEnd(w) == IF w.kind = "Take" THEN w.fn ELSE Len(Below(w)) - Place(w)

-------------------------------------------------------------------------------
(* Properties.                                                             *)

(* What a view is to deliver.                                              *)
Piece(s, cuts) ==
  LET starts == SetToSortSeq(({0} \cup {p + 1 : p \in cuts}) \ {Len(s)}, <)
  IN [i \in DOMAIN starts |-> <<starts[i], Min({p \in cuts : p >= starts[i]} \cup {Len(s)})>>]
ShortestOf(src) == Min({Len(src[i]) : i \in DOMAIN src})

Delivers(w) ==
  LET s == Below(w)
      n == Len(s)
      first == FindWidth(s, 1, {<<v>> : v \in w.set})
      firstNot == FindWidth(s, 1, {<<v>> : v \in PipeValues \ w.set})
  IN CASE w.kind = "Filter" -> SelectSeq(s, LAMBDA v : v \in w.set)
       [] w.kind = "TakeUntil" -> SubSeq(s, 1, first)
       [] w.kind = "DropUntil" -> SubSeq(s, first + 1, n)
       [] w.kind \in {"TakeWhile", "DropWhile"} -> SubSeq(s, firstNot + 1, n)
       [] w.kind = "Every" /\ w.arg > 0 -> [i \in 1..((n + w.arg - 1) \div w.arg) |-> s[(i - 1) * w.arg + 1]]
       [] w.kind = "Take" -> SubSeq(s, 1, Min({w.arg, n}))
       [] w.kind = "Skip" -> SubSeq(s, w.arg + 1, n)
       [] w.kind = "Split" -> Piece(s, {p \in 0..(n - 1) : s[p + 1] \in w.set})
       [] w.kind = "SplitRange" -> Piece(s, {p \in 0..(n - 1) : Occurs(w, p)})
       [] w.kind = "Chunk" -> [i \in 1..((n + w.arg - 1) \div w.arg) |-> <<(i - 1) * w.arg, i * w.arg>>]
       [] w.kind = "Slide" -> [i \in 1..(IF w.arg = 0 THEN n ELSE Max({n - w.arg + 1, Min({1, n})})) |-> <<i - 1, i - 1 + w.arg>>]
       [] w.kind = "Unique" -> LET news == SetToSortSeq({p \in DOMAIN s : p = 1 \/ s[p] # s[p - 1]}, <)
                               IN [i \in DOMAIN news |-> s[news[i]]]
       [] w.kind \in {"Flatten", "Concat"} -> FlattenSeq(w.src)
       [] w.kind \in Zips -> [i \in 1..ShortestOf(w.src) |-> [k \in DOMAIN w.src |-> w.src[k][i]]]
       [] w.kind = "Map" -> [i \in 1..n |-> Negated[s[i]]]
       [] w.kind = "Clamp" -> [i \in 1..n |-> Max({w.del[1], Min({w.del[2], s[i]})})]
       [] w.kind = "Reverse" -> Reverse(s)
       [] w.kind = "Iota" -> [i \in 1..((w.del[1] - w.arg) % IotaValues) |-> (w.arg + i - 1) % IotaValues]
       [] OTHER -> s

(* The ranges of ranges that Flatten and Concat can walk: an empty one may *)
(* not come (of Concat, may only come at the end).                         *)
Walkable(w) ==
  CASE w.kind = "Flatten" -> \A i \in DOMAIN w.src : w.src[i] # <<>>
    [] w.kind = "Concat" -> \A i, j \in DOMAIN w.src : i < j /\ w.src[i] = <<>> => w.src[j] = <<>>
    [] OTHER -> TRUE

(* Wherever a program has got to in a view, by whatever steps and jumps,   *)
(* the element it finds is the one that a definition of the whole result   *)
(* has there, and the loop ends just where that result ends. TakeWhile     *)
(* delivers what DropWhile does, and Map nothing of its projection; Split  *)
(* loses an empty last piece, and of a delimiter of several elements takes *)
(* out only the first. What * gives lies in the range, but for the last    *)
(* piece of Chunk and for Slide over less than its size.                   *)
PipelinesDeliver ==
  Walkable(walk) =>
    LET whole == Delivers(walk) IN
    /\ Ended(walk) <=> walk.index = Len(whole)
    /\ ~Ended(walk) =>
         /\ Item(walk) = whole[walk.index + 1]
         /\ Inside(walk) <=>
              \/ walk.kind \notin {"Chunk", "Slide"}
              \/ walk.kind = "Slide" /\ walk.arg <= Len(Below(walk))
              \/ walk.kind = "Chunk" /\ (walk.index + 1) * walk.arg <= Len(Below(walk))

(* What runs through a range at once agrees with what delivers it bit by   *)
(* bit; and the distance to the end is the number of steps left, but for a *)
(* Zip whose first range is not the shortest (Enumerate's never is).       *)
PipelinesAgree ==
  LET w == walk
      s == Below(w)
      Other(kind) == Delivers([w EXCEPT !.kind = kind])
  IN /\ w.kind = "Filter" /\ Place(w) = Place(Begun(w)) =>
          /\ CountIf(s, w.set) = Len(Delivers(w))
          /\ FirstOf(Delivers(w)) = FirstOf(Other("DropUntil"))
          /\ FindWidth(s, 1, {<<v>> : v \in w.set}) = Len(Other("TakeUntil"))
          /\ FindWidth(s, 2, {<<v, v>> : v \in PipeValues}) = Len(s) <=> Len(Other("Unique")) = Len(s)
          /\ \A v \in PipeValues :
               /\ ContainsValue(s, v) <=> FindValue(s, v) < Len(s)
               /\ SumOf(s) = SumOf(Other("TakeUntil")) + SumOf(Other("DropUntil"))
               /\ \A n \in 0..PipeLength :
                    SumOf(ToArray(s, n, v)) = SumOf(SubSeq(s, 1, Min({n, Len(s)}))) + v * Max({0, n - Len(s)})
          /\ BoundsOf(s) = <<MinElement(s), IF s = <<>> THEN 0 ELSE Len(s) - 1 - LargestOf(Reverse(s))>>
     /\ w.kind \in {"Take", "Map", "Clamp", "Zip"} /\ (w.kind = "Zip" => Len(Below(w)) = ShortestOf(w.src)) =>
          DistanceToEnd(w) = Len(Delivers(w)) - w.index

(* Both: what a pipeline delivers does not depend on how it is walked.     *)
PipelinesSound == PipelinesDeliver /\ PipelinesAgree
================================================================================
