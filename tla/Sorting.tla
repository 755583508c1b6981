-------------------------------- MODULE Sorting --------------------------------
(***************************************************************************)
(* daw::sort, sort_to and the sorting networks of daw_sort_n.h.            *)
(*                                                                         *)
(* A range is a function on 0 .. n - 1. Each step is one round of the loop *)
(* of sort. The thresholds of the code are constants, so that short ranges *)
(* go every way a long one goes. The order is the < of integers.           *)
(***************************************************************************)
EXTENDS Integers, Sequences, FiniteSets, FiniteSetsExt

CONSTANTS SortValues,   \* the values sorted, integers from 0
          Lengths,      \* of the ranges given to sort and sort_to
          NetworkSizes, \* 2 .. 8, 16 and 32 in the code
          Limit,        \* 30 in the code, or 6 for values with a costly copy
          FiveFrom,     \* the length from which the median of five is taken: 1000
          InsertLimit,  \* insertions that insertion_sort_incomplete makes: 8
          Digits        \* buckets of counting_sort: 10

ASSUME SortAssumption == {2, 3} \subseteq NetworkSizes /\ Limit > 3 /\ Digits > 0

VARIABLE sorting

Swapped(a, i, j) == [a EXCEPT ![i] = a[j], ![j] = a[i]]

-------------------------------------------------------------------------------
(* The networks: pairs of positions to compare and swap, in the order of   *)
(* the calls of swap_if. All but that of sort_16 are the ones of Bose and  *)
(* Nelson: sort both parts, then merge them.                               *)

RECURSIVE Merge(_, _, _, _)
Merge(i, x, j, y) ==
  CASE x = 1 /\ y = 1 -> <<<<i, j>>>>
    [] x = 1 /\ y = 2 -> <<<<i, j + 1>>, <<i, j>>>>
    [] x = 2 /\ y = 1 -> <<<<i, j>>, <<i + 1, j>>>>
    [] OTHER -> LET a == x \div 2
                    b == IF x % 2 = 1 THEN y \div 2 ELSE (y + 1) \div 2
                IN Merge(i, a, j, b) \o Merge(i + a, x - a, j + b, y - b) \o Merge(i + a, x - a, j, b)

RECURSIVE BoseNelson(_, _)
BoseNelson(i, n) ==
  IF n < 2 THEN <<>>
  ELSE LET a == n \div 2
       IN BoseNelson(i, a) \o BoseNelson(i + a, n - a) \o Merge(i, a, i + a, n - a)

Sort32 == BoseNelson(0, 32)

Sort16 == <<
  <<0,1>>, <<2,3>>, <<4,5>>, <<6,7>>, <<8,9>>, <<10,11>>, <<12,13>>, <<14,15>>, <<0,2>>, <<4,6>>,
  <<8,10>>, <<12,14>>, <<1,3>>, <<5,7>>, <<9,11>>, <<13,15>>, <<0,4>>, <<8,12>>, <<1,5>>, <<9,13>>,
  <<2,6>>, <<10,14>>, <<3,7>>, <<11,15>>, <<0,8>>, <<1,9>>, <<2,10>>, <<3,11>>, <<4,12>>, <<5,13>>,
  <<6,14>>, <<7,15>>, <<5,10>>, <<6,9>>, <<3,12>>, <<13,14>>, <<7,11>>, <<1,2>>, <<4,8>>, <<1,4>>,
  <<7,13>>, <<2,8>>, <<11,14>>, <<2,4>>, <<5,6>>, <<9,10>>, <<11,13>>, <<3,8>>, <<7,12>>, <<6,8>>,
  <<10,12>>, <<3,5>>, <<7,9>>, <<3,4>>, <<5,6>>, <<7,8>>, <<9,10>>, <<11,12>>, <<6,7>>, <<8,9>> >>

Sort3To8(n) == BoseNelson(0, n)
Network(n) == CASE n = 16 -> Sort16 [] n = 32 -> Sort32 [] OTHER -> Sort3To8(n)
Networks == [n \in NetworkSizes |-> Network(n)]

(* swap_if swaps what is equal, too; swap_if2 does not, and counts.        *)
SwapIf(a, f, l) == IF ~(a[f] < a[l]) THEN Swapped(a, f, l) ELSE a

Applied(a, pairs, first) ==
  LET after[k \in 0..Len(pairs)] ==
        IF k = 0 THEN a
        ELSE SwapIf(after[k - 1], first + pairs[k][1], first + pairs[k][2])
  IN after[Len(pairs)]

RECURSIVE SwapIf2(_, _)
SwapIf2(counted, pairs) ==
  IF pairs = <<>> THEN counted
  ELSE LET f == Head(pairs)[1]
           l == Head(pairs)[2]
       IN SwapIf2(IF counted.a[l] < counted.a[f]
                  THEN [a |-> Swapped(counted.a, f, l), swaps |-> counted.swaps + 1] ELSE counted,
                  Tail(pairs))

-------------------------------------------------------------------------------
(* Insertion.                                                              *)

(* The element at i moves down past all that are greater.                  *)
Inserted(a, first, i) ==
  LET p == Min({q \in first..i : \A r \in q..(i - 1) : a[i] < a[r]})
  IN [q \in DOMAIN a |-> IF q = p THEN a[i] ELSE IF q \in (p + 1)..i THEN a[q - 1] ELSE a[q]]

(* From position i on, until all is done or the limit is reached.          *)
RECURSIVE InsertFrom(_, _, _, _, _)
InsertFrom(a, first, i, last, left) ==
  IF i = last THEN [a |-> a, complete |-> TRUE]
  ELSE IF ~(a[i] < a[i - 1]) THEN InsertFrom(a, first, i + 1, last, left)
  ELSE IF left = 1 THEN [a |-> Inserted(a, first, i), complete |-> i + 1 = last]
  ELSE InsertFrom(Inserted(a, first, i), first, i + 1, last, left - 1)

InsertionSort3(a, first, last) ==
  InsertFrom(Applied(a, Networks[3], first), first, first + 3, last, last - first).a

InsertionSortIncomplete(a, first, last) ==
  LET len == last - first IN
  IF len < 2 THEN [a |-> a, complete |-> TRUE]
  ELSE IF len \in NetworkSizes THEN [a |-> Applied(a, Networks[len], first), complete |-> TRUE]
  ELSE InsertFrom(SwapIf2([a |-> a, swaps |-> 0], <<<<first + 1, first + 2>>, <<first, first + 2>>,
                                                    <<first, first + 1>>>>).a,
                  first, first + 3, last, InsertLimit)

-------------------------------------------------------------------------------
(* One round of quicksort over s.first .. s.last - 1.                      *)

(* Where a loop without a guard stops, going up from i or down from j - 1. *)
(* stops are the places where it does. s.last and s.first - 1 mean that it *)
(* has left the range.                                                     *)
Up(s, i, stops) == Min(((i..(s.last - 1)) \cap stops) \cup {s.last})
Down(s, j, stops) == Max(((s.first..(j - 1)) \cap stops) \cup {s.first - 1})
Left(s, i, j) == i = s.last \/ j < s.first

Swap(s, i, j) == [s EXCEPT !.a = Swapped(s.a, i, j), !.swaps = @ + 1]

Pivot(s) ==
  LET len == s.last - s.first
      m == s.first + len \div 2
      d == len \div 4
      l == s.last - 1
      i0 == s.first
      c == SwapIf2([a |-> s.a, swaps |-> 0],
             IF len >= FiveFrom
             THEN <<<<i0, i0 + d>>, <<m + d, l>>, <<m, l>>, <<m, m + d>>, <<i0, m + d>>, <<i0, m>>,
                    <<i0 + d, l>>, <<i0 + d, m + d>>, <<i0 + d, m>>>>
             ELSE <<<<m, l>>, <<i0, l>>, <<i0, m>>>>)
  IN [s EXCEPT !.a = c.a, !.swaps = c.swaps, !.m = m]

Pop(s) ==
  IF s.rest = <<>> THEN [s EXCEPT !.done = TRUE]
  ELSE [s EXCEPT !.first = Head(s.rest)[1], !.last = Head(s.rest)[2], !.rest = Tail(@)]

(* Nothing is less than the first element: what is equal to it goes first, *)
(* and the rest is what is left to sort.                                   *)
RECURSIVE SplitEqual(_, _, _)
SplitEqual(s, i, j) ==
  LET greater == {p \in DOMAIN s.a : s.a[s.first] < s.a[p]}
      u == Up(s, i, greater)
      d == Down(s, j, DOMAIN s.a \ greater)
  IN IF Left(s, u, d) THEN [s EXCEPT !.outside = TRUE]
     ELSE IF u >= d THEN [s EXCEPT !.first = u]
     ELSE SplitEqual(Swap(s, u, d), u + 1, d)

EqualToFirst(s) ==
  LET j == s.last - 1
      greater == {p \in (s.first + 1)..(j - 1) : s.a[s.first] < s.a[p]}
      i == Min(greater)
  IN IF s.a[s.first] < s.a[j]
     THEN IF s.first + 1 = j THEN Pop(s) ELSE SplitEqual(s, s.first + 1, j)
     ELSE IF greater = {} THEN Pop(s)
     ELSE IF i + 1 = j THEN Pop(Swap(s, i, j)) ELSE SplitEqual(Swap(s, i, j), i + 1, j)

(* Mutant of Partition: the pivot is not followed when it is swapped away. *)
RECURSIVE PartitionLosesPivot(_, _, _)
PartitionLosesPivot(s, i, j) ==
  LET less == {p \in DOMAIN s.a : s.a[p] < s.a[s.m]}
      u == Up(s, i, DOMAIN s.a \ less)
      d == Down(s, j, less)
  IN IF Left(s, u, d) THEN [s EXCEPT !.outside = TRUE]
     ELSE IF u > d THEN [s EXCEPT !.i = u]
     ELSE PartitionLosesPivot(Swap(s, u, d), u + 1, d)

(* What is less than the pivot to the left, the rest to the right of s.i.  *)
RECURSIVE Partition(_, _, _)
Partition(s, i, j) ==
  LET less == {p \in DOMAIN s.a : s.a[p] < s.a[s.m]}
      u == Up(s, i, DOMAIN s.a \ less)
      d == Down(s, j, less)
  IN IF Left(s, u, d) THEN [s EXCEPT !.outside = TRUE]
     ELSE IF u > d THEN [s EXCEPT !.i = u]
     ELSE Partition([Swap(s, u, d) EXCEPT !.m = IF @ = u THEN d ELSE @], u + 1, d)

PivotInPlace(s) == IF s.i # s.m /\ s.a[s.m] < s.a[s.i] THEN Swap(s, s.i, s.m) ELSE s

(* The recursive call takes the shorter part; the loop goes on with the    *)
(* other when it returns.                                                  *)
Split(s) ==
  LET low == <<s.first, s.i>>
      high == <<s.i + 1, s.last>>
      shorter == IF s.i - s.first < s.last - s.i THEN low ELSE high
      other == IF shorter = low THEN high ELSE low
  IN [s EXCEPT !.first = shorter[1], !.last = shorter[2], !.rest = <<other>> \o @]

(* Without a swap the range may be almost sorted.                          *)
TryInsertion(s) ==
  LET low == InsertionSortIncomplete(s.a, s.first, s.i)
      high == InsertionSortIncomplete(low.a, s.i + 1, s.last)
      t == [s EXCEPT !.a = high.a]
  IN CASE low.complete /\ high.complete -> Pop(t)
       [] low.complete /\ ~high.complete -> [t EXCEPT !.first = s.i + 1]
       [] ~low.complete /\ high.complete -> [t EXCEPT !.last = s.i]
       [] OTHER -> Split(t)

Halves(s, i, j) ==
  LET t == PivotInPlace(IF i + 1 < j THEN Partition(s, i + 1, j) ELSE [s EXCEPT !.i = i + 1])
  IN IF t.outside THEN t ELSE IF t.swaps = 0 THEN TryInsertion(t) ELSE Split(t)

Quick(unpivoted) ==
  LET s == Pivot(unpivoted)
      l == s.last - 1
      less == {p \in (s.first + 1)..(l - 1) : s.a[p] < s.a[s.m]}
  IN IF s.a[s.first] < s.a[s.m] THEN Halves(s, s.first, l)
     ELSE IF less = {} THEN EqualToFirst(s)
     ELSE Halves(Swap(s, s.first, Max(less)), s.first, Max(less))

-------------------------------------------------------------------------------
(* counting_sort, by the last digit. Descending, the loop writes through   *)
(* an iterator that moves as fast as the count beside it falls, and never  *)
(* reads the second element: one place is written.                         *)

CountingSort(in, out, ascending) ==
  LET upTo(d) == Cardinality({q \in DOMAIN in : in[q] % Digits <= d})
      place(p) == upTo(in[p] % Digits) - 1
                  - Cardinality({q \in DOMAIN in : q < p /\ in[q] % Digits = in[p] % Digits})
      n == Cardinality(DOMAIN in)
  IN IF ascending THEN [q \in DOMAIN in |-> in[CHOOSE p \in DOMAIN in : place(p) = q]]
     ELSE IF n = 0 THEN out ELSE [out EXCEPT ![n - upTo(in[0] % Digits)] = in[0]]

-------------------------------------------------------------------------------
(* The calls.                                                              *)

Range0(n, values) == [0..(n - 1) -> values]

(* Networks are given 0 and 1: one that sorts those sorts everything. For  *)
(* 32 each eight are in order, as its first calls leave them: they are     *)
(* four times those of sort_8.                                             *)
Quarters(n) == {[p \in 0..(n - 1) |-> IF p % 8 < ones[p \div 8] THEN 0 ELSE 1]
                : ones \in [0..((n \div 8) - 1) -> 0..8]}

StartSort(a, by) ==
  [call |-> by, in |-> a, a |-> a, first |-> 0, last |-> Cardinality(DOMAIN a), rest |-> <<>>,
   m |-> 0, i |-> 0, swaps |-> 0, outside |-> FALSE, done |-> FALSE]

SortInit ==
  \/ \E n \in Lengths, by \in {"sort", "sort_to", "sort_to greater"} : \E a \in Range0(n, SortValues) : sorting = StartSort(a, by)
  \/ \E n \in {3, 4, 5, 6, 7, 8} : \E a \in Range0(n, {0, 1}) : sorting = StartSort(a, "network")
  \/ \E a \in Range0(16, {0, 1}) \cup Quarters(32) : sorting = StartSort(a, "network")

(* sort_to copies or counts into the output, which it then sorts.          *)
SortTo ==
  /\ sorting.call = "sort_to"
  /\ sorting' = [sorting EXCEPT !.call = "sort", !.a = CountingSort(sorting.in, sorting.in, TRUE)]

(* With a comparison that sorts downwards; what follows only reorders.     *)
SortToGreater ==
  /\ sorting.call = "sort_to greater" /\ ~sorting.done
  /\ \E old \in SortValues :
       sorting' = [sorting EXCEPT !.done = TRUE,
                     !.a = CountingSort(sorting.in, [p \in DOMAIN sorting.in |-> old], FALSE)]

SortN ==
  /\ sorting.call = "network" /\ ~sorting.done
  /\ sorting' = [sorting EXCEPT !.a = Applied(@, Network(sorting.last), 0), !.done = TRUE]

Going == sorting.call = "sort" /\ ~sorting.done /\ ~sorting.outside
Span == sorting.last - sorting.first

Short ==
  /\ Going /\ (Span < 2 \/ Span \in NetworkSizes \/ Span < Limit)
  /\ sorting' = Pop([sorting EXCEPT !.a =
       IF Span < 2 THEN @
       ELSE IF Span \in NetworkSizes THEN Applied(@, Networks[Span], sorting.first)
       ELSE InsertionSort3(@, sorting.first, sorting.last)])

Long ==
  /\ Going /\ Span >= Limit /\ Span \notin NetworkSizes
  /\ sorting' = Quick(sorting)

SortNext == SortTo \/ SortToGreater \/ SortN \/ Short \/ Long
SortSpec == SortInit /\ [][SortNext]_sorting

-------------------------------------------------------------------------------
(* Properties.                                                             *)

Count(a, x) == Cardinality({p \in DOMAIN a : a[p] = x})

(* The recursion takes the shorter part, so that it is no deeper than the  *)
(* number of times the length can be halved.                               *)
RecursionIsShallow ==
  LET s == sorting IN
  ~s.done => (s.last - s.first) * 2 ^ Len(s.rest) <= Cardinality(DOMAIN s.a)

(* Whatever way the range is partitioned, cut up and gone on with: no loop *)
(* leaves it, no element is lost or doubled at any time, the stack stays   *)
(* shallow, and when sort, sort_to or a network returns the elements are   *)
(* in order. (sort_to with a comparison that sorts downwards is another    *)
(* matter: see CountingSort.)                                              *)
SortsInPlace ==
  LET s == sorting IN
  s.call # "sort_to greater" =>
    /\ ~s.outside /\ RecursionIsShallow
    /\ \A x \in SortValues : Count(s.a, x) = Count(s.in, x)
    /\ s.done => \A p, q \in DOMAIN s.a : p < q => s.a[p] <= s.a[q]
===============================================================================
