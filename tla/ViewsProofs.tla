------------------------------- MODULE ViewsProofs ------------------------------
(***************************************************************************)
(* Proofs about views of an array, for arrays of any length and whatever   *)
(* they hold: a view and what is taken from it stay next to each other and *)
(* inside the array, and the comparison of two views is an order that goes *)
(* with what they show.                                                    *)
(***************************************************************************)
EXTENDS Views, FiniteSetTheorems, TLAPS

-------------------------------------------------------------------------------
(* The least and the greatest of a set of numbers.                         *)

(* A property some number has is one that a least number has: this stands  *)
(* for induction in what follows.                                          *)
LEMMA LeastNatural ==
  ASSUME NEW S \in SUBSET Nat, S # {}
  PROVE  \E m \in S : \A k \in S : m <= k
<1> DEFINE below(n) == 0 .. n
           W == {below(n) : n \in S}
<1>1. W \subseteq FiniteSubsetsOf(Nat)
  <2> SUFFICES ASSUME NEW n \in Nat PROVE IsFiniteSet(0 .. n) /\ 0 .. n \subseteq Nat
    BY DEF FiniteSubsetsOf
  <2> QED
    BY FS_Interval
<1>2. IsWellFoundedOn(StrictSubsetOrdering(Nat), FiniteSubsetsOf(Nat))
  BY FS_StrictSubsetOrderingWellFounded
<1>3. W # {}
  OBVIOUS
<1>4. PICK x \in W : \A y \in W : <<y, x>> \notin StrictSubsetOrdering(Nat)
  <2> HIDE DEF W
  <2> QED
    BY <1>1, <1>2, <1>3, WFMin
<1>5. PICK m \in S : x = 0 .. m
  OBVIOUS
<1>6. ASSUME NEW k \in S, k < m PROVE FALSE
  <2>1. 0 .. k \subseteq 0 .. m /\ 0 .. k # 0 .. m
    BY <1>6
  <2>2. <<0 .. k, x>> \in StrictSubsetOrdering(Nat)
    BY <1>5, <2>1 DEF StrictSubsetOrdering
  <2> QED
    BY <1>4, <2>2
<1> QED
  BY <1>6

LEMMA MinOf ==
  ASSUME NEW S \in SUBSET Nat, S # {}
  PROVE  Min(S) \in S /\ \A k \in S : Min(S) <= k
<1>1. \E m \in S : \A k \in S : m <= k
  BY LeastNatural
<1> QED
  BY <1>1 DEF Min

LEMMA MaxUpTo ==
  ASSUME NEW n \in Nat, NEW S \in SUBSET (0 .. n), S # {}
  PROVE  Max(S) \in S /\ \A k \in S : k <= Max(S)
<1> DEFINE T == {n - k : k \in S}
<1>1. T \in SUBSET Nat /\ T # {}
  <2>1. \A k \in S : n - k \in Nat
    OBVIOUS
  <2> QED
    BY <2>1
<1>2. PICK t \in T : \A k \in T : t <= k
  <2> HIDE DEF T
  <2> QED
    BY <1>1, LeastNatural
<1>3. PICK m \in S : t = n - m
  OBVIOUS
<1>4. \A k \in S : m >= k
  <2> TAKE k \in S
  <2>1. n - k \in T
    OBVIOUS
  <2>2. n - m <= n - k
    BY <1>2, <1>3, <2>1
  <2>3. m \in Nat /\ k \in Nat
    OBVIOUS
  <2> QED
    BY <2>2, <2>3
<1>5. Max(S) \in S /\ \A k \in S : Max(S) >= k
  BY <1>4 DEF Max
<1>6. \A k \in S : k \in Nat
  OBVIOUS
<1> QED
  BY <1>5, <1>6

LEMMA MinOfTwo ==
  ASSUME NEW a \in Int, NEW b \in Int
  PROVE  Min({a, b}) = IF a <= b THEN a ELSE b
<1> DEFINE m == IF a <= b THEN a ELSE b
<1>1. m \in {a, b} /\ \A k \in {a, b} : m <= k
  OBVIOUS
<1>2. \A x, y \in {a, b} : x <= y /\ y <= x => x = y
  OBVIOUS
<1> HIDE DEF m
<1>3. Min({a, b}) \in {a, b} /\ \A k \in {a, b} : Min({a, b}) <= k
  BY <1>1 DEF Min
<1>4. Min({a, b}) = m
  BY <1>1, <1>2, <1>3
<1> QED
  BY <1>4 DEF m

LEMMA MaxOfTwo ==
  ASSUME NEW a \in Int, NEW b \in Int
  PROVE  Max({a, b}) = IF a >= b THEN a ELSE b
<1> DEFINE m == IF a >= b THEN a ELSE b
<1>1. m \in {a, b} /\ \A k \in {a, b} : m >= k
  OBVIOUS
<1>2. \A x, y \in {a, b} : x >= y /\ y >= x => x = y
  OBVIOUS
<1> HIDE DEF m
<1>3. Max({a, b}) \in {a, b} /\ \A k \in {a, b} : Max({a, b}) >= k
  BY <1>1 DEF Max
<1>4. Max({a, b}) = m
  BY <1>1, <1>2, <1>3
<1> QED
  BY <1>4 DEF m

-------------------------------------------------------------------------------
(* What is true of a view after any calls, besides ViewsPart: it begins in *)
(* or behind the array, which keeps its length.                            *)

PartsOf == [first : Int, last : Int, size : Int]
Arrays(n) == [0 .. n - 1 -> Items]

SeenTyped(n) ==
  /\ seen = [kind |-> seen.kind, mem |-> seen.mem, was |-> seen.was, view |-> seen.view,
             before |-> seen.before, call |-> seen.call]
  /\ seen.mem \in Arrays(n) /\ seen.was \in Arrays(n)
  /\ viewed \in PartsOf /\ viewed.first >= 0

SeenInv == (\E n \in ArrayLengths : SeenTyped(n)) /\ ViewsPart

(* A view inside an array of length n.                                     *)
Within(v, n) ==
  v \in PartsOf /\ v.first \in Nat /\ v.last \in Nat /\ v.first <= v.last /\ v.last <= n /\ v.size = v.last - v.first

LEMMA NotAstray ==
  ASSUME SeenInv, ~Astray(viewed)
  PROVE  \E n \in ArrayLengths : n \in Nat /\ n < SizeRange /\ SeenTyped(n) /\ Within(viewed, n)
<1> USE ViewsAssumption
<1>1. PICK n \in ArrayLengths : SeenTyped(n)
  BY DEF SeenInv
<1>2. n \in Nat /\ n < SizeRange
  OBVIOUS
<1>3. DOMAIN seen.mem = 0 .. n - 1
  BY <1>1 DEF SeenTyped, Arrays
<1>4. viewed \in PartsOf /\ viewed.first >= 0 /\ viewed.first \in Int /\ viewed.last \in Int
  BY <1>1 DEF SeenTyped, PartsOf
<1>5. ~(viewed.first > viewed.last) /\ viewed.last - 1 \in (0 .. n - 1) \cup {-1}
  BY <1>3 DEF Astray
<1>6. viewed.size = viewed.last - viewed.first
  BY DEF SeenInv, ViewsPart
<1>7. viewed.first <= viewed.last /\ viewed.last <= n /\ viewed.first \in Nat /\ viewed.last \in Nat
  BY <1>2, <1>4, <1>5
<1> QED
  BY <1>1, <1>2, <1>4, <1>6, <1>7 DEF Within

AstrayIn(v, n) == v.first > v.last \/ v.last - 1 \notin (0 .. n - 1) \cup {-1}

(* ViewsPart for a view v that call c made of a view b of an array mem of  *)
(* length n.                                                               *)
Searched(mem, c, p) == mem[p] = c.needle <=> c.call = "until"
Dropped(v, c) == c.handed.last .. v.first - 1
Takes(v, b, c, n, mem) ==
  /\ AstrayIn(v, n) => c.call = "unclipped"
  /\ ~AstrayIn(v, n) => v.size = v.last - v.first
  /\ c.call \in {"pop_front", "write", "until", "while"} =>
       c.handed.first = b.first /\ v.last = b.last /\ c.handed.last <= v.first
  /\ c.call \in {"pop_front", "write"} => Dropped(v, c) = {}
  /\ c.call \in {"until", "while"} =>
       /\ \A p \in c.handed.first .. c.handed.last - 1 : ~Searched(mem, c, p)
       /\ c.handed.last # b.last => Searched(mem, c, c.handed.last)
       /\ IF c.discard /\ c.handed.last # b.last THEN Dropped(v, c) = {c.handed.last} ELSE Dropped(v, c) = {}
  /\ c.call = "pop_back" => v.first = b.first /\ c.handed.last = b.last /\ c.handed.first = v.last
  /\ c.call = "subspan" => b.first <= v.first /\ v.last <= b.last

LEMMA PartIs ==
  ASSUME NEW n \in Nat, SeenTyped(n)
  PROVE  ViewsPart <=>
           /\ Takes(viewed, seen.before, seen.call, n, seen.mem)
           /\ \A p \in 0 .. n - 1 : seen.mem[p] # seen.was[p] =>
                seen.call.call = "write" /\ p \in seen.call.handed.first .. seen.call.handed.last - 1
<1>1. DOMAIN seen.mem = 0 .. n - 1
  BY DEF SeenTyped, Arrays
<1>2. Astray(viewed) <=> AstrayIn(viewed, n)
  BY <1>1 DEF Astray, AstrayIn
<1> QED
  BY <1>1, <1>2 DEF ViewsPart, Takes, Searched, Dropped

(* A call that only takes from the view.                                   *)
LEMMA Taken ==
  ASSUME NEW n \in ArrayLengths, SeenTyped(n), NEW v \in PartsOf, v.first >= 0, NEW c,
         Takes(v, viewed, c, n, seen.mem), Called(v, c)
  PROVE  SeenInv'
<1>1. n \in Nat
  BY ViewsAssumption
<1>2. seen' = [kind |-> seen.kind, mem |-> seen.mem, was |-> seen.mem, view |-> v, before |-> viewed, call |-> c]
  BY DEF Called, SeenTyped, viewed
<1>3. /\ seen'.kind = seen.kind /\ seen'.mem = seen.mem /\ seen'.was = seen.mem /\ seen'.view = v
      /\ seen'.before = viewed /\ seen'.call = c
  BY <1>2
<1>4. SeenTyped(n)'
  <2>1. seen.mem \in Arrays(n)
    BY DEF SeenTyped
  <2> QED
    BY <1>2, <1>3, <2>1 DEF SeenTyped, viewed
<1>5. ViewsPart'
  <2>1. ViewsPart' <=>
           /\ Takes(viewed', seen'.before, seen'.call, n, seen'.mem)
           /\ \A p \in 0 .. n - 1 : seen'.mem[p] # seen'.was[p] =>
                seen'.call.call = "write" /\ p \in seen'.call.handed.first .. seen'.call.handed.last - 1
    <3>1. DOMAIN seen'.mem = 0 .. n - 1
      BY <1>4 DEF SeenTyped, Arrays
    <3>2. Astray(viewed)' <=> AstrayIn(viewed', n)
      BY <3>1 DEF Astray, AstrayIn
    <3> QED
      BY <3>1, <3>2 DEF ViewsPart, Takes, Searched, Dropped
  <2> QED
    <3>1. viewed' = v
      BY <1>3 DEF viewed
    <3> QED
      BY <1>3, <2>1, <3>1
<1> QED
  BY <1>4, <1>5 DEF SeenInv

(* What calls there are take from a view b within an array.                *)

(* A call that is not clipped may lead anywhere.                           *)
LEMMA Unclipped ==
  ASSUME NEW n, NEW mem, NEW b, NEW v, v.size = v.last - v.first, NEW c, c.call = "unclipped"
  PROVE  Takes(v, b, c, n, mem)
  BY DEF Takes

LEMMA WithinIs ==
  ASSUME NEW n \in Nat, NEW v, Within(v, n)
  PROVE  ~AstrayIn(v, n) /\ v \in PartsOf /\ v.first >= 0 /\ v.size = v.last - v.first /\ v.size \in Nat
<1>1. v.first \in Nat /\ v.last \in Nat /\ v.first <= v.last /\ v.last <= n
  BY DEF Within
<1>2. ~(v.first > v.last)
  BY <1>1
<1>3. v.last - 1 \in (0 .. n - 1) \cup {-1}
  BY <1>1
<1> QED
  BY <1>1, <1>2, <1>3 DEF Within, AstrayIn

LEMMA PartWithin ==
  ASSUME NEW n \in Nat, NEW first \in Nat, NEW last \in Nat, first <= last, last <= n
  PROVE  /\ Within(Part(first, last), n)
         /\ Part(first, last).first = first /\ Part(first, last).last = last
         /\ Part(first, last).size = last - first
  BY DEF Within, Part, PartsOf

LEMMA TakenFront ==
  ASSUME NEW n \in Nat, NEW mem, NEW b, Within(b, n), NEW m \in Int, 0 <= m, m <= b.size,
         NEW first, first = b.first + m, NEW v, v = Part(first, b.last), NEW c, c.call \in {"pop_front", "write"},
         c.handed.first = b.first, c.handed.last = first
  PROVE  Within(v, n) /\ Takes(v, b, c, n, mem)
<1>1. b.first \in Nat /\ b.last \in Nat /\ b.last <= n /\ m <= b.last - b.first
  BY DEF Within
<1>2. first \in Nat /\ first <= b.last
  BY <1>1
<1>3. Within(v, n) /\ v.first = first /\ v.last = b.last
  BY <1>1, <1>2, PartWithin
<1>4. ~AstrayIn(v, n) /\ v.size = v.last - v.first
  BY <1>3, WithinIs
<1>5. \A k \in Int : k .. k - 1 = {} /\ k <= k
  OBVIOUS
<1>6. c.handed.last = v.first /\ v.first \in Int
  BY <1>2, <1>3
<1>7. Dropped(v, c) = {} /\ c.handed.last <= v.first
  BY <1>5, <1>6 DEF Dropped
<1> QED
  BY <1>3, <1>4, <1>7 DEF Takes

LEMMA TakenBack ==
  ASSUME NEW n \in Nat, NEW mem, NEW b, Within(b, n), NEW m \in Int, 0 <= m, m <= b.size,
         NEW last, last = b.last - m, NEW v, v = Part(b.first, last), NEW c, c.call = "pop_back",
         c.handed.first = last, c.handed.last = b.last
  PROVE  Within(v, n) /\ Takes(v, b, c, n, mem)
<1>1. b.first \in Nat /\ b.last \in Nat /\ b.last <= n /\ m <= b.last - b.first
  BY DEF Within
<1>2. last \in Nat /\ b.first <= last /\ last <= n
  BY <1>1
<1>3. Within(v, n) /\ v.first = b.first /\ v.last = last
  BY <1>1, <1>2, PartWithin
<1>4. ~AstrayIn(v, n) /\ v.size = v.last - v.first
  BY <1>3, WithinIs
<1> QED
  BY <1>3, <1>4 DEF Takes

(* A call that says nothing of what it gives away, but stays in the array. *)
LEMMA StaysWithin ==
  ASSUME NEW n \in Nat, NEW mem, NEW b, NEW v, Within(v, n), NEW c, c.call \in {"subspan", "add"},
         c.call = "subspan" => b.first <= v.first /\ v.last <= b.last
  PROVE  Takes(v, b, c, n, mem)
<1>1. ~AstrayIn(v, n) /\ v.size = v.last - v.first
  BY WithinIs
<1> QED
  BY <1>1 DEF Takes

(* What is popped until, or while, there is a needle.                      *)
LEMMA TakenTo ==
  ASSUME NEW n \in Nat, NEW mem, NEW b, Within(b, n), NEW pos \in Nat, b.first <= pos, pos <= b.last,
         NEW c, c.call \in {"until", "while"}, c.handed.first = b.first, c.handed.last = pos,
         c.discard \in BOOLEAN,
         \A p \in b.first .. pos - 1 : ~Searched(mem, c, p),
         pos # b.last => Searched(mem, c, pos),
         NEW v, v = Part(IF c.discard /\ pos # b.last THEN pos + 1 ELSE pos, b.last)
  PROVE  Within(v, n) /\ Takes(v, b, c, n, mem)
<1> DEFINE first == IF c.discard /\ pos # b.last THEN pos + 1 ELSE pos
<1>1. b.first \in Nat /\ b.last \in Nat /\ b.last <= n
  BY DEF Within
<1>2. first \in Nat /\ first <= b.last /\ pos <= first
  BY <1>1
<1> HIDE DEF first
<1>20. v = Part(first, b.last)
  BY DEF first
<1>3. Within(v, n) /\ v.first = first /\ v.last = b.last
  BY <1>1, <1>2, <1>20, PartWithin
<1>4. ~AstrayIn(v, n) /\ v.size = v.last - v.first
  BY <1>3, WithinIs
<1>5. Dropped(v, c) = pos .. first - 1
  BY <1>3 DEF Dropped
<1>6. ASSUME c.discard, pos # b.last PROVE Dropped(v, c) = {pos}
  <2>1. first - 1 = pos
    BY <1>6 DEF first
  <2>2. pos .. pos = {pos}
    OBVIOUS
  <2> QED
    BY <1>5, <2>1, <2>2
<1>7. ASSUME ~(c.discard /\ pos # b.last) PROVE Dropped(v, c) = {}
  <2>1. first = pos
    BY <1>7 DEF first
  <2>2. pos .. pos - 1 = {}
    OBVIOUS
  <2> QED
    BY <1>5, <2>1, <2>2
<1>8. IF c.discard /\ c.handed.last # b.last THEN Dropped(v, c) = {c.handed.last} ELSE Dropped(v, c) = {}
  BY <1>6, <1>7
<1>9. c.handed.first = b.first /\ v.last = b.last /\ c.handed.last <= v.first
  BY <1>2, <1>3
<1>10. /\ \A p \in c.handed.first .. c.handed.last - 1 : ~Searched(mem, c, p)
       /\ c.handed.last # b.last => Searched(mem, c, c.handed.last)
  OBVIOUS
<1> QED
  BY <1>3, <1>4, <1>8, <1>9, <1>10 DEF Takes

-------------------------------------------------------------------------------
(* How views drop what they take.                                          *)

LEMMA AmountsAre ==
  ASSUME NEW k \in Amounts
  PROVE  k \in Int /\ 0 <= k
  BY DEF Amounts

LEMMA PartIn ==
  ASSUME NEW first \in Int, NEW last \in Int
  PROVE  /\ Part(first, last) \in PartsOf /\ Part(first, last).first = first /\ Part(first, last).last = last
         /\ Part(first, last).size = last - first
  BY DEF Part, PartsOf

LEMMA DroppedIs ==
  ASSUME NEW x \in Int, NEW y \in Int, NEW z \in Int, NEW m \in Int, NEW b, b = [first |-> x, last |-> y, size |-> z]
  PROVE  /\ DropFront(b, m) = [first |-> x + m, last |-> y, size |-> z - m]
         /\ DropBack(b, m) = [first |-> x, last |-> y - m, size |-> z - m]
<1> DEFINE p == DropFront(b, m)
           q == DropBack(b, m)
<1>1. p = [b EXCEPT !.first = @ + m, !.size = @ - m]
  BY DEF DropFront
<1>2. q = [b EXCEPT !.last = @ - m, !.size = @ - m]
  BY DEF DropBack
<1> HIDE DEF p, q
<1>3. p = [first |-> x + m, last |-> y, size |-> z - m]
  BY <1>1
<1>4. q = [first |-> x, last |-> y - m, size |-> z - m]
  BY <1>2
<1> QED
  BY <1>3, <1>4 DEF p, q

LEMMA DropFrontIs ==
  ASSUME NEW n \in Nat, NEW b, Within(b, n), NEW m \in Int, NEW first, first = b.first + m
  PROVE  DropFront(b, m) = Part(first, b.last)
<1>1. b \in PartsOf /\ b.size = b.last - b.first /\ b.first \in Int /\ b.last \in Int
  BY DEF Within
<1>2. b = [first |-> b.first, last |-> b.last, size |-> b.size]
  BY <1>1 DEF PartsOf
<1>3. b.size - m = b.last - first
  BY <1>1
<1>4. DropFront(b, m) = [first |-> b.first + m, last |-> b.last, size |-> b.size - m]
  <2> DEFINE x == b.first
             y == b.last
             z == b.size
  <2>1. b = [first |-> x, last |-> y, size |-> z]
    BY <1>2
  <2>3. x \in Int /\ y \in Int /\ z \in Int
    BY <1>1 DEF PartsOf
  <2> HIDE DEF x, y, z
  <2>2. DropFront(b, m) = [first |-> x + m, last |-> y, size |-> z - m]
    BY <2>1, <2>3, DroppedIs
  <2> QED
    BY <2>2 DEF x, y, z
<1> QED
  BY <1>3, <1>4 DEF Part

LEMMA DropBackIs ==
  ASSUME NEW n \in Nat, NEW b, Within(b, n), NEW m \in Int, NEW last, last = b.last - m
  PROVE  DropBack(b, m) = Part(b.first, last)
<1>1. b \in PartsOf /\ b.size = b.last - b.first /\ b.first \in Int /\ b.last \in Int
  BY DEF Within
<1>2. b = [first |-> b.first, last |-> b.last, size |-> b.size]
  BY <1>1 DEF PartsOf
<1>3. b.size - m = last - b.first
  BY <1>1
<1>4. DropBack(b, m) = [first |-> b.first, last |-> b.last - m, size |-> b.size - m]
  <2> DEFINE x == b.first
             y == b.last
             z == b.size
  <2>1. b = [first |-> x, last |-> y, size |-> z]
    BY <1>2
  <2>3. x \in Int /\ y \in Int /\ z \in Int
    BY <1>1 DEF PartsOf
  <2> HIDE DEF x, y, z
  <2>2. /\ DropFront(b, m) = [first |-> x + m, last |-> y, size |-> z - m]
        /\ DropBack(b, m) = [first |-> x, last |-> y - m, size |-> z - m]
    BY <2>1, <2>3, DroppedIs
  <2> QED
    BY <2>2 DEF x, y, z
<1> QED
  BY <1>3, <1>4 DEF Part

LEMMA SizedIs ==
  ASSUME NEW first \in Int, NEW size \in Int, NEW last, last = first + size
  PROVE  Sized(first, size) = Part(first, last)
<1>1. last - first = size
  OBVIOUS
<1> QED
  BY <1>1 DEF Sized, Part

(* As much as there is.                                                    *)
LEMMA ClippedIs ==
  ASSUME NEW a \in Int, 0 <= a, NEW b \in Nat
  PROVE  /\ Min({a, b}) \in Int /\ 0 <= Min({a, b}) /\ Min({a, b}) <= b /\ Min({a, b}) <= a
         /\ a <= b => Min({a, b}) = a
<1>1. Min({a, b}) = IF a <= b THEN a ELSE b
  BY MinOfTwo
<1> QED
  BY <1>1

LEMMA SmallRemainder ==
  ASSUME NEW p \in Nat, NEW k \in Nat, k < p
  PROVE  k % p = k
  OBVIOUS

LEMMA SpanDropFrontIs ==
  ASSUME NEW n \in Nat, n < SizeRange, NEW b, Within(b, n), NEW m \in Int, 0 <= m, m <= b.size,
         NEW first, first = b.first + m
  PROVE  SpanDropFront(b, m) = Part(first, b.last)
<1>1. b.size = b.last - b.first /\ b.first \in Nat /\ b.last \in Nat /\ b.last <= n /\ b.first <= b.last
  BY DEF Within
<1>2. b.size - m \in Nat /\ b.size - m < SizeRange /\ SizeRange \in Nat
  BY <1>1, ViewsAssumption
<1>3. (b.size - m) % SizeRange = b.size - m
  BY <1>2, SmallRemainder
<1> DEFINE size == b.size - m
<1>4. first \in Int /\ size \in Int /\ b.last = first + size
  BY <1>1
<1>5. SpanDropFront(b, m) = Sized(first, size)
  BY <1>3 DEF SpanDropFront
<1> HIDE DEF size
<1> QED
  BY <1>4, <1>5, SizedIs

LEMMA SpanDropBackIs ==
  ASSUME NEW n \in Nat, n < SizeRange, NEW b, Within(b, n), NEW m \in Int, 0 <= m, m <= b.size,
         NEW last, last = b.last - m
  PROVE  SpanDropBack(b, m) = Part(b.first, last)
<1>1. b.size = b.last - b.first /\ b.first \in Nat /\ b.last \in Nat /\ b.last <= n /\ b.first <= b.last
  BY DEF Within
<1>2. b.size - m \in Nat /\ b.size - m < SizeRange /\ SizeRange \in Nat
  BY <1>1, ViewsAssumption
<1>3. (b.size - m) % SizeRange = b.size - m
  BY <1>2, SmallRemainder
<1> DEFINE size == b.size - m
<1>4. b.first \in Int /\ size \in Int /\ last = b.first + size
  BY <1>1
<1>5. SpanDropBack(b, m) = Sized(b.first, size)
  BY <1>3 DEF SpanDropBack
<1> HIDE DEF size
<1> QED
  BY <1>4, <1>5, SizedIs

LEMMA SubspanIs ==
  ASSUME NEW n \in Nat, NEW b, Within(b, n), NEW pos \in Int, 0 <= pos, pos <= b.size, NEW count \in Int, 0 <= count
  PROVE  /\ Within(SpanSubspan(b, pos, count), n)
         /\ SpanSubspan(b, pos, count).first = b.first + pos
         /\ SpanSubspan(b, pos, count).last <= b.last
         /\ count <= b.size - pos => SpanSubspan(b, pos, count).last = b.first + pos + count
<1>1. b.size = b.last - b.first /\ b.first \in Nat /\ b.last \in Nat /\ b.last <= n
  BY DEF Within
<1> DEFINE room == b.size - pos
           size == Min({count, room})
           first == b.first + pos
           last == first + size
           v == SpanSubspan(b, pos, count)
<1>2. room \in Nat
  BY <1>1
<1> HIDE DEF room
<1>3. size \in Int /\ 0 <= size /\ size <= room /\ (count <= room => size = count)
  BY <1>2, ClippedIs
<1>4. v = Sized(first, size)
  BY DEF SpanSubspan, room
<1> HIDE DEF size, v
<1>5. first \in Nat /\ last \in Nat /\ first <= last /\ last <= b.last /\ last <= n
  BY <1>1, <1>3 DEF room
<1>6. v = Part(first, last)
  <2>1. first \in Int
    BY <1>5
  <2> HIDE DEF first
  <2> QED
    BY <1>3, <1>4, <2>1, SizedIs
<1> HIDE DEF first, last
<1>7. Within(v, n) /\ v.first = first /\ v.last = last
  BY <1>5, <1>6, PartWithin
<1>8. count <= room => last = first + count
  BY <1>3 DEF last
<1> QED
  BY <1>5, <1>7, <1>8 DEF first, room, v

-------------------------------------------------------------------------------
(* The calls of each kind of view, from a view within the array.           *)

LEMMA FrontClipped ==
  ASSUME NEW n \in ArrayLengths, SeenTyped(n), Within(viewed, n), NEW k \in Int, 0 <= k,
         Did("pop_front", DropFront(viewed, Min({k, viewed.size})), FrontPart(Min({k, viewed.size})))
  PROVE  SeenInv'
<1> DEFINE b == viewed
           mem == seen.mem
<1>11. n \in Nat /\ n < SizeRange
  BY ViewsAssumption
<1>12. b.size \in Nat /\ b.first \in Nat /\ b.last \in Nat /\ b.size = b.last - b.first
  BY <1>11 DEF Within
<1> DEFINE m == Min({k, b.size})
           first == b.first + m
           handed == FrontPart(m)
           c == [call |-> "pop_front", handed |-> handed]
           v == DropFront(b, m)
<1>1. Called(v, c)
  BY DEF Did
<1>2. c.call = "pop_front" /\ c.handed = handed
  OBVIOUS
<1>3. handed.first = b.first /\ handed.last = first
  BY DEF FrontPart, Part
<1> HIDE DEF b, c, handed
<1>4. m \in Int /\ 0 <= m /\ m <= b.size
  BY <1>12, ClippedIs
<1> HIDE DEF m
<1>5. first = b.first + m
  OBVIOUS
<1> HIDE DEF first
<1>6. v = Part(first, b.last)
  BY <1>11, <1>4, <1>5, DropFrontIs DEF b
<1> HIDE DEF v
<1>7. Within(v, n) /\ Takes(v, b, c, n, mem)
  BY <1>11, <1>2, <1>3, <1>4, <1>5, <1>6, TakenFront DEF b
<1> QED
  BY <1>11, <1>1, <1>7, Taken, WithinIs DEF b

LEMMA BackClipped ==
  ASSUME NEW n \in ArrayLengths, SeenTyped(n), Within(viewed, n), NEW k \in Int, 0 <= k,
         Did("pop_back", DropBack(viewed, Min({k, viewed.size})), BackPart(Min({k, viewed.size})))
  PROVE  SeenInv'
<1> DEFINE b == viewed
           mem == seen.mem
<1>11. n \in Nat /\ n < SizeRange
  BY ViewsAssumption
<1>12. b.size \in Nat /\ b.first \in Nat /\ b.last \in Nat /\ b.size = b.last - b.first
  BY <1>11 DEF Within
<1> DEFINE m == Min({k, b.size})
           last == b.last - m
           handed == BackPart(m)
           c == [call |-> "pop_back", handed |-> handed]
           v == DropBack(b, m)
<1>1. Called(v, c)
  BY DEF Did
<1>2. c.call = "pop_back" /\ c.handed = handed
  OBVIOUS
<1>3. handed.first = last /\ handed.last = b.last
  BY DEF BackPart, Part
<1> HIDE DEF b, c, handed
<1>4. m \in Int /\ 0 <= m /\ m <= b.size
  BY <1>12, ClippedIs
<1> HIDE DEF m
<1>5. last = b.last - m
  OBVIOUS
<1> HIDE DEF last
<1>6. v = Part(b.first, last)
  BY <1>11, <1>4, <1>5, DropBackIs DEF b
<1> HIDE DEF v
<1>7. Within(v, n) /\ Takes(v, b, c, n, mem)
  BY <1>11, <1>2, <1>3, <1>4, <1>5, <1>6, TakenBack DEF b
<1> QED
  BY <1>11, <1>1, <1>7, Taken, WithinIs DEF b

LEMMA FrontUnclipped ==
  ASSUME NEW n \in ArrayLengths, SeenTyped(n), Within(viewed, n), NEW k \in Int, 0 <= k,
         Did("unclipped", DropFront(viewed, k), NoPart)
  PROVE  SeenInv'
<1> DEFINE b == viewed
           mem == seen.mem
<1>11. n \in Nat /\ n < SizeRange
  BY ViewsAssumption
<1>12. b.size \in Nat /\ b.first \in Nat /\ b.last \in Nat /\ b.size = b.last - b.first
  BY <1>11 DEF Within
<1> DEFINE first == b.first + k
           c == [call |-> "unclipped", handed |-> NoPart]
           v == DropFront(b, k)
<1>1. Called(v, c) /\ c.call = "unclipped"
  BY DEF Did
<1> HIDE DEF b, c
<1>2. first \in Int /\ first >= 0 /\ b.last \in Int /\ first = b.first + k
  BY <1>12
<1> HIDE DEF first
<1>3. v = Part(first, b.last)
  BY <1>11, <1>2, DropFrontIs DEF b
<1> HIDE DEF v
<1>6. v \in PartsOf /\ v.first >= 0
  BY <1>2, <1>3, PartIn
<1>7. v.size = v.last - v.first
  <2>1. Part(first, b.last).size = b.last - first /\ Part(first, b.last).last = b.last /\ Part(first, b.last).first = first
    BY <1>2, PartIn
  <2> QED
    BY <1>3, <2>1
<1>4. v \in PartsOf /\ v.first >= 0 /\ v.size = v.last - v.first
  BY <1>6, <1>7
<1>5. Takes(v, b, c, n, mem)
  BY <1>1, <1>4, Unclipped
<1> QED
  BY <1>11, <1>1, <1>4, <1>5, Taken DEF b

LEMMA BackUnclipped ==
  ASSUME NEW n \in ArrayLengths, SeenTyped(n), Within(viewed, n), NEW k \in Int, 0 <= k,
         Did("unclipped", DropBack(viewed, k), NoPart)
  PROVE  SeenInv'
<1> DEFINE b == viewed
           mem == seen.mem
<1>11. n \in Nat /\ n < SizeRange
  BY ViewsAssumption
<1>12. b.size \in Nat /\ b.first \in Nat /\ b.last \in Nat /\ b.size = b.last - b.first
  BY <1>11 DEF Within
<1> DEFINE last == b.last - k
           c == [call |-> "unclipped", handed |-> NoPart]
           v == DropBack(b, k)
<1>1. Called(v, c) /\ c.call = "unclipped"
  BY DEF Did
<1> HIDE DEF b, c
<1>2. last \in Int /\ b.first \in Int /\ b.first >= 0 /\ last = b.last - k
  BY <1>12
<1> HIDE DEF last
<1>3. v = Part(b.first, last)
  BY <1>11, <1>2, DropBackIs DEF b
<1> HIDE DEF v
<1>6. v \in PartsOf /\ v.first >= 0
  BY <1>2, <1>3, PartIn
<1>7. v.size = v.last - v.first
  <2>1. Part(b.first, last).size = last - b.first /\ Part(b.first, last).last = last /\ Part(b.first, last).first = b.first
    BY <1>2, PartIn
  <2> QED
    BY <1>3, <2>1
<1>4. v \in PartsOf /\ v.first >= 0 /\ v.size = v.last - v.first
  BY <1>6, <1>7
<1>5. Takes(v, b, c, n, mem)
  BY <1>1, <1>4, Unclipped
<1> QED
  BY <1>11, <1>1, <1>4, <1>5, Taken DEF b

LEMMA ViewCalls ==
  ASSUME SeenInv, ~Astray(viewed), OnView
  PROVE  SeenInv'
<1>1. PICK n \in ArrayLengths : n \in Nat /\ n < SizeRange /\ SeenTyped(n) /\ Within(viewed, n)
  BY NotAstray
<1>2. ASSUME NEW k \in Amounts PROVE k \in Int /\ 0 <= k
  BY AmountsAre
<1>3. ASSUME NEW k \in Amounts, ViewPopFront(k) PROVE SeenInv'
  BY <1>1, <1>2, <1>3, FrontClipped DEF ViewPopFront
<1>4. ASSUME NEW k \in Amounts, ViewPopBack(k) PROVE SeenInv'
  BY <1>1, <1>2, <1>4, BackClipped DEF ViewPopBack
<1>5. ASSUME NEW k \in Amounts, Did("unclipped", DropFront(viewed, k), NoPart) PROVE SeenInv'
  BY <1>1, <1>2, <1>5, FrontUnclipped
<1>6. ASSUME NEW k \in Amounts, Did("unclipped", DropBack(viewed, k), NoPart) PROVE SeenInv'
  BY <1>1, <1>2, <1>6, BackUnclipped
<1> QED
  BY <1>3, <1>4, <1>5, <1>6 DEF OnView

LEMMA SizedMoves ==
  ASSUME NEW n \in ArrayLengths, SeenTyped(n), NEW first \in Int, first >= 0, NEW size \in Int,
         NEW v, v = Sized(first, size), NEW handed, Did("unclipped", v, handed)
  PROVE  SeenInv'
<1> DEFINE c == [call |-> "unclipped", handed |-> handed]
           last == first + size
<1>1. Called(v, c) /\ c.call = "unclipped"
  BY DEF Did
<1> HIDE DEF c
<1>2. last \in Int /\ last = first + size
  OBVIOUS
<1> HIDE DEF last
<1>3. v = Part(first, last)
  BY <1>2, SizedIs
<1>4. /\ Part(first, last) \in PartsOf /\ Part(first, last).first = first /\ Part(first, last).last = last
      /\ Part(first, last).size = last - first
  BY <1>2, PartIn
<1>5. v \in PartsOf /\ v.first >= 0 /\ v.size = v.last - v.first
  BY <1>3, <1>4
<1>6. Takes(v, viewed, c, n, seen.mem)
  BY <1>1, <1>5, Unclipped
<1> QED
  BY <1>1, <1>5, <1>6, Taken

LEMMA RemainderIs ==
  ASSUME NEW p \in Nat, p > 0, NEW k \in Int
  PROVE  k % p \in Int
  OBVIOUS

LEMMA SpanCalls ==
  ASSUME SeenInv, ~Astray(viewed), OnSpan
  PROVE  SeenInv'
<1> SUFFICES ASSUME OnSpan PROVE SeenInv'
  OBVIOUS
<1>1. PICK n \in ArrayLengths : n \in Nat /\ n < SizeRange /\ SeenTyped(n) /\ Within(viewed, n)
  BY NotAstray
<1> DEFINE b == viewed
           mem == seen.mem
<1>2. b.size \in Nat /\ b.first \in Nat /\ b.last \in Nat /\ b.size = b.last - b.first
  BY <1>1 DEF Within
<1>3. ASSUME NEW k \in Amounts PROVE k \in Int /\ 0 <= k
  BY AmountsAre
<1>4. SizeRange \in Nat /\ SizeRange > 0
  BY <1>1, ViewsAssumption
<1>5. ASSUME NEW k \in Amounts PROVE (b.size - k) % SizeRange \in Int
  BY <1>2, <1>3, <1>4, RemainderIs
<1>6. ASSUME NEW k \in Amounts, NEW handed, Did("unclipped", SpanDropFront(b, k), handed) PROVE SeenInv'
  <2> DEFINE first == b.first + k
             size == (b.size - k) % SizeRange
             v == SpanDropFront(b, k)
  <2>1. v = Sized(first, size)
    BY DEF SpanDropFront
  <2>2. first \in Int /\ first >= 0 /\ size \in Int
    BY <1>2, <1>3, <1>5
  <2>3. Did("unclipped", v, handed)
    BY <1>6
  <2> HIDE DEF v, first, size
  <2> QED
    BY <1>1, <2>1, <2>2, <2>3, SizedMoves
<1>7. ASSUME NEW k \in Amounts, Did("unclipped", SpanDropBack(b, k), NoPart) PROVE SeenInv'
  <2> DEFINE first == b.first
             size == (b.size - k) % SizeRange
             v == SpanDropBack(b, k)
  <2>1. v = Sized(first, size)
    BY DEF SpanDropBack
  <2>2. first \in Int /\ first >= 0 /\ size \in Int
    BY <1>2, <1>3, <1>5
  <2>3. Did("unclipped", v, NoPart)
    BY <1>7
  <2> HIDE DEF v, first, size
  <2> QED
    BY <1>1, <2>1, <2>2, <2>3, SizedMoves
<1>8. ASSUME NEW k \in Amounts, ~(k > b.size), Did("pop_front", SpanDropFront(b, k), SpanSubspan(b, 0, k))
      PROVE  SeenInv'
  <2> DEFINE zero == 0
             first == b.first + k
             handed == SpanSubspan(b, zero, k)
             c == [call |-> "pop_front", handed |-> handed]
             v == SpanDropFront(b, k)
  <2>1. Called(v, c) /\ c.call = "pop_front" /\ c.handed = handed
    BY <1>8 DEF Did
  <2>2. zero \in Int /\ 0 <= zero /\ zero <= b.size /\ k <= b.size - zero
    BY <1>2, <1>3, <1>8
  <2>3. b.first + zero = b.first
    BY <1>2
  <2> HIDE DEF b, c, zero
  <2>4. k \in Int /\ 0 <= k /\ k <= b.size
    BY <1>2, <1>3, <1>8
  <2>5. /\ handed.first = b.first + zero
        /\ k <= b.size - zero => handed.last = b.first + zero + k
    BY <1>1, <1>3, <2>2, SubspanIs DEF b
  <2> HIDE DEF handed
  <2>6. handed.first = b.first /\ handed.last = first /\ first = b.first + k
    BY <2>2, <2>3, <2>5
  <2> HIDE DEF first
  <2>7. v = Part(first, b.last)
    BY <1>1, <2>4, <2>6, SpanDropFrontIs DEF b
  <2> HIDE DEF v
  <2>8. Within(v, n) /\ Takes(v, b, c, n, mem)
    BY <1>1, <2>1, <2>4, <2>6, <2>7, TakenFront DEF b
  <2> QED
    BY <1>1, <2>1, <2>8, Taken, WithinIs DEF b
<1>9. ASSUME NEW k \in Amounts, SpanPopBack(k) PROVE SeenInv'
  <2> DEFINE pos == b.size - k
             last == b.last - k
             handed == SpanSubspan(b, pos, k)
             c == [call |-> "pop_back", handed |-> handed]
             v == SpanDropBack(b, k)
  <2>1. k <= b.size /\ Called(v, c) /\ c.call = "pop_back" /\ c.handed = handed
    BY <1>9 DEF Did, SpanPopBack
  <2>2. pos \in Int /\ 0 <= pos /\ pos <= b.size /\ k <= b.size - pos
    BY <1>2, <1>3, <2>1
  <2>3. b.first + pos = last /\ b.first + pos + k = b.last /\ last = b.last - k
    BY <1>2, <1>3
  <2> HIDE DEF b, c, pos, last
  <2>4. k \in Int /\ 0 <= k /\ k <= b.size
    BY <1>3, <2>1
  <2>5. /\ handed.first = b.first + pos
        /\ k <= b.size - pos => handed.last = b.first + pos + k
    BY <1>1, <1>3, <2>2, SubspanIs DEF b
  <2> HIDE DEF handed
  <2>6. handed.first = last /\ handed.last = b.last
    BY <2>2, <2>3, <2>5
  <2>7. v = Part(b.first, last)
    BY <1>1, <2>3, <2>4, SpanDropBackIs DEF b
  <2> HIDE DEF v
  <2>8. Within(v, n) /\ Takes(v, b, c, n, mem)
    BY <1>1, <2>1, <2>3, <2>4, <2>6, <2>7, TakenBack DEF b
  <2> QED
    BY <1>1, <2>1, <2>8, Taken, WithinIs DEF b
<1>10. ASSUME NEW k \in Amounts, NEW pos \in 0 .. b.size, Did("subspan", SpanSubspan(b, pos, k), NoPart)
       PROVE  SeenInv'
  <2> DEFINE c == [call |-> "subspan", handed |-> NoPart]
             v == SpanSubspan(b, pos, k)
  <2>1. Called(v, c) /\ c.call = "subspan"
    BY <1>10 DEF Did
  <2>2. pos \in Int /\ 0 <= pos /\ pos <= b.size
    BY <1>2
  <2> HIDE DEF b, c
  <2>3. Within(v, n) /\ v.first = b.first + pos /\ v.last <= b.last
    BY <1>1, <1>3, <2>2, SubspanIs DEF b
  <2> HIDE DEF v
  <2>4. b.first <= v.first
    BY <1>2, <2>2, <2>3
  <2>5. Takes(v, b, c, n, mem)
    BY <1>1, <2>1, <2>3, <2>4, StaysWithin
  <2> QED
    BY <1>1, <2>1, <2>3, <2>5, Taken, WithinIs DEF b
<1>11. ASSUME NEW k \in Amounts, SpanPopFront(k) PROVE SeenInv'
  <2>1. CASE k > b.size
    BY <1>6, <1>11, <2>1 DEF SpanPopFront
  <2>2. CASE ~(k > b.size)
    BY <1>8, <1>11, <2>2 DEF SpanPopFront
  <2> QED
    BY <2>1, <2>2
<1> QED
  BY <1>6, <1>7, <1>9, <1>10, <1>11 DEF OnSpan

(* The first of the places in a range that will do, or the end.            *)
LEMMA FirstPlace ==
  ASSUME NEW first \in Nat, NEW last \in Nat, first <= last, NEW T, T \subseteq first .. last - 1
  PROVE  /\ Min(T \cup {last}) \in Nat /\ first <= Min(T \cup {last}) /\ Min(T \cup {last}) <= last
         /\ Min(T \cup {last}) # last => Min(T \cup {last}) \in T
         /\ \A p \in T : Min(T \cup {last}) <= p
<1> DEFINE S == T \cup {last}
           pos == Min(S)
<1>1. S \in SUBSET Nat /\ S # {}
  OBVIOUS
<1>2. \A k \in S : first <= k /\ k <= last
  OBVIOUS
<1>3. T \subseteq S /\ \A k \in S : k # last => k \in T
  OBVIOUS
<1> HIDE DEF S
<1>4. pos \in S /\ \A k \in S : pos <= k
  BY <1>1, MinOf
<1> HIDE DEF pos
<1>5. pos \in Nat /\ first <= pos /\ pos <= last /\ (pos # last => pos \in T) /\ \A p \in T : pos <= p
  BY <1>1, <1>2, <1>3, <1>4
<1> QED
  BY <1>5 DEF pos, S

LEMMA PoppedTo ==
  ASSUME NEW n \in ArrayLengths, SeenTyped(n), Within(viewed, n), NEW how \in {"until", "while"}, NEW needle,
         NEW pos, PopFrontTo(how, pos, needle),
         pos = Min({p \in viewed.first .. viewed.last - 1 : seen.mem[p] = needle <=> how = "until"} \cup {viewed.last})
  PROVE  SeenInv'
<1> DEFINE b == viewed
           mem == seen.mem
           T == {p \in b.first .. b.last - 1 : mem[p] = needle <=> how = "until"}
           handed == Part(b.first, pos)
           Call(discard) == [call |-> how, handed |-> handed, needle |-> needle, discard |-> discard]
           View(discard) == IF discard THEN ContiguousDropFront(Part(pos, b.last), 1) ELSE Part(pos, b.last)
<1>1. n \in Nat
  BY ViewsAssumption
<1>2. b.first \in Nat /\ b.last \in Nat /\ b.first <= b.last /\ b.last <= n
  BY DEF Within
<1>3. PICK discard \in BOOLEAN : Called(View(discard), Call(discard))
  BY DEF PopFrontTo
<1>4. T \subseteq b.first .. b.last - 1
  OBVIOUS
<1>5. \A p \in b.first .. b.last - 1 : p \in T <=> (mem[p] = needle <=> how = "until")
  OBVIOUS
<1>6. pos = Min(T \cup {b.last})
  OBVIOUS
<1> HIDE DEF b, T
<1>7. /\ pos \in Nat /\ b.first <= pos /\ pos <= b.last /\ (pos # b.last => pos \in T)
      /\ \A p \in b.first .. pos - 1 : p \notin T
  <2>1. /\ pos \in Nat /\ b.first <= pos /\ pos <= b.last /\ (pos # b.last => pos \in T)
        /\ \A p \in T : pos <= p
    <3> DEFINE m == Min(T \cup {b.last})
    <3>1. /\ m \in Nat /\ b.first <= m /\ m <= b.last
          /\ m # b.last => m \in T
          /\ \A p \in T : m <= p
      BY <1>2, <1>4, FirstPlace
    <3>2. pos = m
      BY <1>6
    <3> QED
      BY <3>1, <3>2
  <2>2. ASSUME NEW p \in b.first .. pos - 1, p \in T PROVE FALSE
    <3>1. p < pos /\ p \in Int
      BY <1>2, <2>1, <2>2
    <3>2. pos <= p
      BY <2>1, <2>2
    <3> QED
      BY <2>1, <3>1, <3>2
  <2> QED
    BY <2>1, <2>2
<1> DEFINE c == Call(discard)
           v == View(discard)
<1>8. c.call = how /\ c.handed = handed /\ c.needle = needle /\ c.discard = discard
  OBVIOUS
<1>9. handed.first = b.first /\ handed.last = pos
  BY DEF Part
<1> HIDE DEF handed, c
<1>10. \A p \in b.first .. b.last - 1 : p \in T <=> Searched(mem, c, p)
  BY <1>5, <1>8 DEF Searched
<1>11. \A p \in b.first .. pos - 1 : ~Searched(mem, c, p)
  <2> TAKE p \in b.first .. pos - 1
  <2>1. p \in b.first .. b.last - 1
    BY <1>2, <1>7
  <2> QED
    BY <1>7, <1>10, <2>1
<1>12. pos # b.last => Searched(mem, c, pos)
  <2> SUFFICES ASSUME pos # b.last PROVE Searched(mem, c, pos)
    OBVIOUS
  <2>1. pos \in b.first .. b.last - 1
    BY <1>2, <1>7
  <2> QED
    BY <1>7, <1>10, <2>1
<1>13. v = Part(IF c.discard /\ pos # b.last THEN pos + 1 ELSE pos, b.last)
  <2>1. CASE ~discard
    BY <1>8, <2>1
  <2>2. CASE discard
    <3> DEFINE w == Part(pos, b.last)
               one == 1
               m == Min({one, w.size})
               first == pos + m
    <3>1. Within(w, n) /\ w.first = pos /\ w.last = b.last /\ w.size = b.last - pos
      BY <1>1, <1>2, <1>7, PartWithin
    <3>2. v = DropFront(w, m)
      BY <2>2 DEF ContiguousDropFront
    <3>3. one \in Int /\ w.size \in Int
      BY <1>2, <1>7, <3>1
    <3> HIDE DEF w, one, v
    <3>4. m = IF one <= w.size THEN one ELSE w.size
      BY <3>3, MinOfTwo
    <3>5. m = IF pos # b.last THEN 1 ELSE 0
      BY <1>2, <1>7, <3>1, <3>4 DEF one
    <3> HIDE DEF m
    <3>6. m \in Int /\ first = w.first + m
      BY <3>1, <3>5
    <3> HIDE DEF first
    <3>7. v = Part(first, w.last)
      BY <1>1, <3>1, <3>2, <3>6, DropFrontIs
    <3>8. first = IF pos # b.last THEN pos + 1 ELSE pos
      BY <1>7, <3>1, <3>5, <3>6
    <3> QED
      BY <1>8, <2>2, <3>1, <3>7, <3>8
  <2> QED
    BY <2>1, <2>2
<1>14. Called(v, c)
  BY <1>3 DEF c
<1> HIDE DEF v
<1>15. Within(v, n) /\ Takes(v, b, c, n, mem)
  BY <1>1, <1>2, <1>7, <1>8, <1>9, <1>11, <1>12, <1>13, TakenTo DEF b
<1> QED
  BY <1>1, <1>14, <1>15, Taken, WithinIs DEF b

LEMMA Added ==
  ASSUME NEW n \in ArrayLengths, SeenTyped(n), NEW first \in Nat, NEW last \in Nat, first <= last, last <= n,
         Did("add", Part(first, last), NoPart)
  PROVE  SeenInv'
<1> DEFINE c == [call |-> "add", handed |-> NoPart]
           v == Part(first, last)
<1>1. Called(v, c) /\ c.call = "add" /\ n \in Nat
  BY ViewsAssumption DEF Did
<1> HIDE DEF c
<1>2. Within(v, n)
  BY <1>1, PartWithin
<1> HIDE DEF v
<1>3. Takes(v, viewed, c, n, seen.mem)
  BY <1>1, <1>2, StaysWithin
<1> QED
  BY <1>1, <1>2, <1>3, Taken, WithinIs

LEMMA ContiguousCalls ==
  ASSUME SeenInv, ~Astray(viewed), OnContiguousView
  PROVE  SeenInv'
<1> SUFFICES ASSUME OnContiguousView PROVE SeenInv'
  OBVIOUS
<1>1. PICK n \in ArrayLengths : n \in Nat /\ n < SizeRange /\ SeenTyped(n) /\ Within(viewed, n)
  BY NotAstray
<1>2. viewed.size \in Nat /\ viewed.first \in Nat /\ viewed.last \in Nat /\ viewed.first <= viewed.last /\ viewed.last <= n
  BY <1>1 DEF Within
<1>3. ASSUME NEW k \in Amounts PROVE k \in Int /\ 0 <= k
  BY AmountsAre
<1>4. ASSUME NEW k \in Amounts, Did("pop_front", ContiguousDropFront(viewed, k), FrontPart(Min({k, viewed.size})))
      PROVE  SeenInv'
  BY <1>1, <1>3, <1>4, FrontClipped DEF ContiguousDropFront
<1>5. ASSUME NEW k \in Amounts, Did("pop_back", ContiguousDropBack(viewed, k), BackPart(Min({k, viewed.size})))
      PROVE  SeenInv'
  BY <1>1, <1>3, <1>5, BackClipped DEF ContiguousDropBack
<1>6. ASSUME NEW k \in Amounts, NEW offset \in Amounts, Did("unclipped", ContiguousSubspan(viewed, offset, k), NoPart)
      PROVE  SeenInv'
  <2> DEFINE clipped == Min({viewed.size, offset})
             room == viewed.size - clipped
             some == Min({k, room})
             first == viewed.first + offset
             last == viewed.first + some
             size == last - first
             v == ContiguousSubspan(viewed, offset, k)
  <2>1. v = Part(first, last) /\ Did("unclipped", v, NoPart)
    BY <1>6 DEF ContiguousSubspan
  <2>2. clipped \in Int
    <3>1. viewed.size \in Int /\ 0 <= viewed.size /\ offset \in Nat
      BY <1>2, <1>3
    <3> QED
      BY <3>1, ClippedIs
  <2> HIDE DEF clipped
  <2>3. room \in Int /\ k \in Int
    BY <1>2, <1>3, <2>2
  <2> HIDE DEF room
  <2>4. some = IF k <= room THEN k ELSE room
    BY <2>3, MinOfTwo
  <2>5. some \in Int
    BY <2>3, <2>4
  <2> HIDE DEF some
  <2>6. first \in Int /\ first >= 0 /\ last \in Int /\ size \in Int /\ last = first + size
    BY <1>2, <1>3, <2>5
  <2> HIDE DEF first, last, size, v
  <2>7. Sized(first, size) = Part(first, last)
    BY <2>6, SizedIs
  <2> QED
    BY <1>1, <2>1, <2>6, <2>7, SizedMoves
<1>7. ASSUME NEW needle \in Items, PopFrontTo("until", FindRaw(viewed, needle), needle) PROVE SeenInv'
  <2> DEFINE how == "until"
             pos == FindRaw(viewed, needle)
  <2>1. pos = Min({p \in viewed.first .. viewed.last - 1 : seen.mem[p] = needle <=> how = "until"} \cup {viewed.last})
    <3>1. {p \in viewed.first .. viewed.last - 1 : seen.mem[p] = needle <=> how = "until"} =
          {p \in viewed.first .. viewed.last - 1 : seen.mem[p] = needle}
      OBVIOUS
    <3> QED
      BY <3>1 DEF FindRaw
  <2>2. PopFrontTo(how, pos, needle) /\ how \in {"until", "while"}
    BY <1>7
  <2> HIDE DEF how, pos
  <2> QED
    BY <1>1, <2>1, <2>2, PoppedTo
<1>8. ASSUME NEW needle \in Items, PopFrontTo("while", FindFirstNotOfRaw(viewed, needle), needle) PROVE SeenInv'
  <2> DEFINE how == "while"
             pos == FindFirstNotOfRaw(viewed, needle)
  <2>1. pos = Min({p \in viewed.first .. viewed.last - 1 : seen.mem[p] = needle <=> how = "until"} \cup {viewed.last})
    <3>1. {p \in viewed.first .. viewed.last - 1 : seen.mem[p] = needle <=> how = "until"} =
          {p \in viewed.first .. viewed.last - 1 : seen.mem[p] # needle}
      OBVIOUS
    <3> QED
      BY <3>1 DEF FindFirstNotOfRaw
  <2>2. PopFrontTo(how, pos, needle) /\ how \in {"until", "while"}
    BY <1>8
  <2> HIDE DEF how, pos
  <2> QED
    BY <1>1, <2>1, <2>2, PoppedTo
<1>9. ASSUME viewed.first > 0, Did("add", Part(viewed.first - 1, viewed.last), NoPart) PROVE SeenInv'
  <2> DEFINE first == viewed.first - 1
  <2>1. first \in Nat /\ first <= viewed.last
    BY <1>2, <1>9
  <2>2. Did("add", Part(first, viewed.last), NoPart)
    BY <1>9
  <2> HIDE DEF first
  <2> QED
    BY <1>1, <1>2, <2>1, <2>2, Added
<1>10. ASSUME viewed.last \in DOMAIN seen.mem, Did("add", Part(viewed.first, viewed.last + 1), NoPart) PROVE SeenInv'
  <2> DEFINE last == viewed.last + 1
  <2>1. DOMAIN seen.mem = 0 .. n - 1
    BY <1>1 DEF SeenTyped, Arrays
  <2>2. last \in Nat /\ viewed.first <= last /\ last <= n
    BY <1>1, <1>2, <1>10, <2>1
  <2>3. Did("add", Part(viewed.first, last), NoPart)
    BY <1>10
  <2> HIDE DEF last
  <2> QED
    BY <1>1, <1>2, <2>2, <2>3, Added
<1> QED
  BY <1>4, <1>5, <1>6, <1>7, <1>8, <1>9, <1>10 DEF OnContiguousView

(* What is written goes where the part that is given up was.               *)
LEMMA Written ==
  ASSUME NEW n \in ArrayLengths, SeenTyped(n), Within(viewed, n), NEW k \in Int, 0 <= k,
         NEW items \in [0 .. k - 1 -> Items], Write(items, k)
  PROVE  SeenInv'
<1> DEFINE b == viewed
           written == b.first .. b.first + k - 1
           mem == [p \in 0 .. n - 1 |-> IF p \in written THEN items[p - b.first] ELSE seen.mem[p]]
           first == b.first + k
           handed == FrontPart(k)
           c == [call |-> "write", handed |-> handed]
           v == DropFront(b, k)
<1>1. n \in Nat
  BY ViewsAssumption
<1>2. b.first \in Nat /\ b.last \in Nat /\ b.first <= b.last /\ b.last <= n /\ b.size = b.last - b.first
  BY DEF Within
<1>3. DOMAIN seen.mem = 0 .. n - 1 /\ seen.mem \in Arrays(n)
  BY DEF SeenTyped, Arrays
<1>4. k <= b.size
  BY DEF Write
<1>5. seen' = [seen EXCEPT !.view = v, !.before = b, !.was = seen.mem, !.call = c, !.mem = mem]
  <2>1. seen.mem = seen.mem
    OBVIOUS
  <2> QED
    BY <1>3 DEF Write
<1>6. c.call = "write" /\ c.handed = handed /\ handed.first = b.first /\ handed.last = first /\ first = b.first + k
  BY DEF FrontPart, Part
<1>7. \A p \in 0 .. n - 1 : mem[p] # seen.mem[p] => p \in written
  OBVIOUS
<1>8. mem \in Arrays(n)
  <2>1. ASSUME NEW p \in 0 .. n - 1 PROVE (IF p \in written THEN items[p - b.first] ELSE seen.mem[p]) \in Items
    <3>1. CASE p \in written
      <4>1. p - b.first \in 0 .. k - 1
        BY <1>2, <3>1
      <4> QED
        BY <3>1, <4>1
    <3>2. CASE p \notin written
      BY <1>3, <3>2 DEF Arrays
    <3> QED
      BY <3>1, <3>2
  <2> QED
    BY <2>1 DEF Arrays
<1>20. written = handed.first .. handed.last - 1
  <2>1. handed.first = b.first /\ handed.last - 1 = b.first + k - 1
    BY <1>2, <1>6
  <2> HIDE DEF handed, b
  <2> QED
    BY <2>1
<1>21. Within(b, n) /\ k <= b.size /\ first = b.first + k
  BY <1>4
<1>22. c.call \in {"pop_front", "write"} /\ c.handed.first = b.first /\ c.handed.last = first
  BY <1>6
<1> HIDE DEF b, mem, first, handed, c, v, written
<1>9. v = Part(first, b.last)
  BY <1>1, <1>6, DropFrontIs DEF b, v
<1>10. Within(v, n) /\ Takes(v, b, c, n, mem)
  <2>1. b.first \in Nat /\ b.last \in Nat /\ b.last <= n /\ k <= b.last - b.first
    BY <1>21 DEF Within
  <2>2. first \in Nat /\ first <= b.last
    BY <1>21, <2>1
  <2>3. Within(v, n) /\ v.first = first /\ v.last = b.last
    BY <1>1, <1>9, <2>1, <2>2, PartWithin
  <2>4. ~AstrayIn(v, n) /\ v.size = v.last - v.first
    BY <1>1, <2>3, WithinIs
  <2>5. \A i \in Int : i .. i - 1 = {} /\ i <= i
    OBVIOUS
  <2>6. Dropped(v, c) = {} /\ c.handed.last <= v.first
    BY <1>22, <2>2, <2>3, <2>5 DEF Dropped
  <2> QED
    BY <1>6, <1>22, <2>3, <2>4, <2>6 DEF Takes
<1>11. seen = [kind |-> seen.kind, mem |-> seen.mem, was |-> seen.was, view |-> seen.view,
               before |-> seen.before, call |-> seen.call]
  BY DEF SeenTyped
<1>12. seen' = [kind |-> seen.kind, mem |-> mem, was |-> seen.mem, view |-> v, before |-> b, call |-> c]
  BY <1>5, <1>11
<1>13. /\ seen'.kind = seen.kind /\ seen'.mem = mem /\ seen'.was = seen.mem /\ seen'.view = v
       /\ seen'.before = b /\ seen'.call = c
  BY <1>12
<1>14. v \in PartsOf /\ v.first >= 0
  BY <1>1, <1>10, WithinIs
<1>15. SeenTyped(n)'
  BY <1>3, <1>8, <1>12, <1>13, <1>14 DEF SeenTyped, viewed
<1>16. viewed' = v
  BY <1>13 DEF viewed
<1>17. ViewsPart'
  <2>1. DOMAIN seen'.mem = 0 .. n - 1
    BY <1>15 DEF SeenTyped, Arrays
  <2>2. Astray(viewed)' <=> AstrayIn(v, n)
    BY <1>16, <2>1 DEF Astray, AstrayIn
  <2>3. \A p \in 0 .. n - 1 : mem[p] # seen.mem[p] => c.call = "write" /\ p \in c.handed.first .. c.handed.last - 1
    BY <1>6, <1>7, <1>20
  <2> QED
    BY <1>10, <1>13, <1>16, <2>1, <2>2, <2>3 DEF ViewsPart, Takes, Searched, Dropped
<1> QED
  BY <1>15, <1>17 DEF SeenInv

LEMMA WriterCalls ==
  ASSUME SeenInv, ~Astray(viewed), OnWriter
  PROVE  SeenInv'
<1> SUFFICES ASSUME OnWriter PROVE SeenInv'
  OBVIOUS
<1>1. PICK n \in ArrayLengths : n \in Nat /\ n < SizeRange /\ SeenTyped(n) /\ Within(viewed, n)
  BY NotAstray
<1>2. viewed.size \in Nat
  BY <1>1 DEF Within
<1>3. ASSUME NEW k \in Amounts PROVE k \in Int /\ 0 <= k
  BY AmountsAre
<1>4. ASSUME NEW k \in Amounts, NEW items \in [0 .. k - 1 -> Items], Write(items, k) PROVE SeenInv'
  BY <1>1, <1>3, <1>4, Written
<1>5. ASSUME NEW k \in Amounts, k <= viewed.size, Did("pop_front", DropFront(viewed, k), FrontPart(k)) PROVE SeenInv'
  <2>1. Min({k, viewed.size}) = k
    BY <1>2, <1>3, <1>5, ClippedIs
  <2>2. Did("pop_front", DropFront(viewed, Min({k, viewed.size})), FrontPart(Min({k, viewed.size})))
    BY <1>5, <2>1
  <2> QED
    BY <1>1, <1>3, <2>2, FrontClipped
<1> QED
  BY <1>4, <1>5 DEF OnWriter

-------------------------------------------------------------------------------
(* The invariant.                                                          *)

LEMMA SeenBegins ==
  ASSUME SeenInit
  PROVE  SeenInv
<1>1. PICK n \in ArrayLengths, kind \in {"view", "span", "contiguous_view", "span_writer"} :
        \E mem \in [0 .. n - 1 -> Items], first, last \in 0 .. n :
          IF kind = "span" THEN seen = ViewOf(kind, mem, SpanOf(first, last))
          ELSE first <= last /\ seen = ViewOf(kind, mem, Part(first, last))
  BY DEF SeenInit
<1>2. PICK mem \in [0 .. n - 1 -> Items], first \in 0 .. n, last \in 0 .. n :
        IF kind = "span" THEN seen = ViewOf(kind, mem, SpanOf(first, last))
        ELSE first <= last /\ seen = ViewOf(kind, mem, Part(first, last))
  BY <1>1
<1>3. n \in Nat
  BY ViewsAssumption
<1>4. first \in Nat /\ last \in Nat /\ first <= n /\ last <= n
  BY <1>3
<1>5. PICK v : Within(v, n) /\ seen = ViewOf(kind, mem, v)
  <2>1. CASE kind # "span"
    BY <1>2, <1>3, <1>4, <2>1, PartWithin
  <2>2. CASE kind = "span"
    <3> DEFINE gap == last - first
               zero == 0
               size == Max({gap, zero})
               end == first + size
               v == SpanOf(first, last)
    <3>1. gap \in Int /\ zero \in Int
      BY <1>4
    <3>2. v = Sized(first, size)
      BY DEF SpanOf
    <3> HIDE DEF gap, zero, v
    <3>3. size = IF gap >= zero THEN gap ELSE zero
      BY <3>1, MaxOfTwo
    <3>4. size \in Int /\ first \in Int
      BY <1>4, <3>1, <3>3
    <3> HIDE DEF size
    <3>5. end \in Nat /\ first <= end /\ end <= n /\ end = first + size
      BY <1>4, <3>3 DEF gap, zero
    <3> HIDE DEF end
    <3>6. v = Part(first, end)
      BY <3>2, <3>4, <3>5, SizedIs
    <3>7. Within(v, n)
      BY <1>3, <1>4, <3>5, <3>6, PartWithin
    <3>8. seen = ViewOf(kind, mem, v)
      BY <1>2, <2>2 DEF v
    <3> QED
      BY <3>7, <3>8
  <2> QED
    BY <2>1, <2>2
<1> DEFINE c == [call |-> "none", handed |-> NoPart]
<1>6. seen = [kind |-> kind, mem |-> mem, was |-> mem, view |-> v, before |-> v, call |-> c]
  BY <1>5 DEF ViewOf
<1>7. c.call = "none"
  OBVIOUS
<1> HIDE DEF c
<1>8. seen.kind = kind /\ seen.mem = mem /\ seen.was = mem /\ seen.view = v /\ seen.before = v /\ seen.call = c
  BY <1>6
<1>9. ~AstrayIn(v, n) /\ v \in PartsOf /\ v.first >= 0 /\ v.size = v.last - v.first
  BY <1>3, <1>5, WithinIs
<1>10. SeenTyped(n)
  BY <1>6, <1>8, <1>9 DEF SeenTyped, Arrays, viewed
<1>11. Takes(v, v, c, n, mem)
  BY <1>7, <1>9 DEF Takes
<1>12. ViewsPart
  BY <1>3, <1>8, <1>10, <1>11, PartIs DEF viewed
<1> QED
  BY <1>10, <1>12 DEF SeenInv

LEMMA SeenStep ==
  ASSUME SeenInv, [SeenNext]_seen
  PROVE  SeenInv'
<1>1. CASE SeenNext
  BY <1>1, ViewCalls, SpanCalls, ContiguousCalls, WriterCalls DEF SeenNext
<1>2. CASE seen' = seen
  <2>1. viewed' = viewed
    BY <1>2 DEF viewed
  <2>2. Astray(viewed)' = Astray(viewed)
    BY <1>2, <2>1 DEF Astray
  <2>3. ViewsPart'
    BY <1>2, <2>1, <2>2 DEF SeenInv, ViewsPart
  <2>4. \A n \in ArrayLengths : SeenTyped(n) => SeenTyped(n)'
    BY <1>2, <2>1 DEF SeenTyped
  <2> QED
    BY <2>3, <2>4 DEF SeenInv
<1> QED
  BY <1>1, <1>2

(* A view that has not gone astray is a part of its array, and what the    *)
(* last call took lies next to what it left.                               *)
THEOREM SeenAlways == SeenSpec => []SeenInv
<1>1. SeenInit => SeenInv
  BY SeenBegins
<1>2. SeenInv /\ [SeenNext]_seen => SeenInv'
  BY SeenStep
<1> QED
  BY <1>1, <1>2, PTL DEF SeenSpec

-------------------------------------------------------------------------------
(* What views answer.                                                      *)

(* Up to which place two parts show the same items: there the comparison   *)
(* of either with the other is decided.                                    *)
Agree(f, v, w, k) == \A i \in 0 .. k - 1 : f[v.first + i] = f[w.first + i]
Decides(f, v, w, k) == k < w.size /\ (k = v.size \/ f[v.first + k] < f[w.first + k])

LEMMA DecidedAt ==
  ASSUME NEW n \in Nat, NEW v, Within(v, n), NEW w, Within(w, n)
  PROVE  \E k \in Nat :
           /\ k <= v.size /\ k <= w.size /\ Agree(seen.mem, v, w, k)
           /\ k < v.size /\ k < w.size => seen.mem[v.first + k] # seen.mem[w.first + k]
           /\ LessItems(v, w) <=> Decides(seen.mem, v, w, k)
           /\ LessItems(w, v) <=> Decides(seen.mem, w, v, k)
<1> DEFINE f == seen.mem
           a == v.size
           b == w.size
           m == Min({a, b})
           S == {k \in 0 .. m : Agree(f, v, w, k)}
           T == {k \in 0 .. Min({b, a}) : Agree(f, w, v, k)}
           k == Max(S)
<1>1. a \in Nat /\ b \in Nat /\ v.first \in Nat /\ w.first \in Nat
  BY DEF Within
<1>2. S = T
  <2>1. {a, b} = {b, a}
    OBVIOUS
  <2>2. \A j : Agree(f, v, w, j) <=> Agree(f, w, v, j)
    BY DEF Agree
  <2>3. m = Min({b, a})
    BY <2>1
  <2> HIDE DEF m, f
  <2> QED
    BY <2>2, <2>3
<1>3. LessItems(v, w) <=> Decides(f, v, w, k)
  BY DEF LessItems, Decides, Agree
<1>4. LessItems(w, v) <=> Decides(f, w, v, Max(T))
  BY DEF LessItems, Decides, Agree
<1>5. LessItems(w, v) <=> Decides(f, w, v, k)
  <2> HIDE DEF S, T, f
  <2> QED
    BY <1>2, <1>4
<1>6. m = IF a <= b THEN a ELSE b
  <2> HIDE DEF a, b
  <2> QED
    BY <1>1, MinOfTwo
<1> HIDE DEF f, m
<1>7. m \in Nat /\ m <= a /\ m <= b /\ (m = a \/ m = b)
  BY <1>1, <1>6
<1>8. S # {}
  <2>1. 0 \in 0 .. m
    BY <1>7
  <2>2. Agree(f, v, w, 0)
    BY DEF Agree
  <2> QED
    BY <2>1, <2>2
<1>9. k \in S /\ \A j \in S : j <= k
  <2>1. S \in SUBSET (0 .. m)
    OBVIOUS
  <2> HIDE DEF S
  <2> QED
    BY <1>7, <1>8, <2>1, MaxUpTo
<1> HIDE DEF k
<1>10. k \in Nat /\ k <= m /\ Agree(f, v, w, k)
  BY <1>7, <1>9
<1>11. ASSUME k < a, k < b, f[v.first + k] = f[w.first + k] PROVE FALSE
  <2> DEFINE next == k + 1
  <2>1. next \in 0 .. m
    BY <1>7, <1>10, <1>11
  <2>2. ASSUME NEW i \in 0 .. next - 1 PROVE f[v.first + i] = f[w.first + i]
    <3>1. i \in 0 .. k - 1 \/ i = k
      BY <1>10
    <3> QED
      BY <1>10, <1>11, <3>1 DEF Agree
  <2>3. Agree(f, v, w, next)
    BY <2>2 DEF Agree
  <2>4. next <= k
    <3> HIDE DEF next
    <3> QED
      BY <1>9, <2>1, <2>3
  <2> QED
    BY <1>10, <2>4
<1>12. k <= a /\ k <= b
  BY <1>1, <1>7, <1>10
<1>13. Agree(f, v, w, k) /\ (k < a /\ k < b => f[v.first + k] # f[w.first + k]) /\ k \in Nat
  BY <1>10, <1>11
<1> QED
  <2> HIDE DEF S, T
  <2> QED
    BY <1>3, <1>5, <1>12, <1>13 DEF f

(* Of two parts either one is less than the other or they are the same.    *)
LEMMA OneOfThree ==
  ASSUME NEW n \in Nat, seen.mem \in Arrays(n), Items \subseteq Int,
         NEW v, Within(v, n), NEW w, Within(w, n)
  PROVE  /\ LessItems(v, w) => ~LessItems(w, v)
         /\ SameItems(v, w) # (LessItems(v, w) \/ LessItems(w, v))
<1> DEFINE f == seen.mem
           a == v.size
           b == w.size
<1>1. PICK k \in Nat :
           /\ k <= a /\ k <= b /\ Agree(f, v, w, k)
           /\ k < a /\ k < b => f[v.first + k] # f[w.first + k]
           /\ LessItems(v, w) <=> Decides(f, v, w, k)
           /\ LessItems(w, v) <=> Decides(f, w, v, k)
  BY DecidedAt
<1>2. a \in Nat /\ b \in Nat /\ v.first \in Nat /\ w.first \in Nat
      /\ v.first + a <= n /\ w.first + b <= n
  BY DEF Within
<1>3. SameItems(v, w) <=> a = b /\ Agree(f, v, w, a)
  BY DEF SameItems, Agree
<1>4. \A i \in 0 .. n - 1 : f[i] \in Int
  BY DEF Arrays
<1>5. (LessItems(v, w) <=> k < b /\ (k = a \/ f[v.first + k] < f[w.first + k]))
      /\ (LessItems(w, v) <=> k < a /\ (k = b \/ f[w.first + k] < f[v.first + k]))
  BY <1>1 DEF Decides
<1> DEFINE x == f[v.first + k]
           y == f[w.first + k]
<1>6. k < a /\ k < b => x \in Int /\ y \in Int /\ x # y
  <2>1. ASSUME k < a, k < b PROVE v.first + k \in 0 .. n - 1 /\ w.first + k \in 0 .. n - 1
    BY <1>1, <1>2, <2>1
  <2> QED
    BY <1>1, <1>4, <2>1
<1>7. Agree(f, v, w, a) /\ k < a => x = y
  BY <1>2 DEF Agree
<1>8. k = a => Agree(f, v, w, a)
  BY <1>1
<1>10. (LessItems(v, w) <=> k < b /\ (k = a \/ x < y)) /\ (LessItems(w, v) <=> k < a /\ (k = b \/ y < x))
  BY <1>5
<1>11. k \in Nat /\ k <= a /\ k <= b
  BY <1>1
<1> HIDE DEF a, b, x, y, f
<1>12. LessItems(v, w) => ~LessItems(w, v)
  BY <1>2, <1>6, <1>10, <1>11
<1>13. SameItems(v, w) <=> ~(LessItems(v, w) \/ LessItems(w, v))
  <2>1. CASE k < a /\ k < b
    BY <1>2, <1>3, <1>6, <1>7, <1>10, <2>1
  <2>2. CASE k = a /\ k = b
    BY <1>2, <1>3, <1>8, <1>10, <2>2
  <2>3. CASE (k = a /\ k < b) \/ (k < a /\ k = b)
    BY <1>2, <1>3, <1>10, <2>3
  <2> QED
    BY <1>2, <1>11, <2>1, <2>2, <2>3
<1>14. SameItems(v, w) \in BOOLEAN /\ (LessItems(v, w) \/ LessItems(w, v)) \in BOOLEAN
  BY DEF SameItems
<1>15. \A p, q \in BOOLEAN : (p <=> ~q) => p # q
  OBVIOUS
<1>16. SameItems(v, w) # (LessItems(v, w) \/ LessItems(w, v))
  BY <1>13, <1>14
<1> QED
  BY <1>12, <1>16

(* What two parts that are the same show at a place of either.             *)
LEMMA ShowsAlike ==
  ASSUME NEW n \in Nat, NEW v, Within(v, n), NEW w, Within(w, n), SameItems(v, w), NEW k \in Int
  PROVE  ItemAt(v, v.first + k) = ItemAt(w, w.first + k)
<1> DEFINE f == seen.mem
           a == v.size
           p == v.first + k
           q == w.first + k
<1>1. a \in Nat /\ v.first \in Nat /\ w.first \in Nat /\ v.last \in Nat /\ w.last \in Nat
      /\ v.last = v.first + a /\ w.last = w.first + a
  BY DEF Within, SameItems
<1>2. \A i \in 0 .. a - 1 : f[v.first + i] = f[w.first + i]
  BY DEF SameItems
<1>3. p \in Int /\ q \in Int
  BY <1>1
<1>4. CASE k \in 0 .. a - 1
  <2>1. p \in v.first .. v.last - 1 /\ q \in w.first .. w.last - 1
    BY <1>1, <1>4
  <2>2. f[p] = f[q]
    BY <1>2, <1>4
  <2> HIDE DEF p, q, f
  <2>3. {p} \cap v.first .. v.last - 1 = {p} /\ {q} \cap w.first .. w.last - 1 = {q}
    BY <2>1
  <2>4. ItemAt(v, p) = {f[p]} /\ ItemAt(w, q) = {f[q]}
    BY <2>3 DEF ItemAt, f
  <2>5. ItemAt(v, p) = ItemAt(w, q)
    BY <2>2, <2>4
  <2> QED
    BY <2>5 DEF p, q
<1>5. CASE k \notin 0 .. a - 1
  <2>1. p \notin v.first .. v.last - 1 /\ q \notin w.first .. w.last - 1
    BY <1>1, <1>5
  <2> HIDE DEF p, q
  <2>2. ItemAt(v, p) = {} /\ ItemAt(w, q) = {}
    BY <2>1 DEF ItemAt
  <2> QED
    BY <2>2 DEF p, q
<1> QED
  BY <1>4, <1>5

LEMMA AlikeIn ==
  ASSUME NEW n \in Nat, NEW v, Within(v, n), NEW w, Within(w, n), SameItems(v, w)
  PROVE  /\ Backwards(v) = Backwards(w)
         /\ FrontItem(v) = FrontItem(w) /\ BackItem(v) = BackItem(w)
         /\ \A k \in Amounts : k \in Int => ItemOf(v, k) = ItemOf(w, k)
<1> DEFINE a == v.size
           zero == 0
           end == a - 1
<1>1. a \in Nat /\ w.size = a /\ v.first \in Nat /\ w.first \in Nat /\ v.last \in Nat /\ w.last \in Nat
      /\ v.last = v.first + a /\ w.last = w.first + a
  BY DEF Within, SameItems
<1>2. \A i \in 0 .. a - 1 : seen.mem[v.first + i] = seen.mem[w.first + i]
  BY DEF SameItems
<1>3. \A k \in Int : ItemAt(v, v.first + k) = ItemAt(w, w.first + k)
  BY ShowsAlike
<1>4. Backwards(v) = Backwards(w)
  <2>1. ASSUME NEW i \in 1 .. a PROVE seen.mem[v.last - i] = seen.mem[w.last - i]
    <3> DEFINE j == a - i
    <3>1. j \in 0 .. a - 1 /\ v.last - i = v.first + j /\ w.last - i = w.first + j
      BY <1>1
    <3>2. seen.mem[v.first + j] = seen.mem[w.first + j]
      <4> HIDE DEF j
      <4> QED
        BY <1>2, <3>1
    <3> QED
      BY <3>1, <3>2
  <2> QED
    BY <1>1, <2>1 DEF Backwards
<1>5. FrontItem(v) = FrontItem(w)
  <2>1. v.first = v.first + zero /\ w.first = w.first + zero /\ zero \in Int
    BY <1>1
  <2> HIDE DEF zero
  <2>2. ItemAt(v, v.first + zero) = ItemAt(w, w.first + zero)
    BY <1>3, <2>1
  <2> QED
    BY <2>1, <2>2 DEF FrontItem
<1>6. BackItem(v) = BackItem(w)
  <2>1. v.last - 1 = v.first + end /\ w.last - 1 = w.first + end /\ end \in Int
    BY <1>1
  <2> HIDE DEF end
  <2>2. ItemAt(v, v.first + end) = ItemAt(w, w.first + end)
    BY <1>3, <2>1
  <2> QED
    BY <2>1, <2>2 DEF BackItem
<1> QED
  BY <1>3, <1>4, <1>5, <1>6 DEF ItemOf

(* A place that [] lets pass shows an item.                                *)
LEMMA PassesTo ==
  ASSUME NEW n \in Nat, NEW v, Within(v, n), NEW k \in Int, 0 <= k, NEW const \in BOOLEAN, IndexPasses(v, k, const)
  PROVE  ItemOf(v, k) # {} \/ (~const /\ k = v.size)
<1>1. v.size \in Nat /\ v.first \in Nat /\ v.last = v.first + v.size
  BY DEF Within
<1>2. k < v.size \/ (~const /\ k = v.size)
  BY <1>1 DEF IndexPasses
<1>3. ASSUME k < v.size PROVE ItemOf(v, k) # {}
  <2> DEFINE p == v.first + k
  <2>1. p \in v.first .. v.last - 1
    BY <1>1, <1>3
  <2> HIDE DEF p
  <2>2. seen.mem[p] \in ItemAt(v, p)
    BY <2>1 DEF ItemAt
  <2> QED
    BY <2>2 DEF ItemOf, p
<1> QED
  BY <1>2, <1>3

LEMMA Reads ==
  ASSUME SeenInv
  PROVE  ViewsRead
<1> SUFFICES ASSUME ~Astray(viewed) PROVE ViewsRead
  BY DEF ViewsRead
<1>1. PICK n \in ArrayLengths : n \in Nat /\ SeenTyped(n) /\ Within(viewed, n)
  BY NotAstray
<1>2. seen.mem \in Arrays(n) /\ Items \subseteq Int /\ DOMAIN seen.mem = 0 .. n - 1
  BY <1>1, ViewsAssumption DEF SeenTyped, Arrays
<1>3. ASSUME NEW first \in DOMAIN seen.mem, NEW last \in DOMAIN seen.mem, first <= last
      PROVE  Within(Part(first, last), n)
  <2>1. first \in Nat /\ last \in Nat /\ last <= n
    BY <1>1, <1>2
  <2> QED
    BY <1>1, <1>3, <2>1, PartWithin
<1>4. ASSUME NEW w, Within(w, n)
      PROVE  /\ LessItems(viewed, w) => ~LessItems(w, viewed)
             /\ SameItems(viewed, w) # (LessItems(viewed, w) \/ LessItems(w, viewed))
             /\ SameItems(viewed, w) =>
                  /\ Backwards(viewed) = Backwards(w)
                  /\ FrontItem(viewed) = FrontItem(w) /\ BackItem(viewed) = BackItem(w)
                  /\ \A k \in Amounts : ItemOf(viewed, k) = ItemOf(w, k)
  <2>1. ASSUME SameItems(viewed, w)
        PROVE  /\ Backwards(viewed) = Backwards(w)
               /\ FrontItem(viewed) = FrontItem(w) /\ BackItem(viewed) = BackItem(w)
               /\ \A k \in Amounts : ItemOf(viewed, k) = ItemOf(w, k)
    BY <1>1, <1>4, <2>1, AlikeIn, AmountsAre
  <2> QED
    BY <1>1, <1>2, <1>4, <2>1, OneOfThree
<1>5. ASSUME NEW k \in Amounts, NEW const \in BOOLEAN, IndexPasses(viewed, k, const)
      PROVE  ItemOf(viewed, k) # {} \/ (~const /\ k = viewed.size)
  BY <1>1, <1>5, AmountsAre, PassesTo
<1> QED
  BY <1>3, <1>4, <1>5 DEF ViewsRead

(* Whatever is taken from a view of an array of any length, what it gives  *)
(* away and what is left are next to each other, inside the array, and     *)
(* hold what was searched for; only calls that are not clipped leave it    *)
(* crossed or outside. Comparisons of views are an order of what they show.*)
THEOREM ViewsAlwaysSound == SeenSpec => []ViewsSound
<1>1. SeenInv => ViewsSound
  BY Reads DEF SeenInv, ViewsSound
<1> QED
  BY <1>1, SeenAlways, PTL
================================================================================
