-------------------------------- MODULE Iterators --------------------------------
(***************************************************************************)
(* The iterators of iterator/: adaptors of an iterator, or of a count, that *)
(* keep one or two places (p and q) and say anew what it is to move, to     *)
(* look at an element, to be equal, before or so far apart.                *)
(*                                                                         *)
(* A program has two iterators of one kind over one range and moves them    *)
(* in any order, within the range. want[i] is where iterator i should be,   *)
(* had it been moved so over a plain array, Meant, of what it goes through. *)
(* Output iterators, into which a program writes, are here too.            *)
(***************************************************************************)
EXTENDS Integers, Sequences, FiniteSets, SequencesExt, Functions

CONSTANTS
  IterLength,    \* bound of this model: the longest range
  IterJump,      \* bound of this model: the longest jump
  IterLaps       \* bound of this model: how often a circular iterator goes round

ASSUME IteratorsAssumption ==
  IterLength \in Nat \ {0} /\ IterJump \in Nat \ {0} /\ IterLaps \in Nat \ {0}

VARIABLE its

RandomAccess == {"circular", "chunk", "indexed", "iota", "repeat", "reverse", "random", "pointer", "args"}
OneWay == {"forward_counting", "find", "find_one", "integer", "input"}
Counting == {"forward_counting", "bidirectional_counting"}
Outputs == {"sorted_insert", "back_inserter", "end_inserter", "inserter"}

(* its: the kind, the range below, a second range (zip), what the kind is  *)
(* made with (arg), and both iterators. A program that is astray has made  *)
(* a call after which nothing is said of the iterators any more.           *)
Pair(kind, s, t, arg, start) ==
  [kind |-> kind, s |-> s, t |-> t, arg |-> arg, it |-> <<start, start>>, want |-> <<0, 0>>, astray |-> FALSE]

Spot(p, q) == [p |-> p, q |-> q]

-------------------------------------------------------------------------------
(* How each kind moves.                                                    *)

(* Mutant of Offset: a place before the first one is cut off, not turned   *)
(* round.                                                                  *)
OffsetCutOff(size, p, n) == LET at == p + n IN IF at < 0 THEN 0 ELSE at % size

Offset(size, p, n) == LET at == p + n IN IF at < 0 THEN size - ((-at) % size) ELSE at % size

(* By k elements, forwards or backwards.                                   *)
CircularShifted(w, m, k) == Spot(Offset(Len(w.s), m.p, k), m.q)
ChunkShifted(w, m, k) == Spot(m.p + k * w.arg, m.q)
CountingShifted(m, k) == Spot(m.p + k, m.q + k)
ZipShifted(m, k) == Spot(m.p + k, m.q + k)
IotaShifted(w, m, k) == Spot(m.p + k * w.arg.step, m.q)
ReverseShifted(m, k) == Spot(m.p - k, m.q)
RepeatShifted(m, k) == Spot(m.p - k, m.q)
PointerShifted(m, k) == Spot(m.p + k, m.q)

Shifted(w, m, k) ==
  CASE w.kind = "circular" -> CircularShifted(w, m, k)
    [] w.kind = "chunk" -> ChunkShifted(w, m, k)
    [] w.kind \in Counting -> CountingShifted(m, k)
    [] w.kind = "zip" -> ZipShifted(m, k)
    [] w.kind = "iota" -> IotaShifted(w, m, k)
    [] w.kind = "reverse" -> ReverseShifted(m, k)
    [] w.kind = "repeat" -> RepeatShifted(m, k)
    [] OTHER -> PointerShifted(m, k)

(* The first place from p on where a filter holds, and which filter.       *)
FirstHit(w, p) ==
  LET hits == {i \in (p + 1)..Len(w.s) : \E f \in DOMAIN w.arg : w.s[i] \in w.arg[f]} IN
  IF hits = {} THEN Spot(Len(w.s), -1)
  ELSE LET i == Min(hits) IN Spot(i - 1, Min({f \in DOMAIN w.arg : w.s[i] \in w.arg[f]}) - 1)
FindFrom(w, p) == Spot(FirstHit(w, p).p, 0)

Advanced(w, m) ==
  CASE w.kind = "find" -> FindFrom(w, m.p + 1)
    [] w.kind = "find_one" -> FirstHit(w, m.p + 1)
    [] OTHER -> Shifted(w, m, 1)

(* Jumps, by +, -, += and -=. Those of repeat_n_char go against its ++, and *)
(* both minuses of chunk forwards; the assigning ones of iota take no       *)
(* notice of the step (Misled).                                            *)
Signed(op, n) == IF op \in {"+", "+="} THEN n ELSE -n
ChunkJumped(w, m, op, n) == ChunkShifted(w, m, n)
RepeatJumped(m, op, n) == Spot(m.p + Signed(op, n), m.q)
IotaAssigned(m, op, n) == Spot(m.p + Signed(op, n), m.q)
Jumped(w, m, op, n) ==
  CASE w.kind = "repeat" -> RepeatJumped(m, op, n)
    [] w.kind = "chunk" -> ChunkJumped(w, m, op, n)
    [] w.kind = "iota" /\ op \in {"+=", "-="} -> IotaAssigned(m, op, n)
    [] OTHER -> Shifted(w, m, Signed(op, n))
Misled(w, op) ==
  \/ w.kind = "repeat"
  \/ w.kind = "chunk" /\ op \in {"-", "-="}
  \/ w.kind = "iota" /\ w.arg.step # 1 /\ op \in {"+=", "-="}

-------------------------------------------------------------------------------
(* What each kind refuses: the debug checks of indexed_iterator, which end  *)
(* the program, and the exceptions of checked_iterator_proxy_t.            *)

WithinIndex(w, p) == p \in 0..Len(w.s)
RefusesStep(w, m, op) == IF op = "--" THEN m.p < 0 ELSE ~WithinIndex(w, m.p)
RefusesAssign(w, m, op, n) == IF op = "+=" THEN ~WithinIndex(w, m.p + n) ELSE m.p - n < 0
RefusesJump(w, m, op, n) == m.p + Signed(op, n) \notin 0..(Len(w.s) - 1)
Refuses(w, m, op, n) ==
  /\ w.kind = "indexed"
  /\ CASE op \in {"++", "--", "*"} -> RefusesStep(w, m, op)
       [] op \in {"+=", "-="} -> RefusesAssign(w, m, op, n)
       [] op \in {"+", "-"} -> RefusesJump(w, m, op, n)

(* get_flag_value: each question overwrites the answer of the one before.  *)
FlagValue(asked) == IF asked = {} THEN 0 ELSE 4
Throws(w, m, op) ==
  CASE op = "++" -> FlagValue(w.arg) % 2 = 1 /\ m.p = Len(w.s)
    [] op = "--" -> (FlagValue(w.arg) \div 2) % 2 = 1 /\ m.p = 0
    [] op = "*" -> FlagValue(w.arg) \div 4 = 1 /\ m.p = Len(w.s)

(* arg_iterator_t::at, operator bool and at_end, and == with end( ).       *)
ArgAllowed(w, m, n) == 0 < m.p + n /\ m.p + n < Len(w.s)
ArgTrue(w, m) == 0 <= m.p /\ m.p < Len(w.s)
ArgAtEnd(w, m) == m.p >= Len(w.s)

-------------------------------------------------------------------------------
(* What each kind answers.                                                 *)

ReverseLooked(w, m) == w.s[m.p]
ZipLooked(w, m) == <<w.s[m.p + 1], w.t[m.q + 1]>>
FindOneLooked(w, m) == <<w.s[m.p + 1], m.q>>
Looked(w, m) ==
  CASE w.kind = "reverse" -> ReverseLooked(w, m)
    [] w.kind = "zip" -> ZipLooked(w, m)
    [] w.kind = "find_one" -> FindOneLooked(w, m)
    [] w.kind = "repeat" -> w.arg
    [] w.kind \in {"iota", "integer"} -> m.p
    [] OTHER -> w.s[m.p + 1]

(* compare: the second comparison is of 0 with 0. A difference of unsigned *)
(* values is never less than 0.                                            *)
IotaCompare(w, l, r) == IF ~w.arg.unsigned /\ l.p - r.p < 0 THEN -1 ELSE 0

SameIterator(w, l, r) ==
  CASE w.kind = "iota" -> IotaCompare(w, l, r) = 0
    [] w.kind = "zip" -> l = r
    [] OTHER -> l.p = r.p

LiesBefore(w, l, r) ==
  CASE w.kind = "iota" -> IotaCompare(w, l, r) < 0
    [] w.kind = "reverse" -> r.p < l.p
    [] OTHER -> l.p < r.p

Truncated(a, b) == IF a * b < 0 THEN -((-a * b) \div (b * b)) ELSE (a * b) \div (b * b)
GapBetween(w, l, r) ==
  CASE w.kind \in {"reverse", "repeat"} -> r.p - l.p
    [] w.kind = "iota" -> Truncated(l.p - r.p, w.arg.step)
    [] OTHER -> l.p - r.p

-------------------------------------------------------------------------------
(* The elements an iterator should go through, and how far it may go.      *)

Meant(w) ==
  CASE w.kind = "reverse" -> Reverse(w.s)
    [] w.kind = "chunk" -> [i \in 1..((Len(w.s) + w.arg - 1) \div w.arg) |-> w.s[(i - 1) * w.arg + 1]]
    [] w.kind = "zip" -> Zip(SubSeq(w.s, 1, Min({Len(w.s), Len(w.t)})), SubSeq(w.t, 1, Min({Len(w.s), Len(w.t)})))
    [] w.kind = "find" -> SelectSeq(w.s, LAMBDA v : v \in w.arg[1])
    [] w.kind = "find_one" ->
         LET kept == SelectSeq(SubSeq(w.s, 2, Len(w.s)), LAMBDA v : \E f \in DOMAIN w.arg : v \in w.arg[f])
             which(v) == CHOOSE f \in DOMAIN w.arg : v \in w.arg[f] /\ \A g \in 1..(f - 1) : v \notin w.arg[g]
         IN  IF w.s = <<>> THEN <<>>
             ELSE <<<<w.s[1], -1>>>> \o [i \in DOMAIN kept |-> <<kept[i], which(kept[i]) - 1>>]
    [] w.kind = "repeat" -> [i \in 1..Len(w.s) |-> w.arg]
    [] w.kind \in {"iota", "integer"} -> [i \in 1..Len(w.s) |-> w.arg.first + (i - 1) * w.arg.step]
    [] OTHER -> w.s

(* The last place an iterator may be moved to; a chunk that would end      *)
(* beyond the range must not be stepped over.                              *)
Furthest(w) ==
  CASE w.kind = "circular" -> IterLaps * Len(w.s)
    [] w.kind = "chunk" -> Len(w.s) \div w.arg
    [] OTHER -> Len(Meant(w))
Nearest(w) == IF w.kind = "circular" THEN -Furthest(w) ELSE 0

-------------------------------------------------------------------------------
(* The program.                                                            *)

Numbered(n) == [i \in 1..n |-> i]
Words(n) == UNION {[1..l -> {0, 1, 2}] : l \in 0..n}

Over(kind, n, arg, start) == Pair(kind, Numbered(n), <<>>, arg, start)

CircularMade == {Over("circular", n, 0, Spot(0, 0)) : n \in 1..IterLength}
ChunkMade == {Over("chunk", n, c, Spot(0, 0)) : n \in 0..IterLength, c \in 1..2}
CountingMade == {Over(kind, n, 0, Spot(0, 0)) : kind \in Counting, n \in 0..IterLength}
IndexedMade == {Over("indexed", n, 0, Spot(0, 0)) : n \in 0..IterLength}
RandomMade == {Over("random", n, 0, Spot(0, 0)) : n \in 0..IterLength}
PointerMade == {Over("pointer", n, 0, Spot(0, 0)) : n \in 0..IterLength}
ArgsMade == {Over("args", n, 0, Spot(0, 0)) : n \in 0..IterLength}
IotaMade ==
  {Over("iota", n, [first |-> f, step |-> step, unsigned |-> f > 0], Spot(f, 0)) :
     n \in 0..IterLength, step \in {-1, 1, 2}, f \in {0, IterLength}}
IntegerMade == {Over("integer", n, [first |-> 0, step |-> 1, unsigned |-> FALSE], Spot(0, 0)) : n \in 0..IterLength}
CheckedMade == {Over("checked", n, asked, Spot(0, 0)) : n \in 0..IterLength, asked \in SUBSET {"++", "--", "*"}}
ReverseMade == {Over("reverse", n, 0, Spot(n, 0)) : n \in 0..IterLength}
RepeatMade == {Over("repeat", n, 0, Spot(n, 0)) : n \in 0..IterLength}
ZipMade == {Pair("zip", Numbered(n), Numbered(k), 0, Spot(0, 0)) : n, k \in 0..IterLength}
FindMade ==
  {LET w == Pair("find", s, <<>>, <<{1, 2}>>, Spot(0, 0)) IN [w EXCEPT !.it = <<FindFrom(w, 0), FindFrom(w, 0)>>] :
     s \in Words(IterLength)}
(* The constructor looks for the first element, and forgets what it found. *)
FindOneMade == {Pair("find_one", s, <<>>, <<{1}, {1, 2}>>, Spot(0, -1)) : s \in Words(IterLength)}
OutputsMade == {Pair(kind, <<>>, <<>>, <<>>, Spot(0, 0)) : kind \in Outputs}

(* InputIterator: each has a copy of an iterator on the heap, of a type q, *)
(* or none; arg counts the copies there are.                               *)
Null == -1
HoldsOne(w, i) == w.kind = "input" => w.it[i].p # Null
InputMade ==
  {[Over("input", n, 2, Spot(0, 1)) EXCEPT !.it[2].q = type] : n \in 0..IterLength, type \in 1..2}

IteratorsInit ==
  \/ its \in CircularMade \cup ChunkMade \cup CountingMade
  \/ its \in IndexedMade \cup RandomMade \cup PointerMade \cup ArgsMade
  \/ its \in IotaMade \cup IntegerMade
  \/ its \in CheckedMade
  \/ its \in ReverseMade \cup RepeatMade \cup ZipMade
  \/ its \in FindMade \cup FindOneMade
  \/ its \in OutputsMade \/ its \in InputMade

MovedTo(i, m, far, astray) ==
  LET w == its IN
  /\ ~w.astray
  /\ w.kind \notin Outputs
  /\ HoldsOne(w, i)
  /\ w.want[i] + far \in Nearest(w)..Furthest(w)
  /\ its' = [w EXCEPT !.it[i] = m, !.want[i] = @ + far,
                      !.astray = astray \/ (w.kind = "circular" /\ m.p = Len(w.s))]

Increment(i) == ~Refuses(its, its.it[i], "++", 0) /\ MovedTo(i, Advanced(its, its.it[i]), 1, FALSE)
(* Postfix ++ of the checked iterator moves a copy, which it returns.      *)
IncrementAfter(i) ==
  /\ ~Refuses(its, its.it[i], "++", 0)
  /\ its.kind \notin {"pointer", "integer"}
  /\ IF its.kind = "checked" THEN MovedTo(i, its.it[i], 1, TRUE) ELSE MovedTo(i, Advanced(its, its.it[i]), 1, FALSE)
Decrement(i) ==
  /\ its.kind \notin OneWay
  /\ ~Refuses(its, its.it[i], "--", 0)
  /\ MovedTo(i, Shifted(its, its.it[i], -1), -1, FALSE)
JumpAssign(i, op, n) ==
  /\ its.kind \in RandomAccess
  /\ ~Refuses(its, its.it[i], op, n)
  /\ MovedTo(i, Jumped(its, its.it[i], op, n), Signed(op, n), Misled(its, op))
(* it = other + n or other - n. pointer_iterator has no -.                 *)
JumpFrom(i, j, op, n) ==
  /\ its.kind \in RandomAccess \cup {"zip"}
  /\ ~(its.kind = "pointer" /\ op = "-")
  /\ ~Refuses(its, its.it[j], op, n)
  /\ MovedTo(i, Jumped(its, its.it[j], op, n), its.want[j] + Signed(op, n) - its.want[i], Misled(its, op))
ToEnd(i) ==
  /\ its.kind \in {"find", "find_one"}
  /\ MovedTo(i, Spot(Len(its.s), its.it[i].q), Len(Meant(its)) - its.want[i], FALSE)

(* The old copy is deleted as if it were of the type of the new one; and a *)
(* move assignment forgets it.                                             *)
InputCopied(i, j) ==
  LET w == its IN
  /\ w.kind = "input" /\ ~w.astray /\ i # j /\ HoldsOne(w, j)
  /\ its' = [w EXCEPT !.it[i] = w.it[j], !.want[i] = w.want[j],
                      !.arg = IF HoldsOne(w, i) THEN @ ELSE @ + 1,
                      !.astray = HoldsOne(w, i) /\ w.it[i].q # w.it[j].q]
InputMoved(i, j) ==
  LET w == its IN
  /\ w.kind = "input" /\ ~w.astray /\ i # j
  /\ its' = [w EXCEPT !.it[i] = w.it[j], !.want[i] = w.want[j], !.it[j].p = Null, !.astray = HoldsOne(w, i)]

(* sorted_insert: before the first that is not less.                       *)
ClassOf(v) == v \div 2
LowerPlace(s, v) == Min({p \in 1..Len(s) : ClassOf(s[p]) >= ClassOf(v)} \cup {Len(s) + 1})
SortedInserted(s, v) == InsertAt(s, LowerPlace(s, v), v)
BackInserted(s, v) == Append(s, v)
EndInserted(s, v) == Append(s, v)
SetInserted(s, v) == IF v \in ToSet(s) THEN s ELSE Append(s, v)

Output(v) ==
  LET w == its IN
  /\ w.kind \in Outputs
  /\ Len(w.arg) < IterLength
  /\ its' = [w EXCEPT !.arg = Append(@, v),
                      !.s = CASE w.kind = "sorted_insert" -> SortedInserted(@, v)
                              [] w.kind = "back_inserter" -> BackInserted(@, v)
                              [] w.kind = "end_inserter" -> EndInserted(@, v)
                              [] w.kind = "inserter" -> SetInserted(@, v)]

IteratorsNext ==
  \/ \E i \in 1..2 : Increment(i) \/ IncrementAfter(i) \/ Decrement(i) \/ ToEnd(i)
  \/ \E i, j \in 1..2 : InputCopied(i, j) \/ InputMoved(i, j)
  \/ \E i, j \in 1..2, n \in 1..IterJump :
       \/ \E op \in {"+=", "-="} : JumpAssign(i, op, n)
       \/ \E op \in {"+", "-"} : JumpFrom(i, j, op, n)
  \/ \E v \in 0..3 : Output(v)

-------------------------------------------------------------------------------
(* Properties                                                              *)

Deref(w, i) ==
  IF w.kind = "circular" THEN w.it[i].p < Len(w.s) /\ Looked(w, w.it[i]) = w.s[(w.want[i] % Len(w.s)) + 1]
  ELSE w.want[i] < Len(Meant(w)) => Looked(w, w.it[i]) = Meant(w)[w.want[i] + 1]

(* iota tells two iterators apart only if the one asked is the lesser, and *)
(* the - of indexed_iterator only takes the greater one first.             *)
Comparable(w, i, j) ==
  /\ w.kind # "circular"
  /\ w.kind = "input" => w.it[i].q = w.it[j].q
  /\ (w.kind = "iota" => ~w.arg.unsigned /\ w.it[i].p <= w.it[j].p)

Compares(w, i, j) ==
  /\ Comparable(w, i, j) => SameIterator(w, w.it[i], w.it[j]) <=> w.want[i] = w.want[j]
  /\ w.kind = "circular" =>
       SameIterator(w, w.it[i], w.it[j]) <=> (w.want[i] - w.want[j]) % Len(w.s) = 0
  /\ w.kind \in RandomAccess \ {"args", "circular"} /\ Comparable(w, i, j) =>
       LET far == w.want[i] - w.want[j] IN
       /\ w.kind # "repeat" => (LiesBefore(w, w.it[i], w.it[j]) <=> (IF w.kind = "iota" THEN far * w.arg.step ELSE far) < 0)
       /\ ~(w.kind = "indexed" /\ far < 0) => GapBetween(w, w.it[i], w.it[j]) = far * (IF w.kind = "chunk" THEN w.arg ELSE 1)

(* Nothing within the range is refused but the end, as the target of +, -, *)
(* and nothing that is refused is within; ++ and -- may leave it by one.   *)
ChecksHold(w, m) ==
  CASE w.kind = "indexed" ->
         \A n \in 0..(IterJump + 1) :
           /\ m.p + n < Len(w.s) => ~Refuses(w, m, "+", n) /\ ~Refuses(w, m, "+=", n)
           /\ m.p - n >= 0 /\ m.p - n < Len(w.s) => ~Refuses(w, m, "-", n) /\ ~Refuses(w, m, "-=", n)
           /\ ~Refuses(w, m, "+=", n) => m.p + n <= Len(w.s)
           /\ ~Refuses(w, m, "-=", n) => m.p - n >= 0
    [] w.kind = "checked" ->
         /\ \A op \in {"++", "--", "*"} : Throws(w, m, op) => m.p = Len(w.s)
         /\ "*" \in w.arg /\ m.p = Len(w.s) => Throws(w, m, "*")
    [] w.kind = "args" ->
         /\ ArgTrue(w, m) <=> ~ArgAtEnd(w, m)
         /\ \A n \in -Len(w.s)..Len(w.s) : ArgAllowed(w, m, n) <=> m.p + n \in 1..(Len(w.s) - 1)
    [] OTHER -> TRUE

InsertedAsNamed(w) ==
  CASE w.kind = "sorted_insert" ->
         /\ \A p \in 1..(Len(w.s) - 1) : ClassOf(w.s[p]) <= ClassOf(w.s[p + 1])
         /\ \A c \in {0, 1} : SelectSeq(w.s, LAMBDA v : ClassOf(v) = c) = Reverse(SelectSeq(w.arg, LAMBDA v : ClassOf(v) = c))
    [] w.kind = "inserter" -> ToSet(w.s) = ToSet(w.arg) /\ Cardinality(ToSet(w.s)) = Len(w.s)
    [] OTHER -> w.s = w.arg

(* Whatever moves have been made, forwards, backwards or by jumps, an       *)
(* iterator looks at the element it should; two of them are equal, ordered  *)
(* and as far apart as their places; a count is the number of steps; a      *)
(* check neither refuses what is within the range nor lets through what is  *)
(* far out of it; and what is written is where the output iterator puts it. *)
(* For circular (get_offset), chunk, indexed, counting, iota, checked,      *)
(* reverse, zip, find, repeat, argument and type-erased iterators and the   *)
(* inserters.                                                              *)
IteratorsSound ==
  LET w == its IN
  ~w.astray =>
    IF w.kind \in Outputs THEN InsertedAsNamed(w)
    ELSE \A i \in 1..2 :
           /\ w.kind = "input" => w.arg = Cardinality({j \in 1..2 : HoldsOne(w, j)})
           /\ HoldsOne(w, i) => Deref(w, i)
           /\ w.kind \in Counting => w.it[i].q = w.want[i]
           /\ ChecksHold(w, w.it[i])
           /\ \A j \in 1..2 : HoldsOne(w, i) /\ HoldsOne(w, j) => Compares(w, i, j)
=================================================================================
