-------------------------------- MODULE OldStrings --------------------------------
(***************************************************************************)
(* The string types before the present string_view: daw::sv1's             *)
(* basic_string_view (deprecated/daw_string_view1.h, a 1 ends the names    *)
(* of its functions here) and basic_bounded_string                         *)
(* (deprecated/daw_bounded_string.h), which searches by way of it; how     *)
(* strings of all three compare; and split.                                *)
(*                                                                         *)
(* A view is one of StringView, of which nothing is known to follow it.    *)
(* Predicates and sets of characters are sets, as there.                   *)
(***************************************************************************)
EXTENDS StringView

CONSTANT BoundedCapacity \* the Capacity of a bounded string

ASSUME OldStringsAssumption == BoundedCapacity \in Nat

-------------------------------------------------------------------------------
(* Searching.                                                              *)

(* The end, if there is no match.                                          *)
Searched(cs, w, pos) == Min({p \in From(cs, pos) : At(cs, p, w)} \cup {Len(cs)})

Find1(cs, w, pos) ==
  CASE Len(cs) < Len(w) -> Npos
    [] Len(cs) >= Len(w) /\ w = <<>> -> pos
    [] OTHER -> IF Searched(cs, w, pos) = Len(cs) THEN Npos ELSE Searched(cs, w, pos)

(* Mutant of Rfind1: the last place to try is the end.                     *)
Rfind1FromEnd(cs, w, pos) ==
  IF Len(cs) < Len(w) \/ Min({pos, Len(cs)}) + Len(w) > Len(cs) THEN Npos
  ELSE Latest({p \in 0..Min({pos, Len(cs)}) : At(cs, p, w)})

Rfind1(cs, w, pos) ==
  IF Len(cs) < Len(w) THEN Npos
  ELSE Latest({p \in 0..Min({pos, Len(cs) - Len(w)}) : At(cs, p, w)})

FindFirstOf1(cs, set, pos) ==
  IF pos >= Len(cs) \/ set = {} THEN Npos ELSE Earliest({p \in From(cs, pos) : cs[p + 1] \in set})
FindFirstNotOf1(cs, set, pos) ==
  IF pos >= Len(cs) THEN Npos ELSE Earliest({p \in From(cs, pos) : cs[p + 1] \notin set})

(* As search of the present version, with the same misses.                 *)
Search1(cs, w, pos) == IF pos + Len(w) >= Len(cs) \/ w = <<>> THEN Npos ELSE Find1(cs, w, pos)

(* From pos, or from the end, towards the front.                           *)
FindLastOf1(cs, set, pos) ==
  Latest({p \in 0..(IF pos >= Len(cs) THEN Len(cs) - 1 ELSE pos) : cs[p + 1] \in set})

(* For one character: from the end down to the character after pos, of a   *)
(* view that is not empty (an empty one is left at the front).             *)
FindLastOfChar1(cs, c, pos) ==
  Latest({p \in ((IF pos >= Len(cs) THEN 0 ELSE pos) + 1)..(Len(cs) - 1) : cs[p + 1] = c})

(* The helper find_not_of returns the first character that is w[0].        *)
FindLastNotOf1(cs, w, pos) ==
  LET from == IF pos < Len(cs) THEN pos ELSE IF cs = <<>> THEN Npos ELSE Len(cs) - 1
  IN CASE w = <<>> -> from
       [] w # <<>> /\ cs = <<>> -> Npos
       [] OTHER -> FindLastOf1(cs, {w[1]}, from)

StartsWith1(cs, w) == Len(w) <= Len(cs) /\ SubSeq(cs, 1, Len(w)) = w
EndsWith1(cs, w) == Len(w) <= Len(cs) /\ SubSeq(cs, Len(cs) - Len(w) + 1, Len(cs)) = w

(* What a bounded string looks for becomes a bounded string, which has     *)
(* room for its terminator too, and no more.                               *)
Clipped(w) == SubSeq(w, 1, Min({Len(w), BoundedCapacity + 1}))
FindBounded(cs, w, pos) == Find1(cs, Clipped(w), pos)
RfindBounded(cs, w, pos) == Rfind1(cs, Clipped(w), pos)
FindLastNotOfBounded(cs, w, pos) == FindLastNotOf1(cs, Clipped(w), pos)
StartsWithBounded(cs, w) == StartsWith1(cs, Clipped(w))
EndsWithBounded(cs, w) == EndsWith1(cs, Clipped(w))

-------------------------------------------------------------------------------
(* Comparing. A character has a rank: the order of its values, or what a   *)
(* comparison function makes of it. The terminator comes first.            *)

Rank == LET order == <<Nul>> \o SetToSeq(Letters)
        IN [c \in Letters \cup {Nul} |-> CHOOSE i \in DOMAIN order : order[i] = c]
Caseless == [c \in Letters \cup {Nul} |-> IF c = Nul THEN 0 ELSE 1]

Sign(n) == IF n < 0 THEN -1 ELSE IF n > 0 THEN 1 ELSE 0
Together(l, r) == 1..Min({Len(l), Len(r)})

Compare1(l, r) ==
  LET differ == {i \in Together(l, r) : l[i] # r[i]}
  IN IF differ = {} THEN Sign(Len(l) - Len(r)) ELSE Sign(Rank[l[Min(differ)]] - Rank[r[Min(differ)]])

(* The present version asks a comparison function, both ways around.       *)
Compare2(l, r, rank) ==
  LET less == {i \in Together(l, r) : rank[l[i]] < rank[r[i]]}
      more == {i \in Together(l, r) : rank[r[i]] < rank[l[i]]}
  IN CASE less \cup more = {} -> Sign(Len(l) - Len(r))
       [] less \cup more # {} -> IF Min(less \cup more) \in less THEN -1 ELSE 1

CompareBounded(l, r) == Compare1(l, r)

(* Operators, and a literal or pointer, which ends at its terminator.      *)
Holds(op, sign) ==
  CASE op = "==" -> sign = 0 [] op = "!=" -> sign # 0 [] op = "<" -> sign < 0
    [] op = "<=" -> sign <= 0 [] op = ">" -> sign > 0 [] op = ">=" -> sign >= 0
Operators == {"==", "!=", "<", "<=", ">", ">="}
TurnedRound == [op \in Operators |->
  CASE op = "<" -> ">" [] op = ">" -> "<" [] op = "<=" -> ">=" [] op = ">=" -> "<=" [] OTHER -> op]
CString(cs) == SubSeq(cs, 1, Min({i \in DOMAIN cs : cs[i] = Nul} \cup {Len(cs) + 1}) - 1)

EqualViews1(op, l, r) == op \in {"==", "!="} /\ Holds(op, Compare1(l, r))
OrderedViews1(op, l, r) == op \notin {"==", "!="} /\ Holds(op, Compare1(l, r))
OrderedViews2(op, l, r) == Holds(op, Compare2(l, r, Rank))
BoundedLeft(op, l, r) == Holds(op, CompareBounded(l, r))
ViewLeft(op, l, r) == Holds(TurnedRound[op], CompareBounded(r, l))
StringLeft(op, l, r) == Holds(TurnedRound[op], CompareBounded(r, l))
PointerRight(op, l, r) == Holds(op, Compare1(l, CString(r)))
PointerLeft(op, l, r) == Holds(op, Compare1(CString(l), r))
LiteralRight(op, l, r) == Holds(op, Compare1(l, CString(r)))
LiteralLeft(op, l, r) == Holds(op, Compare1(IF op = "==" THEN l ELSE CString(l), r))

-------------------------------------------------------------------------------
(* split: what lies between the characters of a set. Nothing follows one   *)
(* that ends the text.                                                     *)

Split1(cs, set) ==
  LET cuts == {0} \cup {i \in DOMAIN cs : cs[i] \in set}
      PieceAt(i) == SubSeq(cs, i + 1, Min({j \in cuts : j > i} \cup {Len(cs) + 1}) - 1)
      starts == SetToSortSeq(cuts \ {Len(cs)}, <)
  IN [n \in DOMAIN starts |-> PieceAt(starts[n])]

(* Splitting a literal, the terminator counts as text.                     *)
SplitLiteral(cs, set) == Split1(cs \o <<Nul>>, set)

(* An output stream pads with fill characters up to its width.             *)
Padded(cs, width, left, fill) ==
  LET padding == [i \in 1..(IF width <= Len(cs) THEN 0 ELSE width - Len(cs)) |-> fill]
  IN IF left THEN cs \o padding ELSE padding \o cs

-------------------------------------------------------------------------------
(* The calls on a view.                                                    *)

PopFront1 ==
  \/ \E n \in Counts \cup {Npos} : Done("pop_front", "front", {}, FrontUntil(here, n, 0))
  \/ \E w \in Strings : Done("pop_front", "front", {w}, FrontUntil(here, Find1(now, w, 0), Len(w)))
  \/ \E set \in Predicates :
       Done("pop_front", "front", Singles(set), FrontUntil(here, FindFirstOf1(now, set, 0), 1))

PopBack1 ==
  \/ \E n \in Counts \cup {Npos} :
       LET count == Min({n, SizeOf(here)})
       IN Done("pop_back", "back", {}, Parted(RemoveSuffix(here, count), Substr(here, SizeOf(here) - count, Npos)))
  \/ \E w \in Strings : Done("pop_back", "back", {w}, BackUntil(here, Rfind1(now, w, Npos), Len(w), 0))
  \/ \E set \in Predicates :
       Done("pop_back", "back", Singles(set), BackUntil(here, FindLastOf1(now, set, Npos), 1, 0))

TryPop1 ==
  \E w \in Strings :
    \/ IF Find1(now, w, 0) = Npos THEN Done("not found", "front", {w}, Parted(here, NoView))
       ELSE Done("try_pop_front", "front", {w}, FrontUntil(here, Find1(now, w, 0), Len(w)))
    \/ IF Rfind1(now, w, Npos) = Npos THEN Done("not found", "back", {w}, Parted(here, NoView))
       ELSE Done("try_pop_back", "back", {w}, BackUntil(here, Rfind1(now, w, Npos), Len(w), 0))

ConsumeFront1 == \E w \in Strings : Moves("consume_front", FrontUntil(here, Find1(now, w, 0), Len(w)).rest)

(* resize only makes smaller; clear forgets the array.                     *)
MoveEnds1 ==
  \/ \E n \in Counts : Moves("remove_prefix", RemovePrefix(here, n))
  \/ \E n \in Counts : Moves("remove_suffix", RemoveSuffix(here, n))
  \/ \E n \in 0..(SizeOf(here) - 1) : Moves("resize", Resized(here, n))
  \/ Moves("clear", NoView)
  \/ \E pos \in 0..SizeOf(here), n \in Counts \cup {Npos} : Moves("substr", Substr(here, pos, n))

OldTextInit ==
  \E n \in ArraySizes : \E mem \in [0..(n - 1) -> Letters \cup {Nul}], l \in 0..n :
    text = Constructed(mem, l, FALSE)

OldTextNext == PopFront1 \/ PopBack1 \/ TryPop1 \/ ConsumeFront1 \/ MoveEnds1 \/ NextCall

OldTextSpec == OldTextInit /\ [][OldTextNext]_text

-------------------------------------------------------------------------------
(* Properties.                                                             *)

(* A program that moves from one string type to the next gets the same     *)
(* answers: the searches of the old view are those of the new one and of   *)
(* the bounded string, from any position. Where they are not: find_last_of *)
(* the new one ignores its position and find_last_of_if does not look at   *)
(* it; find_last_of for one character never sees the first character;      *)
(* find_last_not_of the old one looks for a character that is the first of *)
(* those it was given; and a bounded string finds of a longer string only  *)
(* as much as it can hold.                                                 *)
SearchesAgree ==
  LET cs == CharsOf(text.view) IN
  text.call = "none" =>
    /\ \A w \in Strings \cup {<<>>}, pos \in 0..Len(cs) :
         /\ Find1(cs, w, pos) = Find(cs, w, pos)
         /\ Rfind1(cs, w, pos) = Rfind(cs, w, pos)
         /\ Search1(cs, w, pos) = Search(cs, w, pos)
         /\ StartsWith1(cs, w) = StartsWith(cs, w) /\ EndsWith1(cs, w) = EndsWith(cs, w)
         /\ Len(w) <= BoundedCapacity + 1 =>
              /\ FindBounded(cs, w, pos) = Find(cs, w, pos)
              /\ RfindBounded(cs, w, pos) = Rfind(cs, w, pos)
              /\ StartsWithBounded(cs, w) = StartsWith(cs, w)
              /\ EndsWithBounded(cs, w) = EndsWith(cs, w)
         /\ FindBounded(cs, w, pos) # Npos => FindBounded(cs, w, pos) <= Find(cs, w, pos)
    /\ \A set \in Predicates, pos \in 0..Len(cs) :
         /\ FindFirstOf1(cs, set, pos) = FindFirstOf(cs, set, pos)
         /\ FindFirstNotOf1(cs, set, pos) = FindFirstNotOf(cs, set, pos)
         /\ FindLastOf1(cs, set, Npos) = FindLastOf(cs, set, Npos, FALSE)
         /\ FindLastOfIf(cs, set, pos) # Npos => FindLastOf1(cs, set, pos) >= FindLastOfIf(cs, set, pos)
         /\ FindLastOf1(cs, set, pos) \in {pos, FindLastOfIf(cs, set, pos)}
    /\ \A c \in Letters :
         /\ LET p == FindLastOf1(cs, {c}, Npos)
            IN cs # <<>> => FindLastOfChar1(cs, c, Npos) = (IF p = 0 THEN Npos ELSE p)
         /\ FindLastNotOf1(cs, <<c>>, Npos) = FindLastOf(cs, {c}, Npos, FALSE)

(* Strings of all types are ordered, the same whichever side each stands   *)
(* on: the signs are opposite when the sides change, equal strings and     *)
(* only they have sign 0, and what precedes a string precedes what follows *)
(* it. A comparison function that tells fewer characters apart gives an    *)
(* order too. A literal or pointer compares as far as its terminator;      *)
(* == with a literal on the left compares all of it, so that a literal     *)
(* with a terminator inside may be neither == nor !=.                      *)
StringsOrdered ==
  LET cs == CharsOf(text.view)
      words == Strings \cup {<<>>, <<Nul>>}
  IN text.call = "none" =>
     /\ \A w \in words :
          /\ Compare1(cs, w) = -Compare1(w, cs)
          /\ Compare1(cs, w) = 0 <=> cs = w
          /\ Compare1(cs, w) = Compare2(cs, w, Rank)
          /\ Compare2(cs, w, Caseless) = -Compare2(w, cs, Caseless)
          /\ \A v \in words, rank \in {Rank, Caseless} :
               Compare2(w, cs, rank) <= 0 /\ Compare2(cs, v, rank) <= 0 => Compare2(w, v, rank) <= 0
          /\ \A op \in Operators :
               /\ BoundedLeft(op, cs, w) <=> EqualViews1(op, cs, w) \/ OrderedViews1(op, cs, w)
               /\ OrderedViews2(op, cs, w) <=> BoundedLeft(op, cs, w)
               /\ ViewLeft(op, cs, w) <=> BoundedLeft(op, cs, w)
               /\ StringLeft(op, w, cs) <=> BoundedLeft(TurnedRound[op], cs, w)
               /\ PointerRight(op, cs, w) <=> PointerLeft(TurnedRound[op], w, cs)
          /\ PointerLeft("<=", cs, w) <=> ~PointerLeft(">", cs, w)
          /\ Nul \notin ToSet(cs) => (LiteralLeft("==", cs, w) <=> ~LiteralLeft("!=", cs, w))
          /\ LiteralRight("==", w, cs) <=> ~LiteralRight("!=", w, cs)

(* Split apart and joined again, a text is what it was, except that a      *)
(* delimiter that ends it is lost; no piece holds a delimiter; and of a    *)
(* literal there is always a last piece, which holds the terminator.       *)
SplitsJoin ==
  LET cs == CharsOf(text.view)
      Joined(ps, c) == FlattenSeq([i \in DOMAIN ps |-> IF i = 1 THEN ps[1] ELSE <<c>> \o ps[i]])
  IN text.call = "none" =>
     \A c \in Letters :
       /\ \A i \in DOMAIN Split1(cs, {c}) : c \notin ToSet(Split1(cs, {c})[i])
       /\ cs \in {Joined(Split1(cs, {c}), c), Joined(Split1(cs, {c}), c) \o <<c>>}
       /\ Joined(SplitLiteral(cs, {c}), c) = cs \o <<Nul>>
       /\ \A left \in BOOLEAN, width \in Counts :
            LET out == Padded(cs, width, left, c)
            IN /\ Len(out) = Max({width, Len(cs)})
               /\ IF left THEN StartsWith1(out, cs) ELSE EndsWith1(out, cs)

(* All of them: the searches of a view agree with each other and mirror,   *)
(* an old string type may stand in for the present one and be compared     *)
(* with it, and what split takes apart join puts together.                 *)
StringsAgree == SearchesMirror /\ SearchesAgree /\ StringsOrdered /\ SplitsJoin
===================================================================================
