------------------------------- MODULE StringView ------------------------------
(***************************************************************************)
(* daw::basic_string_view (daw_string_view.h): a view of an array of       *)
(* characters, and the searches it offers.                                 *)
(*                                                                         *)
(* A pointer into the array is an offset. The top bit of m_last, which     *)
(* says that a terminator follows, is zt; guessed remembers that it was    *)
(* set without anyone having said so. npos is a number above all others.   *)
(***************************************************************************)
EXTENDS Integers, SequencesExt

CONSTANTS Letters,   \* the characters other than the terminator
          Spaces,    \* those among them that trim removes
          Nul,
          ArraySizes \* of the arrays viewed

ASSUME TextAssumption == Spaces \subseteq Letters /\ Nul \notin Letters /\ ArraySizes \subseteq Nat

VARIABLE text \* the array, the view, and the last call: on what, at which end, its result

Npos == 1000
Following(pos) == IF pos = Npos THEN 0 ELSE pos + 1

View(first, last, zt) == [first |-> first, last |-> last, zt |-> zt, guessed |-> FALSE]
NoView == View(0, 0, FALSE)
SizeOf(v) == v.last - v.first
CharsOf(v) == [i \in 1..SizeOf(v) |-> text.mem[v.first + i - 1]]

(* A search finds the first or the last of the positions that will do.     *)
Earliest(ps) == IF ps = {} THEN Npos ELSE Min(ps)
Latest(ps) == IF ps = {} THEN Npos ELSE Max(ps)

-------------------------------------------------------------------------------
(* Searching characters cs, for a string or for any of a set of characters *)
(* (a predicate is the set of those for which it is true).                 *)

At(cs, p, w) == p + Len(w) <= Len(cs) /\ SubSeq(cs, p + 1, p + Len(w)) = w
From(cs, pos) == pos..(Len(cs) - 1)

Find(cs, w, pos) ==
  CASE Len(cs) < Len(w) -> Npos
    [] Len(cs) >= Len(w) /\ w = <<>> -> pos
    [] OTHER -> Earliest({p \in From(cs, pos) : At(cs, p, w)})

(* The overload for one character counts from pos, and skips pos more      *)
(* characters where it loops: in constant expressions, for wide ones.      *)
FindChar(cs, c, pos, loops) ==
  Earliest({p \in (IF loops THEN pos ELSE 0)..(Len(cs) - pos - 1) : cs[pos + p + 1] = c})

(* Several strings at once: a string is compared from where the one before *)
(* it failed, not from the position that is tried.                         *)
RECURSIVE MatchAny(_, _, _)
MatchAny(cs, it, ws) ==
  IF ws = <<>> THEN "none"
  ELSE LET w == Head(ws)
           same == Max({k \in 0..Len(w) : At(cs, it, SubSeq(w, 1, k))})
       IN IF same = Len(w) THEN "found"
          ELSE IF it + same = Len(cs) THEN "at the end" ELSE MatchAny(cs, it + same, Tail(ws))

FindFirstMatch(cs, ws, pos) ==
  IF \E i \in DOMAIN ws : ws[i] = <<>> THEN pos
  ELSE LET p == Earliest({q \in From(cs, pos) : MatchAny(cs, q, ws) # "none"})
       IN IF p # Npos /\ MatchAny(cs, p, ws) = "found" THEN p ELSE Npos

Rfind(cs, w, pos) ==
  LET start == Min({pos, Len(cs) - Len(w)})
  IN CASE Len(cs) < Len(w) -> Npos
       [] Len(cs) >= Len(w) /\ w = <<>> -> start
       [] OTHER -> Latest({p \in 0..start : At(cs, p, w)})

FindFirstOf(cs, set, pos) == Earliest({p \in From(cs, pos) : cs[p + 1] \in set})
FindFirstNotOf(cs, set, pos) == Earliest({p \in From(cs, pos) : cs[p + 1] \notin set})

(* For single bytes pos plays no part. For wider characters it says how    *)
(* many to leave out in front, and is taken for the answer if none is found*)
FindLastOf(cs, set, pos, wide) ==
  LET skipped == IF pos >= Len(cs) THEN 0 ELSE Len(cs) - (pos + 1)
      found == Latest({p \in (IF wide THEN skipped ELSE 0)..(Len(cs) - 1) : cs[p + 1] \in set})
  IN IF found = Npos /\ wide /\ set # {} /\ skipped > 0 THEN skipped - 1 ELSE found

FindLastOfIf(cs, set, pos) == Latest({p \in 0..(Min({pos, Len(cs)}) - 1) : cs[p + 1] \in set})

(* Of a view that is not empty; pos = size( ) reads past the end.          *)
FindLastNotOf(cs, set, pos) ==
  IF cs = <<>> THEN Npos
  ELSE Latest({p \in 0..(IF pos > Len(cs) THEN Len(cs) - 1 ELSE pos) : cs[p + 1] \notin set})

(* search misses a match that ends the text. search_last goes on from the  *)
(* match it has, finds the same again, and stops there.                    *)
Search(cs, w, pos) ==
  IF pos + Len(w) >= Len(cs) \/ w = <<>> THEN Npos ELSE Earliest({p \in From(cs, pos) : At(cs, p, w)})

SearchLast(cs, w, pos) ==
  IF pos + Len(w) >= Len(cs) \/ w = <<>> THEN Npos
  ELSE IF Search(cs, w, pos) = Npos THEN pos ELSE Search(cs, w, pos)

StartsWith(cs, w) == Len(w) <= Len(cs) /\ \A i \in DOMAIN w : cs[i] = w[i]
EndsWith(cs, w) == Len(w) <= Len(cs) /\ \A i \in DOMAIN w : cs[Len(cs) - Len(w) + i] = w[i]

-------------------------------------------------------------------------------
(* Moving the ends, and parts of a view.                                   *)

RemovePrefix(v, n) == [v EXCEPT !.first = @ + Min({n, SizeOf(v)})]
RemoveSuffix(v, n) == [v EXCEPT !.last = @ - Min({n, SizeOf(v)}), !.zt = FALSE]

Resized(v, n) == IF n = SizeOf(v) THEN v ELSE [v EXCEPT !.last = v.first + n, !.zt = FALSE]

Substr(v, pos, count) == View(v.first + pos, v.first + pos + Min({count, SizeOf(v) - pos}), FALSE)

(* What ends where the view ends is said to be terminated.                 *)
SubstrUnsafe(v, pos, count) ==
  LET ends == pos + count = SizeOf(v)
  IN [View(v.first + pos, v.first + pos + count, ends) EXCEPT !.guessed = ends /\ (v.zt => v.guessed)]

(* What each pop leaves, and what it returns.                              *)
Parted(rest, got) == [rest |-> rest, got |-> got]

(* Mutant of FrontUntil: the part is removed before it is copied.          *)
FrontUntilLate(v, pos, dropped) ==
  LET rest == RemovePrefix(v, pos) IN Parted(RemovePrefix(rest, dropped), Substr(rest, 0, pos))
FrontUntil(v, pos, dropped) ==
  Parted(RemovePrefix(RemovePrefix(v, pos), dropped), Substr(v, 0, pos))

(* From the end down to pos: skipped characters there are not returned,    *)
(* kept ones stay in the view. All is returned if nothing was found.       *)
BackUntil(v, pos, skipped, kept) ==
  IF pos = Npos THEN Parted(RemovePrefix(v, Npos), v)
  ELSE Parted(RemoveSuffix(v, SizeOf(v) - pos - kept), Substr(v, pos + skipped, Npos))

-------------------------------------------------------------------------------
(* The calls. until is what was searched for, a set of strings.            *)

Done(call, end, until, parted) ==
  /\ text.call = "none"
  /\ text' = [text EXCEPT !.was = text.view, !.call = call, !.end = end, !.until = until,
                          !.view = parted.rest, !.got = parted.got]

Moves(call, v) == Done(call, "none", {}, Parted(v, NoView))

(* Before the next call, what the last one returned is forgotten.          *)
NextCall ==
  /\ text.call # "none"
  /\ text' = [text EXCEPT !.was = text.view, !.call = "none", !.end = "none", !.until = {}, !.got = NoView]

Strings == UNION {[1..n -> Letters] : n \in 1..2}
Predicates == {{c} : c \in Letters} \cup {Letters}
Singles(set) == {<<c>> : c \in set}
Counts == 0..Max(ArraySizes)
here == text.view
now == CharsOf(here)

PopFront == \E n \in Counts \cup {Npos} : Done("pop_front", "front", {}, FrontUntil(here, n, 0))

PopFrontUnsafe ==
  \E n \in 0..SizeOf(here) :
    Done("pop_front_unsafe", "front", {},
         Parted(RemovePrefix(here, n), SubstrUnsafe(here, 0, SizeOf(here))))

PopFrontUntil ==
  \/ \E w \in Strings, dropped \in BOOLEAN :
       Done("pop_front_until", "front", {w},
            FrontUntil(here, Find(now, w, 0), IF dropped THEN Len(w) ELSE 0))
  \/ \E set \in Predicates, dropped \in {0, 1} :
       Done("pop_front_until", "front", Singles(set), FrontUntil(here, FindFirstOf(now, set, 0), dropped))

PopFrontWhile ==
  \E set \in Predicates :
    Done("pop_front_while", "front", Singles((Letters \cup {Nul}) \ set),
         FrontUntil(here, FindFirstNotOf(now, set, 0), 0))

(* Nothing is done if nothing is found, except that the overload for a     *)
(* predicate drops a character all the same.                               *)
TryPopFrontUntil ==
  LET Try(pos, dropped) == IF pos = Npos THEN Parted(here, NoView)
                           ELSE FrontUntil(here, pos, dropped)
      NoneFor(set) == FindFirstOf(now, set, 0) = Npos
  IN \/ \E w \in Strings, dropped \in BOOLEAN :
          Done(IF Find(now, w, 0) = Npos THEN "not found" ELSE "try_pop_front_until", "front", {w},
               Try(Find(now, w, 0), IF dropped THEN Len(w) ELSE 0))
     \/ \E set \in Predicates :
          Done(IF NoneFor(set) THEN "not found" ELSE "try_pop_front_until", "front", Singles(set),
               Try(FindFirstOf(now, set, 0), 0))
     \/ \E set \in Predicates :
          LET found == Try(FindFirstOf(now, set, 0), 0)
          IN Done(IF NoneFor(set) THEN "not found predicate" ELSE "try_pop_front_until", "front", Singles(set),
                  [found EXCEPT !.rest = RemovePrefix(@, 1)])

PopBack ==
  \E n \in Counts \cup {Npos} :
    LET count == Min({n, SizeOf(here)})
    IN Done("pop_back", "back", {},
            Parted(RemoveSuffix(here, count), Substr(here, SizeOf(here) - count, Npos)))

PopBackUnsafe ==
  \E n \in 0..SizeOf(here) :
    Done("pop_back_unsafe", "back", {},
         Parted(RemoveSuffix(here, n), SubstrUnsafe(here, SizeOf(here) - n, n)))

(* Strings are dropped, also with nodiscard (whose overload for one        *)
(* character does not compile). With a predicate, nodiscard returns the    *)
(* character.                                                              *)
PopBackUntil ==
  \/ \E w \in Strings :
       Done("pop_back_until", "back", {w}, BackUntil(here, Rfind(now, w, Npos), Len(w), 0))
  \/ \E set \in Predicates, skipped \in {0, 1} :
       LET pos == FindLastOfIf(now, set, Npos)
       IN Done(IF skipped = 1 \/ pos = Npos THEN "pop_back_until" ELSE "with it", "back", Singles(set),
               BackUntil(here, pos, skipped, 0))

(* A character is returned by all of these, and by those with nodiscard it *)
(* is left in the view as well.                                            *)
TryPopBackUntil ==
  LET Try(pos, skipped, kept) == IF pos = Npos THEN Parted(here, NoView)
                                 ELSE BackUntil(here, pos, skipped, kept)
  IN \/ \E w \in Strings :
          Done(IF Rfind(now, w, Npos) = Npos THEN "not found" ELSE "try_pop_back_until", "back", {w},
               Try(Rfind(now, w, Npos), Len(w), 0))
     \/ \E set \in Predicates, kept \in {0, 1} :
          LET pos == FindLastOfIf(now, set, Npos)
          IN Done(IF pos = Npos THEN "not found" ELSE IF kept = 1 THEN "in both" ELSE "with it",
                  "back", Singles(set), Try(pos, 0, kept))

RemoveEnds ==
  \/ \E n \in Counts : Moves("remove_prefix", RemovePrefix(here, n))
  \/ \E n \in Counts : Moves("remove_suffix", RemoveSuffix(here, n))
  \/ \E n \in 0..SizeOf(here) : Moves("resize", Resized(here, n))
  \/ Moves("clear", [View(here.first, here.first, FALSE) EXCEPT !.guessed = here.guessed])
  \/ Moves("reset", NoView)

Trimmed(v, set) ==
  LET prefix == FindFirstNotOf(CharsOf(v), set, 0)
      v2 == RemovePrefix(v, prefix)
  IN Resized(v2, Following(FindLastNotOf(CharsOf(v2), set, Npos)))

RemoveUntilAndWhile ==
  \/ \E w \in Strings : Moves("remove_prefix_until", FrontUntil(here, Find(now, w, 0), Len(w)).rest)
  \/ \E w \in Strings : Moves("remove_prefix_until", RemovePrefix(here, Find(now, w, 0)))
  \/ \E set \in Predicates : Moves("remove_prefix_until", FrontUntil(here, FindFirstOf(now, set, 0), 1).rest)
  \/ \E set \in Predicates : Moves("remove_prefix_while", RemovePrefix(here, FindFirstNotOf(now, set, 0)))
  \/ \E set \in Predicates : Moves("remove_suffix_while", Resized(here, Following(FindLastNotOf(now, set, Npos))))
  \/ Moves("trim", Trimmed(here, Spaces))

Parts ==
  \/ \E pos \in 0..SizeOf(here), n \in Counts \cup {Npos} : Moves("substr", Substr(here, pos, n))
  \/ \E pos \in 0..SizeOf(here) : \E n \in 0..(SizeOf(here) - pos) : Moves("substr_unsafe", SubstrUnsafe(here, pos, n))

(* The caller sees to it that the array goes on there.                     *)
Expand ==
  \/ here.first > 0 /\ Moves("expand_prefix", [here EXCEPT !.first = @ - 1])
  \/ here.last \in DOMAIN text.mem /\ Moves("expand_suffix", [here EXCEPT !.last = @ + 1, !.zt = FALSE])

(* The caller has seen that a terminator follows.                          *)
Terminated(last) == last \in DOMAIN text.mem /\ text.mem[last] = Nul

SetZeroTerminated ==
  /\ Terminated(here.last)
  /\ Moves("set_zero_terminated", View(here.first, here.last, TRUE))

(* A view from the beginning of an array: of a number of characters, or up *)
(* to a terminator that strlen, c_str( ), a literal or the caller provides.*)
Constructed(mem, l, zt) ==
  [mem |-> mem, view |-> View(0, l, zt), was |-> View(0, l, zt), got |-> NoView,
   call |-> "none", end |-> "none", until |-> {}]

TextInit ==
  \E n \in ArraySizes : \E mem \in [0..(n - 1) -> Letters \cup {Nul}], l \in 0..n, zt \in BOOLEAN :
    /\ zt => l < n /\ mem[l] = Nul
    /\ text = Constructed(mem, l, zt)

TextNext ==
  \/ PopFront \/ PopFrontUnsafe \/ PopFrontUntil \/ PopFrontWhile \/ TryPopFrontUntil
  \/ PopBack \/ PopBackUnsafe \/ PopBackUntil \/ TryPopBackUntil
  \/ RemoveEnds \/ RemoveUntilAndWhile \/ Parts \/ Expand \/ SetZeroTerminated \/ NextCall

TextSpec == TextInit /\ [][TextNext]_text

-------------------------------------------------------------------------------
(* Properties.                                                             *)

Between(first, last) == CharsOf(View(first, last, FALSE))
NothingOf(until, v) == \A w \in until : Find(CharsOf(v), w, 0) = Npos

(* However a view is taken apart by a sequence of pops, what a pop returns *)
(* and what it leaves are the two ends of what there was; between them at  *)
(* most the string or character searched for is lost, which the part       *)
(* returned does not hold (or, where the code keeps it, only as its first  *)
(* character); and a search that is to do nothing when it finds nothing    *)
(* leaves the view alone. Neither part ever leaves the array. The code     *)
(* differs in pop_front_unsafe, which returns the whole view, in the       *)
(* overloads of try_pop_back_until that leave in the view the character    *)
(* they return, and in try_pop_front_until for a predicate that is never   *)
(* true. Its comments say of two cases what is not claimed here: that a    *)
(* try_pop_front_until with nodiscard returns a copy of the view if where  *)
(* is not found (1496-1497; it returns an empty one), and that what the    *)
(* overloads of try_pop_back_until for a character return begins after it  *)
(* (1625, 1641; it begins with it).                                        *)
PopsPartTheView ==
  LET t == text
      differs == {"pop_front_unsafe", "in both", "not found predicate"}
      returned == IF t.call = "with it" THEN RemovePrefix(t.got, 1) ELSE t.got
  IN /\ \A v \in {t.view, t.got} : 0 <= v.first /\ v.first <= v.last /\ v.last <= Cardinality(DOMAIN t.mem)
     /\ t.call = "not found" => t.view = t.was
     /\ t.end = "front" /\ t.call \notin differs \cup {"not found"} =>
          /\ t.got.first = t.was.first /\ t.got.last <= t.view.first /\ t.view.last = t.was.last
          /\ Between(t.got.last, t.view.first) \in t.until \cup {<<>>}
          /\ NothingOf(t.until, t.got)
     /\ t.end = "back" /\ t.call \notin differs \cup {"not found"} =>
          /\ t.got.last = t.was.last
          /\ \/ t.got.first = t.was.first /\ SizeOf(t.view) = 0
             \/ /\ t.view.first = t.was.first /\ t.view.last <= t.got.first
                /\ Between(t.view.last, t.got.first) \in t.until \cup {<<>>}
          /\ NothingOf(t.until, returned)

(* A view that says a terminator follows it is followed by one, through    *)
(* all that moves its ends and copies parts of it, so that get_c_str can   *)
(* hand out its pointer. The exception is a view of substr_unsafe that     *)
(* ends where the view it was taken from ends, and its copies: it says so  *)
(* without having been told (substr( ) and pop_back_unsafe do the same).   *)
TerminatorFollows ==
  \A v \in {text.view, text.got} : v.zt /\ ~v.guessed => Terminated(v.last)

(* Both: the parts are what they should be, and say of themselves what is  *)
(* so.                                                                     *)
TextParts == PopsPartTheView /\ TerminatorFollows

(* Searches from the back find what searches from the front find in the    *)
(* reversed text; the different ways to ask for the same agree; and no     *)
(* search from a position on looks before it. Nothing is claimed of rfind  *)
(* from a position: it looks back from there (2130-2141), but its comments *)
(* (2120-2123, 2145-2147, 2156-2158) say that it searches from there to    *)
(* the end: rfind of "a" in "aa" from 0 is 0, and would be 1 by them.      *)
SearchesMirror ==
  LET cs == CharsOf(text.view)
      sc == Reverse(cs)
      Mirrored(p, n) == IF p = Npos THEN Npos ELSE Len(cs) - n - p
  IN text.call = "none" =>
     /\ \A w \in Strings :
          /\ Rfind(cs, w, Npos) = Mirrored(Find(sc, Reverse(w), 0), Len(w))
          /\ FindFirstMatch(cs, <<w>>, 0) = Find(cs, w, 0)
          /\ Search(cs, w, 0) \in {Find(cs, w, 0), Npos}
          /\ SearchLast(cs, w, 0) # Npos => SearchLast(cs, w, 0) <= Rfind(cs, w, Npos)
          /\ StartsWith(cs, w) <=> Find(cs, w, 0) = 0
          /\ EndsWith(cs, w) <=> StartsWith(sc, Reverse(w))
          /\ \A pos \in 0..Len(cs) : Find(cs, w, pos) >= pos
     /\ \A set \in Predicates :
          /\ FindLastNotOf(cs, set, Npos) = Mirrored(FindFirstNotOf(sc, set, 0), 1)
          /\ \A p \in {FindLastOf(cs, set, Npos, TRUE), FindLastOf(cs, set, Npos, FALSE),
                        FindLastOfIf(cs, set, Npos)} : p = Mirrored(FindFirstOf(sc, set, 0), 1)
     /\ \A c \in Letters, loops \in BOOLEAN : FindChar(cs, c, 0, loops) = Find(cs, <<c>>, 0)
===============================================================================
