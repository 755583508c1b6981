--------------------------------- MODULE Views ----------------------------------
(***************************************************************************)
(* daw::view, span, contiguous_view and span_writer: a part of an array,   *)
(* taken piece by piece from either end. A view is where it begins, where  *)
(* it ends and the size it says it has. A call is one step; one that       *)
(* throws or ends the program changes nothing.                             *)
(***************************************************************************)
EXTENDS Integers, FiniteSetsExt

CONSTANTS Items,        \* what the array holds
          ArrayLengths,
          SizeRange     \* the number of values of a size_t

ASSUME ViewsAssumption ==
  /\ Items \subseteq Int /\ ArrayLengths \subseteq Nat
  /\ SizeRange \in Nat /\ \A n \in ArrayLengths : n < SizeRange

VARIABLE seen \* the array, the view of it, both as they were, and the last call

Part(first, last) == [first |-> first, last |-> last, size |-> last - first]
Sized(first, size) == [first |-> first, last |-> first + size, size |-> size]

DropFront(v, n) == [v EXCEPT !.first = @ + n, !.size = @ - n]
DropBack(v, n) == [v EXCEPT !.last = @ - n, !.size = @ - n]

(* span knows its end by its size, and that is a size_t.                   *)
SpanDropFront(v, n) == Sized(v.first + n, (v.size - n) % SizeRange)
SpanDropBack(v, n) == Sized(v.first, (v.size - n) % SizeRange)
SpanSubspan(v, pos, count) == Sized(v.first + pos, Min({count, v.size - pos}))

(* contiguous_view removes no more than there is. Its subspan counts the   *)
(* end from the beginning of the view, not from the offset.                *)
ContiguousDropFront(v, n) == DropFront(v, Min({n, v.size}))
ContiguousDropBack(v, n) == DropBack(v, Min({n, v.size}))
ContiguousSubspan(v, offset, count) ==
  Part(v.first + offset, v.first + Min({count, v.size - Min({v.size, offset})}))

(* The first item from the front that is, or is not, the needle.           *)
FindRaw(v, needle) == Min({p \in v.first..(v.last - 1) : seen.mem[p] = needle} \cup {v.last})
FindFirstNotOfRaw(v, needle) == Min({p \in v.first..(v.last - 1) : seen.mem[p] # needle} \cup {v.last})

(* A span of two pointers of which the last comes first is empty; one of a *)
(* contiguous_view is not looked at.                                       *)
SpanOf(first, last) == Sized(first, Max({last - first, 0}))

-------------------------------------------------------------------------------
(* Reading: what a call answers, a set with nothing in it if it throws or  *)
(* ends the program.                                                       *)

ItemAt(v, p) == {seen.mem[i] : i \in {p} \cap v.first..(v.last - 1)}
ItemOf(v, n) == ItemAt(v, v.first + n)
FrontItem(v) == ItemAt(v, v.first)
BackItem(v) == ItemAt(v, v.last - 1)

(* [] of a contiguous_view of items that may be changed lets its end pass. *)
IndexPasses(v, n, const) == IF const THEN n < v.size ELSE n <= v.size

(* rbegin to rend.                                                         *)
Backwards(v) == [i \in 1..v.size |-> seen.mem[v.last - i]]

SameItems(v, w) == v.size = w.size /\ \A i \in 0..(v.size - 1) : seen.mem[v.first + i] = seen.mem[w.first + i]

(* lexicographical_compare: the first item that differs decides, or the    *)
(* length.                                                                 *)
LessItems(v, w) ==
  LET same == {k \in 0..Min({v.size, w.size}) : \A i \in 0..(k - 1) : seen.mem[v.first + i] = seen.mem[w.first + i]}
      k == Max(same)
  IN k < w.size /\ (k = v.size \/ seen.mem[v.first + k] < seen.mem[w.first + k])

-------------------------------------------------------------------------------
(* A call, the view it left, and the part it gave away.                    *)
Called(v, call) == seen' = [seen EXCEPT !.view = v, !.before = seen.view, !.was = seen.mem, !.call = call]
Did(call, v, handed) == Called(v, [call |-> call, handed |-> handed])

NoPart == Part(0, 0)
viewed == seen.view
Amounts == 0..(Max(ArrayLengths) + 1)
FrontPart(n) == Part(viewed.first, viewed.first + n)
BackPart(n) == Part(viewed.last - n, viewed.last)

(* Only the calls of daw::view that return a view clip.                    *)
ViewPopFrontUnclipped(n) == Did("pop_front", DropFront(viewed, n), FrontPart(n))
ViewPopFront(n) == Did("pop_front", DropFront(viewed, Min({n, viewed.size})), FrontPart(Min({n, viewed.size})))
ViewPopBack(n) == Did("pop_back", DropBack(viewed, Min({n, viewed.size})), BackPart(Min({n, viewed.size})))

OnView ==
  \E n \in Amounts :
    \/ ViewPopFront(n)
    \/ ViewPopBack(n)
    \/ Did("unclipped", DropFront(viewed, n), NoPart)
    \/ Did("unclipped", DropBack(viewed, n), NoPart)

(* pop_front( n ) of span clips what it returns, not what it removes;      *)
(* pop_back( n ) of more than there is throws.                             *)
SpanPopFront(n) ==
  Did(IF n > viewed.size THEN "unclipped" ELSE "pop_front", SpanDropFront(viewed, n), SpanSubspan(viewed, 0, n))
SpanPopBack(n) ==
  n <= viewed.size /\ Did("pop_back", SpanDropBack(viewed, n), SpanSubspan(viewed, viewed.size - n, n))

OnSpan ==
  \E n \in Amounts :
    \/ SpanPopFront(n)
    \/ SpanPopBack(n)
    \/ \E pos \in 0..viewed.size : Did("subspan", SpanSubspan(viewed, pos, n), NoPart)
    \/ Did("unclipped", SpanDropFront(viewed, n), NoPart)
    \/ Did("unclipped", SpanDropBack(viewed, n), NoPart)

(* With discard one item more goes, if there is one.                       *)
PopFrontTo(how, pos, needle) ==
  \E discard \in BOOLEAN :
    Called(IF discard THEN ContiguousDropFront(Part(pos, viewed.last), 1) ELSE Part(pos, viewed.last),
           [call |-> how, handed |-> Part(viewed.first, pos), needle |-> needle, discard |-> discard])

OnContiguousView ==
  \/ \E n \in Amounts :
       \/ Did("pop_front", ContiguousDropFront(viewed, n), FrontPart(Min({n, viewed.size})))
       \/ Did("pop_back", ContiguousDropBack(viewed, n), BackPart(Min({n, viewed.size})))
       \/ \E offset \in Amounts : Did("unclipped", ContiguousSubspan(viewed, offset, n), NoPart)
  \/ \E needle \in Items : \/ PopFrontTo("until", FindRaw(viewed, needle), needle)
                           \/ PopFrontTo("while", FindFirstNotOfRaw(viewed, needle), needle)
  \/ viewed.first > 0 /\ Did("add", Part(viewed.first - 1, viewed.last), NoPart)
  \/ viewed.last \in DOMAIN seen.mem /\ Did("add", Part(viewed.first, viewed.last + 1), NoPart)

(* What is written is gone from the front. More than there is room for     *)
(* ends the program.                                                       *)
Write(items, n) ==
  /\ n <= viewed.size
  /\ seen' = [seen EXCEPT !.view = DropFront(viewed, n), !.before = viewed, !.was = seen.mem,
                          !.call = [call |-> "write", handed |-> FrontPart(n)],
                          !.mem = [p \in DOMAIN @ |-> IF p \in viewed.first..(viewed.first + n - 1)
                                                      THEN items[p - viewed.first] ELSE @[p]]]

OnWriter ==
  \E n \in Amounts :
    \/ \E items \in [0..(n - 1) -> Items] : Write(items, n)
    \/ n <= viewed.size /\ Did("pop_front", DropFront(viewed, n), FrontPart(n))

-------------------------------------------------------------------------------
(* A view is made of a whole array or of a part of one; more than there is *)
(* ends the program.                                                       *)
ViewOf(kind, mem, part) ==
  [kind |-> kind, mem |-> mem, was |-> mem, view |-> part, before |-> part,
   call |-> [call |-> "none", handed |-> NoPart]]

SeenInit ==
  \E n \in ArrayLengths, kind \in {"view", "span", "contiguous_view", "span_writer"} :
    \E mem \in [0..(n - 1) -> Items], first, last \in 0..n :
      IF kind = "span" THEN seen = ViewOf(kind, mem, SpanOf(first, last))
      ELSE first <= last /\ seen = ViewOf(kind, mem, Part(first, last))

(* Ends before its beginning, or outside the array.                        *)
Astray(v) == v.first > v.last \/ v.last - 1 \notin DOMAIN seen.mem \cup {-1}

SeenNext ==
  /\ ~Astray(viewed)
  /\ \/ seen.kind = "view" /\ OnView
     \/ seen.kind = "span" /\ OnSpan
     \/ seen.kind = "contiguous_view" /\ OnContiguousView
     \/ seen.kind = "span_writer" /\ OnWriter

SeenSpec == SeenInit /\ [][SeenNext]_seen

-------------------------------------------------------------------------------
(* Whatever is taken from a view, what it gives away and what is left are  *)
(* next to each other and make up what it was, but for the one item that a *)
(* discard drops; a part popped until a needle has none in it, and one     *)
(* popped while there is a needle nothing else. The size is the distance   *)
(* of the ends. What span_writer writes goes into the part it gives up and *)
(* nowhere else. Only the calls that are not clipped (remove_prefix and    *)
(* remove_suffix of view and span, pop_front( n ) of span, subspan of      *)
(* contiguous_view with an offset) may leave a view with its ends crossed  *)
(* or beyond the array: clipped ones never do, whatever their argument.    *)
ViewsPart ==
  LET call == seen.call.call
      handed == seen.call.handed
      Searched(p) == seen.mem[p] = seen.call.needle <=> call = "until"
      dropped == handed.last..(viewed.first - 1)
  IN /\ Astray(viewed) => call = "unclipped"
     /\ ~Astray(viewed) => viewed.size = viewed.last - viewed.first
     /\ call \in {"pop_front", "write", "until", "while"} =>
          /\ handed.first = seen.before.first /\ viewed.last = seen.before.last
          /\ handed.last <= viewed.first
     /\ call \in {"pop_front", "write"} => dropped = {}
     /\ call \in {"until", "while"} =>
          /\ \A p \in handed.first..(handed.last - 1) : ~Searched(p)
          /\ handed.last # seen.before.last => Searched(handed.last)
          /\ IF seen.call.discard /\ handed.last # seen.before.last THEN dropped = {handed.last} ELSE dropped = {}
     /\ call = "pop_back" =>
          viewed.first = seen.before.first /\ handed.last = seen.before.last /\ handed.first = viewed.last
     /\ call = "subspan" => seen.before.first <= viewed.first /\ viewed.last <= seen.before.last
     /\ \A p \in DOMAIN seen.mem :
          seen.mem[p] # seen.was[p] => call = "write" /\ p \in handed.first..(handed.last - 1)

(* What views answer does not depend on where they are: of two parts of    *)
(* an array either one is less than the other or they are the same, item   *)
(* by item, and then each position, either end and the way backwards show  *)
(* the same items. A position is checked to be one of the view, but by []  *)
(* of a contiguous_view whose items may be changed, which lets one more    *)
(* pass.                                                                   *)
ViewsRead ==
  ~Astray(viewed) =>
    /\ \A first \in DOMAIN seen.mem, last \in DOMAIN seen.mem : first <= last =>
         LET part == Part(first, last) IN
         /\ LessItems(viewed, part) => ~LessItems(part, viewed)
         /\ SameItems(viewed, part) # (LessItems(viewed, part) \/ LessItems(part, viewed))
         /\ SameItems(viewed, part) =>
              /\ Backwards(viewed) = Backwards(part)
              /\ FrontItem(viewed) = FrontItem(part) /\ BackItem(viewed) = BackItem(part)
              /\ \A n \in Amounts : ItemOf(viewed, n) = ItemOf(part, n)
    /\ \A n \in Amounts, const \in BOOLEAN :
         IndexPasses(viewed, n, const) => ItemOf(viewed, n) # {} \/ (~const /\ n = viewed.size)

(* Both: what a view becomes, and what it answers.                         *)
ViewsSound == ViewsPart /\ ViewsRead
================================================================================
