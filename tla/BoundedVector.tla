----------------------------- MODULE BoundedVector -----------------------------
(***************************************************************************)
(* bounded_vector_t, an array with the index of its end, and               *)
(* basic_bounded_string, which is one of them with a place more, for the   *)
(* zero that ends what c_str( ) gives. The index of the beginning is       *)
(* always zero: no operation moves it.                                     *)
(***************************************************************************)
EXTENDS Naturals, Sequences

CONSTANTS VectorValues,
          VectorRoom,  \* the elements of the array
          Zero         \* value_type{ }: what a new element holds, and the end of a string

ASSUME BoundedAssumption == VectorRoom \in Nat \ {0} /\ Zero \notin VectorValues

VARIABLES bounded,  \* is it a string, m_stack and m_index
          wanted     \* what a vector would hold, whether it is still followed, and the zero expected

boundedVars == <<bounded, wanted>>

Places == 0 .. VectorRoom - 1
Stored == bounded.index
StringCapacity == VectorRoom - 1
UpTo(n) == UNION {[1 .. k -> VectorValues] : k \in 0 .. n}

(* From a pointer and a count: what does not fit is left out. A string may *)
(* so fill the place of its zero; it then is not full( ), and push_back    *)
(* would write past the array, which no caller here does.                  *)
BoundedInit ==
  \E string \in BOOLEAN, items \in UpTo(VectorRoom) :
    /\ bounded = [string |-> string, index |-> Len(items),
                  cells |-> [p \in Places |-> IF p < Len(items) THEN items[p + 1] ELSE Zero]]
    /\ wanted = [items |-> items, followed |-> TRUE, ended |-> TRUE]

(* Each operation of a string but erase writes the zero at its new end.    *)
Ended(cells, index) ==
  IF bounded.string THEN [cells EXCEPT ![index] = Zero] ELSE cells

Became(cells, index, items) ==
  /\ wanted.followed
  /\ bounded' = [bounded EXCEPT !.cells = Ended(cells, index), !.index = index]
  /\ wanted' = [wanted EXCEPT !.items = items, !.ended = TRUE]

Filled(cells, from, items) ==
  [p \in Places |-> IF p \in from .. from + Len(items) - 1 THEN items[p - from + 1] ELSE cells[p]]

(* A string throws where there is no room; a vector does not look.         *)
HasRoomFor(n) == Stored + n <= IF bounded.string THEN StringCapacity ELSE VectorRoom

(* push_back, emplace_back and append, of one element or of several.       *)
PushAll(items) ==
  /\ HasRoomFor(Len(items))
  /\ Became(Filled(bounded.cells, Stored, items), Stored + Len(items), wanted.items \o items)

(* push_back( ) only counts the place: it holds what it held.              *)
PushUnset ==
  /\ ~bounded.string /\ HasRoomFor(1)
  /\ Became(bounded.cells, Stored + 1, Append(wanted.items, bounded.cells[Stored]))

Assign(count, v) ==
  /\ ~bounded.string /\ count <= VectorRoom
  /\ LET items == [i \in 1 .. count |-> v]
     IN Became(Filled(bounded.cells, 0, items), count, items)

PopBack == Stored > 0 /\ Became(bounded.cells, Stored - 1, SubSeq(wanted.items, 1, Stored - 1))

(* m_index <= m_index - count asks for more than there is, the difference  *)
(* being unsigned; then the end moves away from the beginning. What could  *)
(* be popped throws.                                                       *)
PopFrontPastEnd(count) ==
  /\ wanted.followed /\ ~bounded.string /\ count > Stored
  /\ bounded' = [bounded EXCEPT !.index = @ + count]
  /\ wanted' = [wanted EXCEPT !.items = << >>, !.followed = FALSE]

(* Mutant of Resize: the new elements are what was there.                  *)
ResizeUncleared(count) ==
  /\ ~bounded.string
  /\ Became(bounded.cells, count,
            [i \in 1 .. count |-> IF i <= Stored THEN wanted.items[i] ELSE Zero])

Resize(count) ==
  /\ ~bounded.string
  /\ Became([p \in Places |-> IF p \in Stored .. count - 1 THEN Zero ELSE bounded.cells[p]], count,
            [i \in 1 .. count |-> IF i <= Stored THEN wanted.items[i] ELSE Zero])

(* remove_suffix( ) and clear( ) of either.                                *)
RemoveSuffixOf(count) ==
  /\ count <= Stored /\ Stored - count < VectorRoom
  /\ Became(bounded.cells, Stored - count, SubSeq(wanted.items, 1, Stored - count))

(* The elements after the erased ones change places with them one by one,  *)
(* and the end moves; a string is left without its zero.                   *)
EraseRange(first, last) ==
  LET dist == last - first
  IN /\ wanted.followed /\ first < last /\ last <= Stored
     /\ bounded' = [bounded EXCEPT
          !.index = @ - dist,
          !.cells = [p \in Places |-> CASE p < first \/ p >= Stored -> bounded.cells[p]
                                        [] p \in first .. Stored - dist - 1 -> bounded.cells[p + dist]
                                        [] OTHER -> bounded.cells[first + ((p - first) % dist)]]]
     /\ wanted' = [wanted EXCEPT !.items = SubSeq(@, 1, first) \o SubSeq(@, last + 1, Stored),
                               !.ended = FALSE]

(* swap with a vector of these items exchanges the indices first, and then *)
(* as many elements as this one has now. Going on with the other, it lacks *)
(* what this one had more.                                                 *)
SwapWith(items) ==
  ~bounded.string /\ Became(Filled(bounded.cells, 0, items), Len(items), items)

SwapInto(items) ==
  /\ wanted.followed /\ ~bounded.string
  /\ bounded' = [bounded EXCEPT !.cells = [p \in Places |-> IF p < Len(items) THEN @[p] ELSE Zero]]
  /\ wanted' = [wanted EXCEPT !.followed = Stored <= Len(items)]

BoundedNext ==
  \/ PushUnset \/ PopBack
  \/ \E items \in UpTo(VectorRoom) : PushAll(items) \/ SwapWith(items) \/ SwapInto(items)
  \/ \E n \in 0 .. VectorRoom : \/ PopFrontPastEnd(n) \/ Resize(n) \/ RemoveSuffixOf(n)
                                \/ \E v \in VectorValues : Assign(n, v)
                                \/ \E last \in Places : EraseRange(n, last + 1)

BoundedSpec == BoundedInit /\ [][BoundedNext]_boundedVars

(* Whatever is pushed, popped, assigned, erased and resized, the container *)
(* shows what a vector would, within its array, and a string has a zero    *)
(* after its last character unless that was erased or it is too long.      *)
BoundedHolds ==
  wanted.followed =>
    /\ Stored = Len(wanted.items) /\ Stored <= VectorRoom
    /\ \A i \in 1 .. Stored : bounded.cells[i - 1] = wanted.items[i]
    /\ bounded.string /\ wanted.ended /\ Stored < VectorRoom => bounded.cells[Stored] = Zero
================================================================================
