------------------------------ MODULE SplitBuffer -------------------------------
(***************************************************************************)
(* daw::split_buffer, the storage vector grows into: a block of memory     *)
(* with elements somewhere in it and room at either end. Two of them, each *)
(* with an allocator; construction and allocation may throw, assignment of *)
(* elements does not. A block is its slots, positions count from 0. reserve, emplace_back and push_back  *)
(* of an rvalue do not compile.                                            *)
(***************************************************************************)
EXTENDS Integers, Sequences, FiniteSetsExt

CONSTANTS SplitAllocators,
          Raw,         \* no element in the slot
          Hollow,      \* an element that was moved away, or whose block is gone
          SplitRoom,   \* bound: slots of both blocks together
          FirstGrowth, \* the least capacity that input grows to, 8 in the code
          InputLength, \* bound: elements constructed at once, so few that input grows once
          SplitCalls   \* bound: the calls of a program

ASSUME SplitBufferAssumption ==
  /\ SplitRoom \in Nat /\ SplitCalls \in Nat /\ InputLength \in Nat \ {0} /\ FirstGrowth \in Nat \ {0}
  /\ 2 * InputLength <= FirstGrowth + 1
  /\ Raw # Hollow /\ Raw \notin Int

VARIABLE sb \* whether allocators propagate, two buffers, calls so far, the last, whether memory went to another allocator

capacity(b) == Len(b.slots)
sizeOf(b) == b.end - b.begin
contents(b) == SubSeq(b.slots, b.begin + 1, b.end)
FrontSpare(b) == b.begin
BackSpare(b) == capacity(b) - b.end

(* slid: elements were once assigned to raw slots of the block.            *)
NewBuffer(alloc, cap, start) ==
  [alloc |-> alloc, from |-> alloc, slots |-> [p \in 1..cap |-> Raw], begin |-> start, end |-> start, slid |-> FALSE]
NullBuffer(b) == NewBuffer(b.alloc, 0, 0)

-------------------------------------------------------------------------------
(* What the operations are made of.                                        *)

Emptied(b, first, last) == [p \in DOMAIN b.slots |-> IF p \in (first + 1)..last THEN Raw ELSE b.slots[p]]
DestructAtBegin(b, newBegin) == [b EXCEPT !.begin = newBegin, !.slots = Emptied(b, b.begin, newBegin)]
DestructAtEnd(b, newLast) == [b EXCEPT !.end = newLast, !.slots = Emptied(b, newLast, b.end)]

ConstructAtEnd(b, xs) ==
  [b EXCEPT !.end = @ + Len(xs),
            !.slots = [p \in DOMAIN @ |-> IF p \in (b.end + 1)..(b.end + Len(xs)) THEN xs[p - b.end] ELSE @[p]]]

(* All elements moved into a new block; what is left if a move throws.     *)
Regrown(b, cap, start) == ConstructAtEnd(NewBuffer(b.alloc, cap, start), contents(b))
Hollowed(b, n) ==
  [b EXCEPT !.slots = [p \in DOMAIN @ |-> IF p \in (b.begin + 1)..(b.begin + n) THEN Hollow ELSE @[p]]]
MoveThrows(b) == {Hollowed(b, n) : n \in 0..Max({sizeOf(b) - 1, 0})}

(* The elements are assigned to the slots next to them, raw ones too, and  *)
(* those they leave are not destroyed.                                     *)
Slide(b, d) ==
  LET old == (b.begin + 1)..b.end
      new == (b.begin + d + 1)..(b.end + d)
  IN [b EXCEPT !.begin = @ + d, !.end = @ + d, !.slid = @ \/ old # {},
               !.slots = [p \in DOMAIN @ |-> IF p \in new THEN @[p - d] ELSE IF p \in old THEN Hollow ELSE @[p]]]

(* Half of the room at the other end, or a block of twice the size.        *)
Half(d) == (d + 1) \div 2
Twice(b) == Max({2 * capacity(b), 1})
Full(b) == sizeOf(b) = capacity(b)
RoomAtFront(b) ==
  IF FrontSpare(b) > 0 THEN b
  ELSE IF BackSpare(b) > 0 THEN Slide(b, Half(BackSpare(b)))
  ELSE Regrown(b, Twice(b), (Twice(b) + 3) \div 4)
RoomAtBack(b) ==
  IF BackSpare(b) > 0 THEN b
  ELSE IF FrontSpare(b) > 0 THEN Slide(b, -Half(FrontSpare(b)))
  ELSE Regrown(b, Twice(b), Twice(b) \div 4)

(* A value, x < 0, or element x of the buffer itself: what its slot holds  *)
(* once there is room.                                                     *)
Given(b, room, x) == IF x < 0 THEN x ELSE IF Full(b) THEN Hollow ELSE room.slots[b.begin + x]

-------------------------------------------------------------------------------
(* Calls: which, with what, on elements that were what, and whether the    *)
(* buffer had the room. None of a size beyond the bound.                   *)

After(h, b, call, x, ready) ==
  /\ capacity(b) + capacity(sb.at[3 - h]) <= SplitRoom
  /\ sb' = [sb EXCEPT !.calls = @ + 1, !.at[h] = b,
                    !.call = [name |-> call, on |-> h, arg |-> x, was |-> contents(sb.at[h]), ready |-> ready]]

PushWith(h, call, x, room, pushed) ==
  LET b == sb.at[h] IN
  \/ After(h, pushed, call, x, room = b)
  \/ After(h, room, "threw", x, ~Full(b))
  \/ Full(b) /\ \E left \in MoveThrows(b) : After(h, left, "threw", x, FALSE)

SplitPushFront(h, x) ==
  LET room == RoomAtFront(sb.at[h])
      slots == [room.slots EXCEPT ![room.begin] = Given(sb.at[h], room, x)]
  IN PushWith(h, "push front", x, room, [room EXCEPT !.slots = slots, !.begin = @ - 1])
SplitPushBack(h, x) ==
  LET room == RoomAtBack(sb.at[h])
  IN PushWith(h, "push back", x, room, ConstructAtEnd(room, <<Given(sb.at[h], room, x)>>))

Pop(h) ==
  LET b == sb.at[h] IN
  \E n \in 0..sizeOf(b) :
    \/ After(h, DestructAtBegin(b, b.begin + n), "pop front", n, TRUE)
    \/ After(h, DestructAtEnd(b, b.end - n), "pop back", n, TRUE)

(* An exception of its own is swallowed.                                   *)
ShrinkToFit(h) ==
  LET b == sb.at[h] IN
  IF Full(b) THEN After(h, b, "shrink", 0, TRUE)
  ELSE \/ After(h, Regrown(b, sizeOf(b), 0), "shrink", 0, TRUE)
       \/ \E left \in MoveThrows(b) : After(h, left, "threw", 0, FALSE)

(* Where there is room for all. What was constructed before an exception   *)
(* stays.                                                                  *)
ConstructElements(h, xs) ==
  /\ Len(xs) <= BackSpare(sb.at[h])
  /\ \E n \in 0..Len(xs) :
       After(h, ConstructAtEnd(sb.at[h], SubSeq(xs, 1, n)), "construct", SubSeq(xs, 1, n), TRUE)

(* Of input, one by one: a full block is replaced by one that has its      *)
(* elements at its beginning.                                              *)
ConstructFromInput(h, xs) ==
  LET b == sb.at[h]
      spare == BackSpare(b)
      full == ConstructAtEnd(b, SubSeq(xs, 1, spare))
      grown == Regrown(full, Max({2 * capacity(b), FirstGrowth}), 0)
  IN /\ Len(xs) > spare
     /\ \/ \E n \in spare..Len(xs) :
             After(h, ConstructAtEnd(grown, SubSeq(xs, spare + 1, n)), "construct", SubSeq(xs, 1, n), TRUE)
        \/ \E left \in MoveThrows(full) : After(h, left, "threw", SubSeq(xs, 1, spare), FALSE)

-------------------------------------------------------------------------------
(* Two buffers. What they give up is destroyed and given back first.       *)

Create(h, cap, start, alloc) == After(h, NewBuffer(alloc, cap, start), "create", 0, TRUE)

OnBoth(h, b, other, call, misplaced) ==
  /\ capacity(b) + capacity(other) <= SplitRoom
  /\ sb' = [sb EXCEPT !.calls = @ + 1, !.at = [@ EXCEPT ![h] = b, ![3 - h] = other], !.misplaced = misplaced,
                    !.call = [name |-> call, on |-> h, arg |-> contents(sb.at[h]),
                              was |-> contents(sb.at[3 - h]), ready |-> TRUE]]

MoveConstructBuffer(h) == OnBoth(h, sb.at[3 - h], NullBuffer(sb.at[3 - h]), "move", FALSE)

(* With an unequal allocator the elements are moved, one by one. If that   *)
(* throws there is no destructor to give the new block back.               *)
MoveConstructBufferWith(h, alloc) ==
  LET c == sb.at[3 - h] IN
  IF alloc = c.alloc THEN OnBoth(h, c, NullBuffer(c), "move", FALSE)
  ELSE \/ OnBoth(h, Regrown([c EXCEPT !.alloc = alloc], sizeOf(c), 0), Hollowed(c, sizeOf(c)), "move elements", FALSE)
       \/ \E left \in MoveThrows(c) : OnBoth(h, NewBuffer(alloc, 0, 0), left, "lost", FALSE)

(* The block is taken over whether or not the allocator is.                *)
MoveAssignBuffer(h) ==
  LET c == sb.at[3 - h]
      alloc == IF sb.propagate THEN c.alloc ELSE sb.at[h].alloc
  IN OnBoth(h, [c EXCEPT !.alloc = alloc], NullBuffer(c), "move", capacity(c) > 0 /\ alloc # c.alloc)
AssignItself(h) == After(h, NullBuffer(sb.at[h]), "create", 0, TRUE)

(* Unequal allocators that do not propagate may not be swapped.            *)
SwapBuffers(h) ==
  /\ sb.propagate \/ sb.at[1].alloc = sb.at[2].alloc
  /\ OnBoth(h, sb.at[3 - h], sb.at[h], "swap", FALSE)

-------------------------------------------------------------------------------
SplitInit ==
  \E propagate \in BOOLEAN, at \in [1..2 -> {NewBuffer(alloc, 0, 0) : alloc \in SplitAllocators}] :
    sb = [propagate |-> propagate, at |-> at, misplaced |-> FALSE, calls |-> 0,
          call |-> [name |-> "create", on |-> 1, arg |-> 0, was |-> <<>>, ready |-> TRUE]]

(* Calls on the first; the second is what it swaps with or is made of.     *)
(* Every value is another one.                                             *)
SplitNext ==
  /\ ~sb.misplaced /\ sb.calls < SplitCalls
  /\ LET h == 1
         new(i) == -(InputLength * sb.calls + i)
     IN
       \/ \E x \in {new(1)} \cup 1..sizeOf(sb.at[h]) : SplitPushFront(h, x) \/ SplitPushBack(h, x)
       \/ \E n \in 0..InputLength : 
            LET xs == [i \in 1..n |-> new(i)] IN ConstructElements(h, xs) \/ ConstructFromInput(h, xs)
       \/ \E cap \in 0..SplitRoom, alloc \in SplitAllocators : \E start \in 0..cap : Create(h, cap, start, alloc)
       \/ \E alloc \in SplitAllocators : MoveConstructBufferWith(h, alloc)
       \/ Pop(h) \/ ShrinkToFit(h) \/ MoveConstructBuffer(h) \/ MoveAssignBuffer(h) \/ AssignItself(h) \/ SwapBuffers(h)

SplitSpec == SplitInit /\ [][SplitNext]_sb

-------------------------------------------------------------------------------
(* Whatever room has to be made, and at whichever end, the elements follow *)
(* each other as they were pushed and popped, nothing but the slots        *)
(* between begin_ and end_ is constructed until elements have been slid,   *)
(* and a block goes back to the allocator it is from, until an assignment  *)
(* takes one over without it. After an exception there are as many         *)
(* elements as before, some perhaps hollow, and none if there was room.    *)
(* An element of the buffer itself is pushed as it is only if no room had  *)
(* to be made.                                                             *)
SplitBuffersHold ==
  LET call == sb.call
      now == contents(sb.at[call.on])
      other == contents(sb.at[3 - call.on])
      n == Len(call.was)
      Pushed(x) == IF x < 0 THEN x ELSE call.was[x]
      exact == call.arg < 0 \/ call.ready
  IN /\ \A h \in 1..2 :
          LET b == sb.at[h] IN
          /\ 0 <= b.begin /\ b.begin <= b.end /\ b.end <= capacity(b)
          /\ ~b.slid => \A p \in DOMAIN b.slots : b.slots[p] = Raw <=> p \notin (b.begin + 1)..b.end
          /\ b.from = b.alloc \/ capacity(b) = 0 \/ sb.misplaced
     /\ CASE call.name = "push front" -> exact => now = <<Pushed(call.arg)>> \o call.was
          [] call.name = "push back" -> exact => now = Append(call.was, Pushed(call.arg))
          [] call.name = "pop front" -> now = SubSeq(call.was, call.arg + 1, n)
          [] call.name = "pop back" -> now = SubSeq(call.was, 1, n - call.arg)
          [] call.name = "shrink" -> now = call.was /\ capacity(sb.at[call.on]) = n
          [] call.name = "construct" -> now = call.was \o call.arg
          [] call.name = "move" -> now = call.was /\ other = <<>>
          [] call.name = "move elements" -> now = call.was /\ \A i \in DOMAIN other : other[i] = Hollow
          [] call.name = "swap" -> now = call.was /\ other = call.arg
          [] call.name = "threw" -> /\ Len(now) >= n
                                    /\ \A i \in 1..n : now[i] \in {call.was[i], Hollow}
                                    /\ call.ready => now = call.was
          [] OTHER -> now = <<>>
================================================================================
