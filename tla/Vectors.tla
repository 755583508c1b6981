-------------------------------- MODULE Vectors ---------------------------------
(***************************************************************************)
(* Several daw::vectors and their allocators (include/daw/vector.h): how   *)
(* whole vectors are constructed, copied, moved, swapped and destroyed,    *)
(* and the *_and_overwrite functions. What operations do to the elements   *)
(* of one vector is in Vector.                                             *)
(*                                                                         *)
(* A block of memory remembers the allocator it is from and the elements   *)
(* that live in it. The parts of an operation are functions from one       *)
(* state to the next; an operation that may throw has a set of outcomes. *)
(***************************************************************************)
EXTENDS Integers, Sequences, FiniteSets

CONSTANTS VectorNames,    \* the vectors
          Allocators,
          Elements,   \* the values elements have
          Gone,       \* the value of one moved from
          Blocks,     \* the memory there is
          Room,       \* max_size( )
          Absent,       \* no vector, no memory
          Unknown         \* contents that are not specified

ASSUME VectorsAssumption ==
  /\ Gone \notin Elements /\ Room \in Nat \ {0} /\ Blocks \subseteq Nat /\ IsFiniteSet(Blocks)
  /\ Absent \notin Blocks \cup VectorNames \cup [alloc : Allocators, at : Blocks \cup {Absent}, end : Nat]
  /\ Absent \notin [by : Allocators, room : Nat, items : Seq(Elements \cup {Gone})]
  /\ Unknown \notin Seq(Elements \cup {Gone})

VARIABLE vs \* the traits, the vectors, the memory, what the vectors should hold

Owning(a, b, n) == [alloc |-> a, at |-> b, end |-> n]
NoMemory(a) == Owning(a, Absent, 0)
MemoryOf(a, n, xs) == [by |-> a, room |-> n, items |-> xs]

(* propagate_on_container_copy_assignment and so on, and whether the moves *)
(* of elements are noexcept.                                               *)
VectorsInit ==
  \E copy, move, swap, nothrow \in BOOLEAN :
    vs = [copy |-> copy, move |-> move, swap |-> swap, nothrow |-> nothrow,
         of |-> [h \in VectorNames |-> Absent], heap |-> [b \in Blocks |-> Absent],
         want |-> [h \in VectorNames |-> Unknown],
         lost |-> {},        \* blocks that constructors which threw have left
         amiss |-> FALSE,    \* a block was given back to another allocator, or with elements alive
         followed |-> TRUE]

Lives(h) == vs.of[h] # Absent
Space(s, h) == IF s.of[h].at = Absent THEN 0 ELSE s.heap[s.of[h].at].room
Shows(s, h) ==
  IF s.of[h].at = Absent THEN <<>> ELSE SubSeq(s.heap[s.of[h].at].items, 1, s.of[h].end)
Length(s, h) == s.of[h].end

-------------------------------------------------------------------------------
(* Parts of operations.                                                    *)

Unused(s) == {b \in Blocks : s.heap[b] = Absent}
CanAllocate(s, n) == n <= Room /\ Unused(s) # {}

Placed(s, h, vec, b, memory) == [s EXCEPT !.of[h] = vec, !.heap[b] = memory]

(* vallocate. Which block it is makes no difference.                       *)
Vallocate(s, h, n) ==
  LET b == CHOOSE c \in Unused(s) : \A d \in Unused(s) : c <= d
      a == s.of[h].alloc
  IN Placed(s, h, Owning(a, b, 0), b, MemoryOf(a, n, <<>>))

(* Clearing destroys the elements up to m_end.                             *)
Vdeallocate(s, h) ==
  LET vec == s.of[h] IN
  IF vec.at = Absent THEN s
  ELSE [Placed(s, h, NoMemory(vec.alloc), vec.at, Absent) EXCEPT
          !.amiss = @ \/ s.heap[vec.at].by # vec.alloc \/ Len(s.heap[vec.at].items) # vec.end]

Refilled(memory, xs) == MemoryOf(memory.by, memory.room, xs)
Store(s, h, xs) ==
  LET vec == s.of[h] IN
  IF vec.at = Absent THEN s
  ELSE Placed(s, h, Owning(vec.alloc, vec.at, Len(xs)), vec.at, Refilled(s.heap[vec.at], xs))

(* The first k elements of g were moved from; Absent stands for no vector.   *)
ElementsMoved(s, g, k) ==
  LET left(xs) == [i \in DOMAIN xs |-> IF i <= k THEN Gone ELSE xs[i]] IN
  IF g = Absent \/ k = 0 THEN s
  ELSE [s EXCEPT !.heap[s.of[g].at] = Refilled(@, left(@.items))]

(* xs take the place of what is there one by one, copied, or moved from g. *)
MayThrow(s, g) == g = Absent \/ ~s.nothrow
Replaced(s, h, xs, g) ==
  LET old == Shows(s, h)
      after(k) == SubSeq(xs, 1, k) \o (IF k = Len(xs) THEN <<>> ELSE SubSeq(old, k + 1, Len(old)))
  IN {[s |-> ElementsMoved(Store(s, h, after(k)), g, k), threw |-> k < Len(xs)] :
        k \in IF MayThrow(s, g) THEN 0 .. Len(xs) ELSE {Len(xs)}}

Grow(cap, n) ==
  IF cap >= Room \div 2 THEN Room ELSE IF 2 * cap > n THEN 2 * cap ELSE n

(* assign, of a forward range; too much for the block, the block is given  *)
(* back first, and the allocation may fail.                                *)
AssignTo(s, h, xs, g) ==
  IF Len(xs) <= Space(s, h) THEN Replaced(s, h, xs, g)
  ELSE LET cleared == Vdeallocate(s, h) IN
       {[s |-> cleared, threw |-> TRUE]} \cup
       IF CanAllocate(cleared, Len(xs))
       THEN Replaced(Vallocate(cleared, h, Grow(0, Len(xs))), h, xs, g) ELSE {}

(* The memory of g goes to h, which has none.                              *)
Steal(s, h, g) ==
  [s EXCEPT !.of[h] = Owning(@.alloc, s.of[g].at, s.of[g].end), !.of[g] = NoMemory(@.alloc)]

Wants(s, h, xs) == [s EXCEPT !.want[h] = xs]

(* What h should hold now, if it is alive, and g no longer.                *)
Takes(s, h, xs, g) ==
  [s EXCEPT !.want = [i \in VectorNames |-> IF i = h THEN xs ELSE IF i = g THEN Unknown ELSE @[i]]]

-------------------------------------------------------------------------------
(* Operations.                                                             *)

(* A constructor makes m_begin point to a block before it fills it. When   *)
(* an element then throws, the destructor does not run: the block is lost, *)
(* with its elements, which the model forgets.                             *)
Abandon(s, h) ==
  LET b == s.of[h].at IN
  IF b = Absent THEN [s EXCEPT !.of[h] = Absent]
  ELSE [s EXCEPT !.of[h] = Absent, !.lost = @ \cup {b}, !.heap[b] = Refilled(@, <<>>)]

Built(h, outcomes, xs, g) ==
  \E o \in outcomes :
    vs' = IF o.threw THEN Takes(Abandon(o.s, h), h, Unknown, g) ELSE Takes(o.s, h, xs, g)

(* vector( n, x, a ), vector( first, last, a ) and the copy constructors:  *)
(* select_on_container_copy_construction may choose any allocator. An      *)
(* allocation that fails leaves nothing.                                   *)
ConstructFilled(h, a, xs) ==
  LET s == [vs EXCEPT !.of[h] = NoMemory(a)] IN
  /\ ~Lives(h)
  /\ IF xs = <<>> THEN vs' = Wants(s, h, xs)
     ELSE \/ /\ CanAllocate(s, Len(xs))
             /\ Built(h, Replaced(Vallocate(s, h, Len(xs)), h, xs, Absent), xs, Absent)
          \/ UNCHANGED vs

CopyConstructVector(h, g, a) == Lives(g) /\ ConstructFilled(h, a, Shows(vs, g))

(* An input range is taken by emplace_back: the capacity grows on the way, *)
(* and what fails first fails into a new block.                            *)
ConstructInput(h, a, xs) ==
  LET s == [vs EXCEPT !.of[h] = NoMemory(a)]
      grown[k \in 0 .. Len(xs)] ==
        IF k = 0 THEN 0 ELSE IF grown[k - 1] >= k THEN grown[k - 1] ELSE Grow(grown[k - 1], k)
      taken(k) == IF k = 0 THEN s ELSE Store(Vallocate(s, h, grown[k]), h, SubSeq(xs, 1, k))
  IN /\ ~Lives(h) /\ CanAllocate(s, Len(xs))
     /\ Built(h, {[s |-> taken(k), threw |-> k < Len(xs)] : k \in 0 .. Len(xs)}, xs, Absent)

MoveConstructVector(h, g) ==
  /\ ~Lives(h) /\ Lives(g)
  /\ LET new == [vs EXCEPT !.of[h] = NoMemory(vs.of[g].alloc)]
     IN vs' = Takes(Steal(new, h, g), h, vs.want[g], g)

(* With another allocator the elements are moved, not the memory.          *)
MoveConstructWith(h, g, a) ==
  LET s == [vs EXCEPT !.of[h] = NoMemory(a)] IN
  /\ ~Lives(h) /\ Lives(g)
  /\ IF a = vs.of[g].alloc THEN vs' = Takes(Steal(s, h, g), h, vs.want[g], g)
     ELSE Built(h, AssignTo(s, h, Shows(vs, g), g), vs.want[g], g)

(* An assignment that throws leaves contents that are not specified.       *)
Assigned(h, outcomes, xs, g) ==
  \E o \in outcomes : vs' = Takes(o.s, h, IF o.threw THEN Unknown ELSE xs, g)

(* copy_assign_alloc gives the memory back before the allocator changes.   *)
WithAlloc(s, h, g) == [s EXCEPT !.of[h] = Owning(s.of[g].alloc, @.at, @.end)]
CopyAssignAlloc(s, h, g) ==
  IF ~s.copy \/ s.of[h].alloc = s.of[g].alloc THEN s ELSE WithAlloc(Vdeallocate(s, h), h, g)

CopyAssignVector(h, g) ==
  /\ Lives(h) /\ Lives(g)
  /\ IF h = g THEN UNCHANGED vs
     ELSE LET s == CopyAssignAlloc(vs, h, g)
          IN Assigned(h, AssignTo(s, h, Shows(vs, g), Absent), vs.want[g], Absent)

(* The form of move_assign that takes the memory. To itself it clears.     *)
MoveAssignMemory(h, g) ==
  LET emptied == Vdeallocate(vs, h)
      moved == IF vs.move THEN WithAlloc(emptied, h, g) ELSE emptied
  IN vs' = IF h = g THEN Wants(moved, h, <<>>) ELSE Takes(Steal(moved, h, g), h, vs.want[g], g)

(* Mutant of MoveAssignVector: the allocators are not compared.            *)
MoveAssignAnyAlloc(h, g) == Lives(h) /\ Lives(g) /\ MoveAssignMemory(h, g)

(* move_assign in both forms.                                              *)
MoveAssignVector(h, g) ==
  /\ Lives(h) /\ Lives(g)
  /\ IF vs.move \/ vs.of[h].alloc = vs.of[g].alloc THEN MoveAssignMemory(h, g)
     ELSE Assigned(h, AssignTo(vs, h, Shows(vs, g), g), vs.want[g], g)

(* With allocators that differ and are not swapped it is undefined.        *)
SwapVectors(h, g) ==
  /\ Lives(h) /\ Lives(g) /\ (vs.swap \/ vs.of[h].alloc = vs.of[g].alloc)
  /\ LET Traded(f) == [f EXCEPT ![h] = f[g], ![g] = f[h]]
     IN vs' = [vs EXCEPT !.of = Traded(@), !.want = Traded(@)]

DestroyVector(h) ==
  /\ Lives(h)
  /\ vs' = [Vdeallocate(vs, h) EXCEPT !.of[h] = Absent, !.want[h] = Unknown]

(* reserve: elements move to a new block, are copied if a move may throw.  *)
Reserved(s, h, n) ==
  IF n <= Space(s, h) THEN {[s |-> s, threw |-> FALSE]}
  ELSE LET moved == Store(Vallocate(Vdeallocate(s, h), h, n), h, Shows(s, h)) IN
       {[s |-> s, threw |-> TRUE]} \cup
       IF CanAllocate(s, n) THEN {[s |-> moved, threw |-> FALSE]} ELSE {}

Overwritten(s, h, xs) == Wants(Store(s, h, xs), h, IF s.want[h] = Unknown THEN Unknown ELSE xs)

(* The operation given to resize_and_overwrite leaves r elements: those    *)
(* there were, then x. If it says fewer than n, those from m_end down to r *)
(* are destroyed, without an end if r is greater; if it says n, none are.  *)
ResizeAndOverwrite(h, n, r, x) ==
  /\ Lives(h) /\ r <= n
  /\ \E o \in Reserved(vs, h, n) :
       LET s == o.s
           kept == IF r < Length(s, h) THEN r ELSE Length(s, h)
           left == [i \in 1 .. r |-> IF i <= kept THEN Shows(s, h)[i] ELSE x]
       IN vs' = IF o.threw THEN s
               ELSE IF r = Length(s, h) \/ (IF r < n THEN r < Length(s, h) ELSE r > Length(s, h))
               THEN Overwritten(s, h, left)
               ELSE [s EXCEPT !.followed = FALSE]

(* append_and_overwrite: the operation has constructed r elements.         *)
AppendAndOverwrite(h, n, r, x) ==
  /\ Lives(h) /\ r <= n
  /\ \E o \in Reserved(vs, h, Length(vs, h) + n) :
       LET all == Shows(o.s, h) \o [i \in 1 .. r |-> x]
       IN vs' = IF o.threw THEN o.s ELSE Overwritten(o.s, h, all)

Lists == UNION {[1 .. n -> Elements] : n \in 0 .. Room}

VectorsNext ==
  /\ vs.followed
  /\ \E h \in VectorNames :
       \/ DestroyVector(h)
       \/ \E a \in Allocators, xs \in Lists : ConstructFilled(h, a, xs) \/ ConstructInput(h, a, xs)
       \/ \E g \in VectorNames :
            \/ MoveConstructVector(h, g) \/ CopyAssignVector(h, g)
            \/ MoveAssignVector(h, g) \/ SwapVectors(h, g)
            \/ \E a \in Allocators : CopyConstructVector(h, g, a) \/ MoveConstructWith(h, g, a)
       \/ \E n, r \in 0 .. Room, x \in Elements :
            ResizeAndOverwrite(h, n, r, x) \/ AppendAndOverwrite(h, n, r, x)

VectorsSpec == VectorsInit /\ [][VectorsNext]_vs

-------------------------------------------------------------------------------
(* Properties.                                                             *)

(* Whatever is copied, moved, swapped, thrown and destroyed, with every    *)
(* combination of propagation: each block there is belongs to one vector,  *)
(* whose allocator is the one it will have to go back to, and the elements *)
(* alive in it are those up to m_end; none went back elsewhere. The vectors*)
(* hold what was copied, moved or swapped into them. Left out are blocks   *)
(* that a constructor which threw has lost, and what follows a resize_and_ *)
(* overwrite whose operation says more than there were and fewer than n,   *)
(* or n and fewer than there were.                                         *)
VectorsOwn ==
  vs.followed =>
    /\ ~vs.amiss
    /\ \A b \in Blocks \ vs.lost :
         LET owners == {h \in VectorNames : Lives(h) /\ vs.of[h].at = b} IN
         /\ Cardinality(owners) = IF vs.heap[b] = Absent THEN 0 ELSE 1
         /\ \A h \in owners : vs.heap[b].by = vs.of[h].alloc /\ Len(vs.heap[b].items) = vs.of[h].end
    /\ \A h \in VectorNames : Lives(h) /\ vs.want[h] # Unknown => Shows(vs, h) = vs.want[h]
================================================================================
