------------------------------ MODULE RingAdaptor -------------------------------
(***************************************************************************)
(* ring_adaptor: a queue in a container of fixed size, between two         *)
(* counters that only grow and are taken modulo the capacity when an       *)
(* element is looked up. The counters are unsigned numbers that start      *)
(* again at zero after SizeMax.                                            *)
(***************************************************************************)
EXTENDS Naturals, Sequences

CONSTANTS RingValues,
          Capacities, \* the sizes of the container
          SizeMax,    \* max_value<std::size_t>
          Unset       \* what a new or moved from element holds

(* The word wraps where the ring does. With any other capacity the order   *)
(* is lost when a counter wraps, after 2^64 elements.                      *)
ASSUME RingAssumption ==
  /\ SizeMax \in Nat /\ Unset \notin RingValues
  /\ \A c \in Capacities : c \in 1 .. SizeMax /\ (SizeMax + 1) % c = 0

VARIABLES ring,  \* m_queue, m_head, m_tail and the capacity
          fifo   \* what a queue would hold, and whether it is still followed

ringVars == <<ring, fifo>>

RingInit ==
  \E c \in Capacities :
    /\ ring = [capacity |-> c, queue |-> [i \in 0 .. c - 1 |-> Unset], head |-> 0, tail |-> 0]
    /\ fifo = [items |-> << >>, followed |-> TRUE]

Size == (ring.tail + SizeMax + 1 - ring.head) % (SizeMax + 1)
IsFull == Size = ring.capacity
Idx(i) == (i % (SizeMax + 1)) % ring.capacity
Advanced(i) == (i + 1) % (SizeMax + 1)
At(i) == ring.queue[Idx(ring.head + i)]

(* Mutant of PushBack: the place is counted from the head.                 *)
PushBackAtSize(v) ==
  /\ fifo.followed /\ ~IsFull
  /\ ring' = [ring EXCEPT !.queue[Size] = v, !.tail = Advanced(@)]
  /\ fifo' = [fifo EXCEPT !.items = Append(@, v)]

(* push_back, of a copy or by moving.                                      *)
PushBack(v) ==
  /\ fifo.followed /\ ~IsFull
  /\ ring' = [ring EXCEPT !.queue[Idx(ring.tail)] = v, !.tail = Advanced(@)]
  /\ fifo' = [fifo EXCEPT !.items = Append(@, v)]

(* emplace_back writes at the head and moves that on, so that the ring is  *)
(* one shorter and not one longer: it is not followed any further.         *)
EmplaceBack(v) ==
  /\ fifo.followed /\ ~IsFull
  /\ ring' = [ring EXCEPT !.queue[Idx(ring.head)] = v, !.head = Advanced(@)]
  /\ fifo' = [items |-> << >>, followed |-> FALSE]

PopFront ==
  /\ fifo.followed /\ ring.head # ring.tail
  /\ ring' = [ring EXCEPT !.queue[Idx(ring.head)] = Unset, !.head = Advanced(@)]
  /\ fifo' = [fifo EXCEPT !.items = Tail(@)]

(* The element a caller assigns to by operator[] or an iterator.           *)
AssignAt(i, v) ==
  /\ fifo.followed /\ i < Size
  /\ ring' = [ring EXCEPT !.queue[Idx(ring.head + i)] = v]
  /\ fifo' = [fifo EXCEPT !.items[i + 1] = v]

ClearRing ==
  /\ fifo.followed
  /\ ring' = [ring EXCEPT !.head = 0, !.tail = 0]
  /\ fifo' = [fifo EXCEPT !.items = << >>]

RingNext ==
  \/ PopFront \/ ClearRing
  \/ \E v \in RingValues : \/ PushBack(v) \/ EmplaceBack(v)
                           \/ \E i \in 0 .. ring.capacity - 1 : AssignAt(i, v)

RingSpec == RingInit /\ [][RingNext]_ringVars

(* Whatever is pushed, popped, assigned and cleared, and however often the *)
(* counters wrap: size( ), operator[] and the iterators show what a queue  *)
(* would hold, in its order, and the ring is full at its capacity only.    *)
RingIsQueue ==
  fifo.followed =>
    /\ Size = Len(fifo.items) /\ Size <= ring.capacity
    /\ \A i \in 1 .. Size : At(i - 1) = fifo.items[i]
================================================================================
