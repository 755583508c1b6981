-------------------------------- MODULE BitQueue --------------------------------
(***************************************************************************)
(* basic_bit_queue: bits in an unsigned number, pushed and popped several  *)
(* at a time. The newest bits are the least significant ones, which        *)
(* pop_front takes; pop_back takes the most significant, oldest ones.      *)
(* basic_nibble_queue does the same, four bits at a time. Numbers are      *)
(* those of QueueBits and ValueBits bits; a value of one byte has no byte  *)
(* order.                                                                  *)
(***************************************************************************)
EXTENDS Integers, Sequences, SequencesExt

CONSTANTS QueueBits, \* capacity( ), bit_count_v<queue_type>
          ValueBits  \* bit_count_v<value_type>

ASSUME BitQueueAssumption ==
  ValueBits \in Nat \ {0} /\ QueueBits \in Nat /\ ValueBits <= QueueBits

VARIABLES bits, \* m_queue and m_size
          told  \* the bits, oldest first, and the last pop

bitVars == <<bits, told>>

(* 2 ^ n, and the number that bits make, oldest first, as functions that   *)
(* can be proved about.                                                    *)
PowerOf2(n) ==
  LET power[k \in 0 .. n] == IF k = 0 THEN 1 ELSE 2 * power[k - 1]
  IN power[n]
NumberOf(seq) ==
  LET number[k \in 0 .. Len(seq)] == IF k = 0 THEN 0 ELSE 2 * number[k - 1] + seq[k]
  IN number[Len(seq)]
BitsOf(value, n) == [i \in 1 .. n |-> (value \div PowerOf2(n - i)) % 2]

(* mask_msb of a type of w bits, where n may have wrapped below zero.      *)
MaskMsb(w, n) == IF n < 0 \/ n >= w THEN 0 ELSE PowerOf2(w - n) - 1

(* value & mask, and the casts to the types of the queue and of a value.   *)
And(value, mask) == value % (mask + 1)
ToQueue(n) == n % PowerOf2(QueueBits)
ToValue(n) == n % PowerOf2(ValueBits)

NoPop == [end |-> "none", size |-> 0, n |-> 0, got |-> 0, wanted |-> << >>]

BitsInit ==
  \/ bits = [queue |-> 0, size |-> 0] /\ told = [items |-> << >>, last |-> NoPop]
  \/ \E v \in 0 .. PowerOf2(QueueBits) - 1 :
       /\ bits = [queue |-> v, size |-> QueueBits]
       /\ told = [items |-> BitsOf(v, QueueBits), last |-> NoPop]

(* push_back. Of more bits than the value has, the mask leaves none: zeros *)
(* are pushed.                                                             *)
PushBits(value, n) ==
  LET masked == And(value, MaskMsb(ValueBits, ValueBits - n)) IN
  /\ QueueBits - bits.size >= n
  /\ bits' = [queue |-> ToQueue(bits.queue * PowerOf2(n) + masked), size |-> bits.size + n]
  /\ told' = [told EXCEPT !.items = @ \o (IF n <= ValueBits THEN BitsOf(value, n) ELSE BitsOf(0, n))]

Oldest(n) == SubSeq(told.items, 1, n)
Newest(n) == SubSeq(told.items, Len(told.items) - n + 1, Len(told.items))
Took(end, n, got, wanted, left) ==
  told' = [items |-> left, last |-> [end |-> end, size |-> bits.size, n |-> n, got |-> got, wanted |-> wanted]]

PopFrontBits(n) ==
  /\ bits.size >= n
  /\ bits' = [queue |-> bits.queue \div PowerOf2(n), size |-> bits.size - n]
  /\ Took("front", n, ToValue(And(bits.queue, MaskMsb(QueueBits, QueueBits - n))),
          Newest(n), Oldest(bits.size - n))

(* pop_back masks n bits below the size, makes a value of them and only    *)
(* then shifts them down: of a longer queue than a value, only the bits    *)
(* that were already low enough are left. All bits up to size are masked   *)
(* off the rest.                                                           *)
PopBackBits(n) ==
  LET low == bits.size - n
      masked == ((bits.queue \div PowerOf2(low)) % PowerOf2(n)) * PowerOf2(low) IN
  /\ bits.size >= n
  /\ bits' = [queue |-> bits.queue - masked, size |-> low]
  /\ Took("back", n, ToValue(masked) \div PowerOf2(low), Oldest(n), Newest(low))

(* pop_all makes a value of the lowest bits.                               *)
PopAllBits ==
  /\ bits' = [queue |-> 0, size |-> 0]
  /\ Took("front", bits.size, ToValue(bits.queue), told.items, << >>)

ClearBits ==
  /\ bits' = [queue |-> 0, size |-> 0]
  /\ told' = [told EXCEPT !.items = << >>]

BitsNext ==
  \/ PopAllBits \/ ClearBits
  \/ \E n \in 0 .. QueueBits : \/ PopFrontBits(n) \/ PopBackBits(n)
                               \/ \E v \in 0 .. PowerOf2(ValueBits) - 1 : PushBits(v, n)

BitsSpec == BitsInit /\ [][BitsNext]_bitVars

(* In any order of pushes and pops at both ends, the number holds the bits *)
(* that were pushed and not yet popped, and no others above them.          *)
BitsKept == bits.size = Len(told.items) /\ bits.queue = NumberOf(told.items)

(* What is popped is what was pushed: all that was asked for, if a value   *)
(* can hold it, and, of pop_back, if a value could hold the whole queue.   *)
PopsAsPushed ==
  LET p == told.last IN
  p.n <= ValueBits /\ (p.end = "back" => p.size <= ValueBits) => p.got = NumberOf(p.wanted)

(* Both: a queue of bits, in what it holds and in what it gives back.      *)
BitsInOrder == BitsKept /\ PopsAsPushed
================================================================================
