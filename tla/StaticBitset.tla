----------------------------- MODULE StaticBitset -------------------------------
(***************************************************************************)
(* static_bitset: bits in words, of which the first holds the lowest. Its  *)
(* words have WordBits bits. Not modelled: one_count and zero_count, which *)
(* do not compile, like all that takes a set of another width, and what    *)
(* to_string prints.                                                       *)
(***************************************************************************)
EXTENDS Integers, Sequences, SequencesExt, FiniteSetsExt

CONSTANTS WordBits, BitWidths

ASSUME StaticBitsetAssumption == WordBits \in Nat \ {0} /\ BitWidths \subseteq Nat \ {0}

VARIABLE bitset \* BitWidth, m_data, the words of another of the same width, and
                \* whether it has read a word outside m_data

WordValues == 0 .. 2 ^ WordBits - 1
AllOnes == 2 ^ WordBits - 1
WordCount(width) == width \div WordBits + (IF width % WordBits = 0 THEN 0 ELSE 1)
BitPositions == 0 .. WordCount(bitset.width) * WordBits - 1

(* Bit p of the words, which are counted from 1 here; and words made of a  *)
(* set of such bits.                                                       *)
BitOf(data, p) == (data[p \div WordBits + 1] \div 2 ^ (p % WordBits)) % 2
BitsSet(data) == {p \in 0 .. Len(data) * WordBits - 1 : BitOf(data, p) = 1}
WordOf(bits, n) == FoldSet(LAMBDA p, sum : sum + 2 ^ (p % WordBits), 0, {p \in bits : p \div WordBits = n - 1})
FromBits(bits, words) == [n \in 1 .. words |-> WordOf(bits, n)]

(* mask_lsb and mask_msb of daw_bit.h: without the n lowest or highest.    *)
MaskOffLowest(n) == IF n >= WordBits THEN 0 ELSE (AllOnes * 2 ^ n) % 2 ^ WordBits
MaskOffHighest(n) == IF n >= WordBits THEN 0 ELSE AllOnes \div 2 ^ n
AndWord(x, y) == WordOf(BitsSet(<<x>>) \cap BitsSet(<<y>>), 1)
OrWord(x, y) == WordOf(BitsSet(<<x>>) \cup BitsSet(<<y>>), 1)

(* get_diff_mask: for sets of one whole word, nothing; for longer ones     *)
(* that end within a word, the bits beyond are counted the wrong way.      *)
DiffMask(width) ==
  LET bw == IF width > WordBits THEN width % WordBits ELSE IF width < WordBits THEN WordBits - width ELSE width
  IN IF bw = 0 THEN AllOnes ELSE MaskOffHighest(bw)

FromIntegers(width, values) == [values EXCEPT ![WordCount(width)] = AndWord(@, DiffMask(width))]

(* The text has the highest bit first; a longer one than the set throws.   *)
FromText(width, chars) ==
  LET end == Len(chars)
      Digit(p) == IF p < end THEN chars[end - p] ELSE 0 IN
  [n \in 1 .. WordCount(width) |->
     FoldLeft(LAMBDA sum, i : sum + Digit((n - 1) * WordBits + i - 1) * 2 ^ (i - 1), 0, [i \in 1 .. WordBits |-> i])]

(* set_bit and clear_bit: the number of the bit, doubled, is the mask.     *)
BitMask(index) == (2 * (index % WordBits)) % 2 ^ WordBits
SetBitAt(data, index) == [data EXCEPT ![index \div WordBits + 1] = OrWord(@, BitMask(index))]
ClearBitAt(data, index) == [data EXCEPT ![index \div WordBits + 1] = AndWord(@, AllOnes - BitMask(index))]

OrWith(data, rhs) == [n \in DOMAIN data |-> OrWord(data[n], rhs[n])]
AndWith(data, rhs) == [n \in DOMAIN data |-> AndWord(data[n], rhs[n])]
XorWith(data, rhs) == [n \in DOMAIN data |-> OrWord(data[n], rhs[n]) - AndWord(data[n], rhs[n])]
Flipped(data) == [n \in DOMAIN data |-> AllOnes - data[n]]
SameBits(data, rhs) == \A n \in DOMAIN data : data[n] = rhs[n]

ClearWords(data) == [n \in DOMAIN data |-> 0]

(* By fewer bits than a word has. Of the highest bits, those that the mask *)
(* takes for the lowest are lost.                                          *)
ShiftLeftBits(data, bits) ==
  LET Carry(n) == IF n = 1 THEN 0 ELSE AndWord(data[n - 1], MaskOffLowest(bits)) \div 2 ^ (WordBits - bits)
  IN [n \in DOMAIN data |-> OrWord((data[n] * 2 ^ bits) % 2 ^ WordBits, Carry(n))]

ShiftRightBits(data, bits) ==
  LET Carry(n) == IF n = Len(data) THEN 0
                  ELSE (AndWord(data[n + 1], MaskOffHighest(bits)) * 2 ^ (WordBits - bits)) % 2 ^ WordBits
  IN [n \in DOMAIN data |-> OrWord(data[n] \div 2 ^ bits, Carry(n))]

(* By whole words: a loop for each of them, which moves every word and     *)
(* then sets the last one to 0. That one it has first taken from beyond    *)
(* the array: m_data[-1] to the left, m_data[size] to the right.           *)
ReadsOutside(width, bits) == bits < width /\ bits >= WordBits
ShiftLeftWords(data, words) == [n \in DOMAIN data |-> IF n <= words THEN 0 ELSE data[n - words]]
ShiftRightWords(data, words) == [n \in DOMAIN data |-> IF n + words > Len(data) THEN 0 ELSE data[n + words]]

(* <<=: whole words one after the other, then the rest. A rest of nothing  *)
(* shifts a word by all its bits, which is undefined: the word that comes  *)
(* out may be nothing or itself.                                           *)
ShiftLeft(width, data, bits) ==
  LET moved == ShiftLeftWords(data, bits \div WordBits) IN
  CASE bits >= width -> {ClearWords(data)}
    [] bits < width /\ bits = WordBits -> {moved}
    [] bits < width /\ bits # WordBits /\ bits % WordBits # 0 -> {ShiftLeftBits(moved, bits % WordBits)}
    [] OTHER -> {moved, [n \in DOMAIN data |-> IF n = 1 THEN moved[1] ELSE OrWord(moved[n], moved[n - 1])]}

ShiftRight(width, data, bits) ==
  IF bits >= width THEN ClearWords(data)
  ELSE ShiftRightBits(ShiftRightWords(data, bits \div WordBits), bits % WordBits)

-------------------------------------------------------------------------------
BitsetOf(width, data) == [width |-> width, data |-> data, other |-> data, outside |-> FALSE]

BitsetInit ==
  \E width \in BitWidths :
    \/ \E values \in [1 .. WordCount(width) -> WordValues] : bitset = BitsetOf(width, FromIntegers(width, values))
    \/ \E length \in 0 .. width : \E chars \in [1 .. length -> {0, 1}] : bitset = BitsetOf(width, FromText(width, chars))

BitsetIs(data) == bitset' = [bitset EXCEPT !.data = data]

Shifts(bits, data) ==
  bitset' = [bitset EXCEPT !.data = data, !.outside = @ \/ ReadsOutside(bitset.width, bits)]

BitsetNext ==
  \/ \E index \in 0 .. bitset.width - 1 : BitsetIs(SetBitAt(bitset.data, index)) \/ BitsetIs(ClearBitAt(bitset.data, index))
  \/ \E bits \in 0 .. bitset.width + 1 :
       Shifts(bits, ShiftRight(bitset.width, bitset.data, bits))
         \/ \E data \in ShiftLeft(bitset.width, bitset.data, bits) : Shifts(bits, data)
  \/ BitsetIs(OrWith(bitset.data, bitset.other)) \/ BitsetIs(AndWith(bitset.data, bitset.other))
  \/ BitsetIs(XorWith(bitset.data, bitset.other)) \/ BitsetIs(Flipped(bitset.data))
  \/ BitsetIs(ClearWords(bitset.data))
  \/ bitset' = [bitset EXCEPT !.other = bitset.data]

-------------------------------------------------------------------------------
(* Of sets that have not read outside their words: one made of a text has  *)
(* the bits the text shows. |, &, ^ and ~ do to each bit what their names  *)
(* say, == tells sets apart by their bits, and a shift moves every bit,    *)
(* into the next word too: by at least one bit and no more than half a     *)
(* word. One by a word or more reads outside and is claimed nothing of.    *)
BitsetsCompute ==
  LET a == BitsSet(bitset.data)
      b == BitsSet(bitset.other)
  IN ~ bitset.outside =>
     /\ BitsSet(OrWith(bitset.data, bitset.other)) = a \cup b
     /\ BitsSet(AndWith(bitset.data, bitset.other)) = a \cap b
     /\ BitsSet(XorWith(bitset.data, bitset.other)) = (a \cup b) \ (a \cap b)
     /\ BitsSet(Flipped(bitset.data)) = BitPositions \ a
     /\ SameBits(bitset.data, bitset.other) <=> a = b
     /\ LET shown == [i \in 1 .. bitset.width |-> BitOf(bitset.data, bitset.width - i)]
        IN BitsSet(FromText(bitset.width, shown)) = a \cap 0 .. bitset.width - 1
     /\ \A bits \in {n \in 1 .. bitset.width - 1 : 2 * n <= WordBits} :
          /\ \A data \in ShiftLeft(bitset.width, bitset.data, bits) :
               BitsSet(data) = {p + bits : p \in a} \cap BitPositions
          /\ BitsSet(ShiftRight(bitset.width, bitset.data, bits)) = {p - bits : p \in a} \cap BitPositions
================================================================================
