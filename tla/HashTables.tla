------------------------------- MODULE HashTables -------------------------------
(***************************************************************************)
(* The tables with open addressing: hash_set_t, static_hash_t,             *)
(* bounded_hash_map and bounded_hash_set_t. A key is looked for from the   *)
(* cell its hash scales to, its home, onwards and around, up to the first  *)
(* cell that is empty or holds it. The hash is any function; two keys of a *)
(* static_hash_t, which compares hashes only, are taken to have different  *)
(* ones before they are scaled. And perfect_hash_table, which has a cell   *)
(* for every key it is built with.                                         *)
(***************************************************************************)
EXTENDS Integers, FiniteSets

CONSTANTS Keys, TableValues, Cells, \* the capacity
          Empty,  \* no key
          Default \* the value of a cell that was not given one

ASSUME HashTablesAssumption ==
  /\ Cells \in Nat \ {0} /\ Empty \notin Keys /\ Default \in TableValues

VARIABLES table, \* the kind, the home of each key, the cells
          given  \* what the program put in, until it erases something, and its last call

tableVars == <<table, given>>

Positions == 0 .. Cells - 1
Erasing == {"bounded_hash_map", "bounded_hash_set"}
Mapping == {"bounded_hash_map", "static_hash"}

TableInit ==
  /\ \E kind \in Erasing \cup {"hash_set", "static_hash"}, home \in [Keys -> Positions] :
       table = [kind |-> kind, home |-> home,
                keys |-> [n \in Positions |-> Empty], values |-> [n \in Positions |-> Default]]
  /\ given = [now |-> [k \in Keys |-> {}], erased |-> FALSE, last |-> << >>]

Used(n) == table.keys[n] # Empty

(* Mutant of FindIndex: an empty cell is taken before the key is met.      *)
FindIndexEmptyFirst(k) ==
  LET cell(i) == (table.home[k] + i) % Cells
      best(key) == {i \in Positions : table.keys[cell(i)] = key}
      here == IF best(Empty) # {} THEN best(Empty) ELSE best(k)
  IN {cell(i) : i \in {j \in here : \A m \in here : j <= m}}

(* find_index: the cell, in a set that is empty if there is none.          *)
FindIndex(k) ==
  LET cell(i) == (table.home[k] + i) % Cells
      here == {i \in Positions : table.keys[cell(i)] \in {Empty, k}}
  IN {cell(i) : i \in {j \in here : \A m \in here : j <= m}}

Exists(k) == \E n \in FindIndex(k) : Used(n)
Found(k) == {table.values[n] : n \in {m \in FindIndex(k) : Used(m)}}

TableSize == Cardinality({n \in Positions : Used(n)})

-------------------------------------------------------------------------------
(* Operations.                                                             *)

Fill(n, k, v) == table' = [table EXCEPT !.keys[n] = k, !.values[n] = v]
Gave(k, v) ==
  given' = [given EXCEPT !.now[k] = IF given.erased THEN {} ELSE {v}, !.last = <<k, {v}>>]

(* insert of the maps, and what is assigned to an element of operator[]. A *)
(* full table is undefined.                                                *)
Put(k, v) ==
  /\ table.kind \in Mapping
  /\ \E n \in FindIndex(k) : Fill(n, k, v)
  /\ Gave(k, v)

(* operator[], when nothing is assigned to the element.                    *)
Touch(k) ==
  /\ table.kind \in Mapping
  /\ \E n \in FindIndex(k) :
       IF Used(n) THEN UNCHANGED tableVars ELSE Fill(n, k, Default) /\ Gave(k, Default)

(* insert of the sets. That of hash_set_t throws if the table is full,     *)
(* that of bounded_hash_set_t aborts.                                      *)
Insert(k) ==
  /\ table.kind \notin Mapping
  /\ \E n \in FindIndex(k) : Fill(n, k, Default)
  /\ Gave(k, Default)

(* erase, of a key that is not there too. That of hash_set_t does not      *)
(* compile, static_hash_t has none.                                        *)
Erase(k) ==
  /\ table.kind \in Erasing
  /\ IF FindIndex(k) = {} THEN UNCHANGED table ELSE \E n \in FindIndex(k) : Fill(n, Empty, Default)
  /\ given' = [now |-> [key \in Keys |-> {}], erased |-> TRUE, last |-> <<k, {}>>]

TableNext ==
  \E k \in Keys : Touch(k) \/ Insert(k) \/ Erase(k) \/ \E v \in TableValues : Put(k, v)

TableSpec == TableInit /\ [][TableNext]_tableVars

-------------------------------------------------------------------------------
(* Iterators of the bounded tables, which are positions. The end, Cells,   *)
(* is read too: in a bounded_hash_map it is one more cell that is never    *)
(* used, in a bounded_hash_set_t it is past the array and may be anything. *)
(* The iterator of a bounded_hash_set_t that may change does not stop      *)
(* there if it looks unused.                                               *)

UsedOrPast(n, past) == IF n = Cells THEN past ELSE Used(n)

Seek(past, last) ==
  LET seek[n \in 0 .. Cells + 1] == IF n <= last /\ ~UsedOrPast(n, past) THEN seek[n + 1] ELSE n
  IN seek
Begin == Seek(FALSE, Cells - 1)[0]
Increment(n, past) == Seek(past, Cells - 1)[n + 1]
IncrementMutable(n, past) ==
  IF table.kind = "bounded_hash_set" THEN Seek(past, Cells)[n + 1] ELSE Increment(n, past)

SeekBack ==
  LET seek[n \in Positions] == IF ~Used(n) /\ n > 0 THEN seek[n - 1] ELSE n
  IN seek
Decrement(n) == SeekBack[n - 1]

(* find of the bounded tables, and compare of two iterators. Of the sets   *)
(* only the find that is not const compiles.                               *)
FindPosition(k) == IF FindIndex(k) = {} THEN Cells ELSE CHOOSE n \in FindIndex(k) : TRUE
CompareCells(m, n) == IF m = n THEN 0 ELSE IF m < n THEN -1 ELSE 1

-------------------------------------------------------------------------------
(* Properties.                                                             *)

(* So long as nothing is erased, the table holds what was put in: every    *)
(* key with its last value, each in one cell, though keys share homes and  *)
(* run into each other until the table is full. Once something is erased,  *)
(* keys after it may no longer be found, and be found again later; but     *)
(* what was put or erased last is found, or not found, as it should.       *)
HoldsWhatWasPut ==
  /\ ~given.erased => /\ \A k \in Keys : Found(k) = given.now[k]
                      /\ TableSize = Cardinality({k \in Keys : given.now[k] # {}})
  /\ given.last # << >> => Found(given.last[1]) = given.last[2]

(* After any insertions and erasures, iterating goes through the cells     *)
(* that are used, each once, forwards from begin to end, and the same way  *)
(* backwards; whatever is read past the end, but by a bounded_hash_set_t   *)
(* that may change: it steps over its end unless what is there looks used. *)
IteratesOverAll ==
  LET used == {n \in Positions : Used(n)}
      pasts == IF table.kind = "bounded_hash_map" THEN {FALSE} ELSE BOOLEAN
  IN /\ Begin \in used \cup {Cells} /\ \A n \in used : Begin <= n
     /\ \A n \in used, past \in pasts :
          LET next == Increment(n, past) IN
          /\ next \in used \cup {Cells} /\ next > n /\ \A m \in used : m <= n \/ next <= m
          /\ Decrement(next) = n
          /\ IncrementMutable(n, past) =
               IF next = Cells /\ table.kind = "bounded_hash_set" /\ ~past THEN Cells + 1 ELSE next

(* find of a key that is not there gives the end, as a caller will ask, of *)
(* a full table only; of any other, a place between those that are used,   *)
(* with no key. The places compare as they are visited.                    *)
FindsPlaces ==
  \A k \in Keys :
    /\ Exists(k) = (\E n \in Positions : Used(n) /\ FindPosition(k) = n)
    /\ ~Exists(k) => (CompareCells(FindPosition(k), Cells) = 0 <=> TableSize = Cells)
    /\ Exists(k) => CompareCells(FindPosition(k), Increment(FindPosition(k), FALSE)) < 0

(* All: what the table finds, and what it shows.                           *)
TableHolds == HoldsWhatWasPut /\ IteratesOverAll /\ FindsPlaces
-------------------------------------------------------------------------------
(* perfect_hash_table: N items go into buckets by their hash, and bucket   *)
(* by bucket, the fullest first, a salt is looked for that sends the items *)
(* of the bucket to slots nobody claimed. The hashes may be anything: the  *)
(* items are numbered by bucket, and the buckets by what they hold, which  *)
(* is the order they are taken in. That some salt sends the items of a     *)
(* bucket to slots that are free, if there are enough, is taken for        *)
(* granted; which slots these are may be anything.                         *)

CONSTANT PerfectSizes \* how many items there may be

ASSUME PerfectHashAssumption == PerfectSizes \subseteq Nat \ {0}

VARIABLE perfect

(* next_pow2, the slots of N items, and get_bucket_count, half of it.      *)
NextPow2(size) ==
  LET ret[sz \in 0 .. size] == IF sz = 0 THEN 1 ELSE 2 * ret[sz \div 2]
  IN ret[size]
BucketCount(n) == NextPow2(n) \div 2

Items == 1 .. perfect.n
HashSlots == 0 .. NextPow2(perfect.n) - 1
Bucket(b) == {k \in Items : perfect.bucket[k] = b}
Singles == {k \in Items : Bucket(perfect.bucket[k]) = {k}}

Unbuilt(n, bucket, default) ==
  [n |-> n, bucket |-> bucket, default |-> default, next |-> 0, place |-> "constructor",
   keys |-> [s \in 0 .. NextPow2(n) - 1 |-> default], claimed |-> {}, slot |-> [k \in 1 .. n |-> -1]]

(* Key{ }, which every slot begins with: the last key, or none of them, 0. *)
PerfectInit ==
  \E n \in PerfectSizes :
  \E bucket \in [1 .. n -> 0 .. BucketCount(n) - 1], default \in {0, n} :
    /\ \A j, k \in 1 .. n : j < k => bucket[j] <= bucket[k]
    /\ \A b, c \in 0 .. BucketCount(n) - 1 :
         b < c => Cardinality({k \in 1 .. n : bucket[k] = b}) >= Cardinality({k \in 1 .. n : bucket[k] = c})
    /\ perfect = Unbuilt(n, bucket, default)

(* The slots a bucket has to choose from: an item that is alone in its     *)
(* bucket has claimed the first that was free already, under a salt of its *)
(* own, and is placed once more like any other.                            *)
Unclaimed == HashSlots \ perfect.claimed
FirstOf(set) == CHOOSE s \in set : \A t \in set : s <= t
Alone == Cardinality(Bucket(perfect.next)) = 1

(* Mutant of ClaimedAlone: the slots of the buckets before are free.       *)
ClaimedNone == {}

ClaimedAlone == perfect.claimed \cup (IF Alone THEN {FirstOf(Unclaimed)} ELSE {})

(* find_salt_for_bucket of the next bucket, which is the last if it is     *)
(* empty. Items of a bucket are alike, so they take their slots in order.  *)
FindSaltForBucket ==
  /\ perfect.place = "constructor"
  /\ LET items == Bucket(perfect.next) IN
     IF items = {} THEN perfect' = [perfect EXCEPT !.place = "built"]
     ELSE IF Alone /\ Unclaimed = {} THEN perfect' = [perfect EXCEPT !.place = "abort"]
     ELSE IF Cardinality(HashSlots \ ClaimedAlone) < Cardinality(items)
       THEN perfect' = [perfect EXCEPT !.place = "unsalted"]
     ELSE \E slots \in SUBSET (HashSlots \ ClaimedAlone) :
       /\ Cardinality(slots) = Cardinality(items)
       /\ LET rank(s) == Cardinality({t \in slots : t < s})
              item(s) == CHOOSE k \in items : Cardinality({j \in items : j < k}) = rank(s)
          IN perfect' =
               [perfect EXCEPT
                  !.next = @ + 1,
                  !.place = IF perfect.next + 1 = BucketCount(perfect.n) THEN "built" ELSE @,
                  !.claimed = ClaimedAlone \cup slots,
                  !.slot = [k \in Items |-> IF k \in items THEN CHOOSE s \in slots : item(s) = k ELSE @[k]],
                  !.keys = [s \in HashSlots |->
                              IF s \in slots THEN item(s)
                              ELSE IF Alone /\ s = FirstOf(Unclaimed) THEN FirstOf(items) ELSE @[s]]]

PerfectNext == FindSaltForBucket

PerfectSpec == PerfectInit /\ [][PerfectNext]_perfect

-------------------------------------------------------------------------------
(* Lookups. The salt of its bucket sends a key that was given to its slot, *)
(* and one that was not to any slot.                                       *)

FindDataIndex(key) == IF key \in Items THEN {perfect.slot[key]} ELSE HashSlots
FindsPerfect(key) == {s \in FindDataIndex(key) : perfect.keys[s] = key}

(* A table that was built finds every key it was given, where its value is *)
(* and nothing else. A key it was not given is not found, unless it is     *)
(* Key{ } and comes to a slot that nobody claimed. The constructor ends if *)
(* the slots suffice when items that are alone in their bucket take two of *)
(* them; otherwise it aborts or looks for a salt for ever.                 *)
PerfectFinds ==
  LET enough == perfect.n + Cardinality(Singles) <= Cardinality(HashSlots) IN
  /\ perfect.place = "built" =>
       /\ enough
       /\ \A k \in Items : FindsPerfect(k) # {}
       /\ \A j, k \in Items : FindDataIndex(j) = FindDataIndex(k) => j = k
       /\ FindsPerfect(0) = IF perfect.default = 0 THEN Unclaimed ELSE {}
  /\ perfect.place \in {"abort", "unsalted"} => ~enough
================================================================================
