---------------------------- MODULE StructuresProofs ----------------------------
(***************************************************************************)
(* Proofs of what the sequential parts of the library promise, for all     *)
(* handles, objects, capacities and values: that a fixed-size vector is a  *)
(* list, that a holder has one thing at most and compares as what it has,  *)
(* and that vectors, and the storage they grow into, own their memory and  *)
(* hold what they were given. For owned objects, checked pointers, the     *)
(* ring, the queue of bits and the tables see PartsProofs.                 *)
(*                                                                         *)
(* Each part has an inductive invariant, kept by its own next-state action *)
(* and with no word about the others. The parts share no state, so a step  *)
(* of Structures is a step of one part or leaves it as it is: the last     *)
(* section puts them together.                                             *)
(***************************************************************************)
EXTENDS Structures, PartsProofs

-------------------------------------------------------------------------------
(* BoundedVector.                                                          *)

(* What a cell may show.                                                   *)
Shown == VectorValues \cup {Zero}

(* While it is followed, the cells up to the end are the items.            *)
Follows(b, list) ==
  /\ b \in [string : BOOLEAN, index : 0 .. VectorRoom, cells : [Places -> Shown]]
  /\ list \in [items : Seq(Shown), followed : BOOLEAN, ended : BOOLEAN]
  /\ b.index = Len(list.items)
  /\ \A i \in 1 .. b.index : b.cells[i - 1] = list.items[i]
  /\ b.string /\ list.ended /\ b.index < VectorRoom => b.cells[b.index] = Zero

(* The inductive invariant of the fixed-size vector and string.            *)
BoundedInv == wanted.followed => Follows(bounded, wanted)

(* Places count from 0, items from 1.                                      *)
LEMMA PlaceOf == ASSUME NEW i \in 1 .. VectorRoom PROVE i - 1 \in Places
  BY BoundedAssumption DEF Places

(* The lists that are inserted.                                            *)
LEMMA UpToLists == ASSUME NEW n \in Nat, NEW items \in UpTo(n)
                   PROVE  items \in Seq(Shown) /\ Len(items) \in 0 .. n
  <1>1. PICK k \in 0 .. n : items \in [1 .. k -> VectorValues]
    BY DEF UpTo
  <1>2. items \in [1 .. k -> Shown] /\ k \in Nat
    BY <1>1 DEF Shown
  <1>3. items \in Seq(Shown) /\ Len(items) = k
    BY <1>2
  <1> QED BY <1>3

(* A run of cells that is overwritten by a list.                           *)
LEMMA FilledIs ==
  ASSUME NEW cells \in [Places -> Shown], NEW from \in Nat, NEW items \in Seq(Shown)
  PROVE  /\ Filled(cells, from, items) \in [Places -> Shown]
         /\ \A p \in Places : p < from => Filled(cells, from, items)[p] = cells[p]
         /\ \A i \in 1 .. Len(items) :
              from + i - 1 \in Places => Filled(cells, from, items)[from + i - 1] = items[i]
  <1> DEFINE f == Filled(cells, from, items)
  <1>0. Places \subseteq Nat /\ Len(items) \in Nat
    BY BoundedAssumption DEF Places
  <1>1. \A p \in Places : f[p] = IF p \in from .. from + Len(items) - 1 THEN items[p - from + 1] ELSE cells[p]
    BY DEF Filled
  <1>2. \A p \in Places : p \in from .. from + Len(items) - 1 => p - from + 1 \in 1 .. Len(items)
    BY <1>0
  <1>3. \A p \in Places : f[p] \in Shown
    BY <1>1, <1>2
  <1>4. f = [p \in Places |-> f[p]]
    BY <1>1 DEF Filled
  <1>5. f \in [Places -> Shown]
    <2> HIDE DEF f
    <2> QED BY <1>3, <1>4
  <1>6. \A p \in Places : p < from => f[p] = cells[p]
    BY <1>0, <1>1
  <1>7. ASSUME NEW i \in 1 .. Len(items), from + i - 1 \in Places PROVE f[from + i - 1] = items[i]
    <2>1. from + i - 1 \in from .. from + Len(items) - 1 /\ (from + i - 1) - from + 1 = i
      BY <1>0
    <2> HIDE DEF f
    <2> QED BY <1>1, <1>7, <2>1
  <1> QED BY <1>5, <1>6, <1>7

(* What becomes of a vector that is followed still.                        *)
LEMMA BecameFollows ==
  ASSUME BoundedInv, NEW cells \in [Places -> Shown], NEW items \in Seq(Shown),
         Len(items) <= VectorRoom, bounded.string => Len(items) < VectorRoom,
         \A i \in 1 .. Len(items) : cells[i - 1] = items[i],
         NEW index, index = Len(items), Became(cells, index, items)
  PROVE  BoundedInv'
  <1>0. /\ wanted.followed /\ Follows(bounded, wanted)
        /\ VectorRoom \in Nat /\ Len(items) \in Nat
    BY BoundedAssumption DEF Became, BoundedInv
  <1>1. /\ bounded \in [string : BOOLEAN, index : 0 .. VectorRoom, cells : [Places -> Shown]]
        /\ wanted \in [items : Seq(Shown), followed : BOOLEAN, ended : BOOLEAN]
    BY <1>0 DEF Follows
  <1> DEFINE e == Ended(cells, index)
  <1>2. bounded.string => index \in Places
    BY <1>0 DEF Places
  <1>3. /\ e \in [Places -> Shown]
        /\ \A p \in Places : p # index => e[p] = cells[p]
        /\ bounded.string => e[index] = Zero
    BY <1>2 DEF Ended, Shown
  <1>4. \A i \in 1 .. Len(items) : e[i - 1] = items[i]
    <2> SUFFICES ASSUME NEW i \in 1 .. Len(items) PROVE e[i - 1] = items[i]
      OBVIOUS
    <2>1. i \in 1 .. VectorRoom /\ i - 1 # index
      BY <1>0
    <2> HIDE DEF e
    <2> QED BY <1>3, <2>1, PlaceOf
  <1>5. /\ bounded' = [bounded EXCEPT !.cells = e, !.index = index]
        /\ wanted' = [wanted EXCEPT !.items = items, !.ended = TRUE]
    BY DEF Became
  <1> HIDE DEF e
  <1>6. /\ bounded' \in [string : BOOLEAN, index : 0 .. VectorRoom, cells : [Places -> Shown]]
        /\ bounded'.string = bounded.string /\ bounded'.index = index /\ bounded'.cells = e
    <2>1. index \in 0 .. VectorRoom /\ e \in [Places -> Shown]
      BY <1>0, <1>3
    <2> QED BY <1>1, <1>5, <2>1
  <1>7. /\ wanted' \in [items : Seq(Shown), followed : BOOLEAN, ended : BOOLEAN]
        /\ wanted'.items = items
    BY <1>1, <1>5
  <1> QED BY <1>3, <1>4, <1>6, <1>7 DEF BoundedInv, Follows

(* Every operation on the vector keeps the invariant.                      *)
LEMMA BoundedStep ==
  ASSUME BoundedInv, [BoundedNext]_boundedVars
  PROVE  BoundedInv'
  <1> USE BoundedAssumption
  <1> DEFINE n == bounded.index
             cells == bounded.cells
             now == wanted.items
  <1>1. CASE UNCHANGED boundedVars
    BY <1>1 DEF boundedVars, BoundedInv
  <1>2. CASE BoundedNext
    <2>1. wanted.followed
      BY <1>2 DEF BoundedNext, PushUnset, PopBack, PushAll, SwapWith, SwapInto, PopFrontPastEnd, Resize,
                  RemoveSuffixOf, Assign, EraseRange, Became
    <2>2. /\ bounded \in [string : BOOLEAN, index : 0 .. VectorRoom, cells : [Places -> Shown]]
          /\ wanted \in [items : Seq(Shown), followed : BOOLEAN, ended : BOOLEAN]
          /\ n = Len(now) /\ \A i \in 1 .. n : cells[i - 1] = now[i]
          /\ bounded.string /\ wanted.ended /\ n < VectorRoom => cells[n] = Zero
      BY <2>1 DEF BoundedInv, Follows
    <2>3. /\ n \in 0 .. VectorRoom /\ n \in Nat /\ cells \in [Places -> Shown] /\ now \in Seq(Shown)
          /\ \A i \in 1 .. VectorRoom : i - 1 \in Places
          /\ Stored = n /\ Zero \in Shown
      BY <2>2, PlaceOf DEF Stored, Shown
    <2> HIDE DEF n, cells, now
    <2>4. ASSUME NEW items \in UpTo(VectorRoom), PushAll(items)
          PROVE  BoundedInv'
      <3>1. items \in Seq(Shown) /\ Len(items) \in 0 .. VectorRoom
        BY UpToLists
      <3> DEFINE c == Filled(cells, n, items)
                 s == now \o items
      <3>2. /\ c \in [Places -> Shown] /\ \A p \in Places : p < n => c[p] = cells[p]
            /\ \A i \in 1 .. Len(items) : n + i - 1 \in Places => c[n + i - 1] = items[i]
        BY <2>3, <3>1, FilledIs
      <3>3. /\ s \in Seq(Shown) /\ Len(s) = n + Len(items)
            /\ \A i \in 1 .. n : s[i] = now[i]
            /\ \A j \in 1 .. Len(items) : s[n + j] = items[j]
        BY <2>2, <2>3, <3>1
      <3>4. n + Len(items) <= VectorRoom /\ (bounded.string => n + Len(items) < VectorRoom)
        BY <2>4, <2>3, <3>1 DEF PushAll, HasRoomFor, StringCapacity
      <3>5. Became(c, n + Len(items), s)
        BY <2>4, <2>3 DEF PushAll, cells, now
      <3> HIDE DEF c, s
      <3>6. ASSUME NEW i \in 1 .. Len(s) PROVE c[i - 1] = s[i]
        <4>1. i \in 1 .. VectorRoom /\ i - 1 \in Places
          BY <2>3, <3>1, <3>3, <3>4
        <4>2. CASE i <= n
          <5>1. i \in 1 .. n /\ i - 1 < n
            BY <4>1, <4>2, <2>3
          <5> QED BY <2>2, <3>2, <3>3, <4>1, <5>1
        <4>3. CASE ~(i <= n)
          <5>1. i - n \in 1 .. Len(items) /\ n + (i - n) = i /\ n + (i - n) - 1 = i - 1
            BY <4>1, <4>3, <2>3, <3>1, <3>3
          <5>2. c[n + (i - n) - 1] = items[i - n]
            BY <3>2, <4>1, <5>1
          <5>3. \A j \in 1 .. Len(items) : s[n + j] = items[j]
            BY <3>3
          <5>4. s[n + (i - n)] = items[i - n]
            BY <5>1, <5>3
          <5> QED BY <5>1, <5>2, <5>4
        <4> QED BY <4>2, <4>3
      <3> QED BY <3>2, <3>3, <3>4, <3>5, <3>6, BecameFollows
    <2>5. CASE PushUnset
      <3>1. ~bounded.string /\ n + 1 <= VectorRoom /\ n \in Places
        BY <2>5, <2>3 DEF PushUnset, HasRoomFor, Places
      <3> DEFINE s == Append(now, cells[n])
      <3>2. /\ s \in Seq(Shown) /\ Len(s) = n + 1 /\ s[n + 1] = cells[n]
            /\ \A i \in 1 .. n : s[i] = now[i]
        BY <2>2, <2>3, <3>1
      <3>3. Became(cells, n + 1, s)
        BY <2>5, <2>3 DEF PushUnset, cells, now
      <3> HIDE DEF s
      <3>4. \A i \in 1 .. Len(s) : cells[i - 1] = s[i]
        BY <2>2, <2>3, <3>2
      <3> QED BY <2>3, <3>1, <3>2, <3>3, <3>4, BecameFollows
    <2>6. ASSUME NEW k \in Nat, k <= n, n - k < VectorRoom,
                 Became(cells, n - k, SubSeq(now, 1, n - k))
          PROVE  BoundedInv'
      <3> DEFINE s == SubSeq(now, 1, n - k)
      <3>1. n - k \in Nat /\ n - k <= Len(now)
        BY <2>6, <2>2, <2>3
      <3>2. s \in Seq(Shown) /\ Len(s) = n - k /\ \A i \in 1 .. n - k : s[i] = now[i]
        BY <2>3, <3>1
      <3> HIDE DEF s
      <3>3. \A i \in 1 .. Len(s) : cells[i - 1] = s[i]
        BY <2>2, <2>3, <2>6, <3>1, <3>2
      <3>4. Became(cells, n - k, s)
        BY <2>6 DEF s
      <3>5. Len(s) \in Nat /\ Len(s) <= VectorRoom /\ (bounded.string => Len(s) < VectorRoom)
        BY <2>3, <2>6, <3>1, <3>2, BoundedAssumption
      <3> DEFINE i == n - k
      <3>6. i = Len(s) /\ Became(cells, i, s)
        BY <3>2, <3>4
      <3> HIDE DEF i
      <3> QED BY <2>3, <2>6, <3>2, <3>3, <3>5, <3>6, BecameFollows
    <2>7. CASE PopBack
      <3>1. n > 0 /\ Became(cells, n - 1, SubSeq(now, 1, n - 1))
        BY <2>7, <2>3 DEF PopBack, cells, now
      <3> QED BY <2>3, <2>6, <3>1
    <2>8. ASSUME NEW k \in 0 .. VectorRoom, RemoveSuffixOf(k)
          PROVE  BoundedInv'
      <3>1. k <= n /\ n - k < VectorRoom /\ Became(cells, n - k, SubSeq(now, 1, n - k))
        BY <2>8, <2>3 DEF RemoveSuffixOf, cells, now
      <3> QED BY <2>6, <3>1
    <2>9. ASSUME NEW items \in Seq(Shown), Len(items) <= VectorRoom, ~bounded.string,
                 Became(Filled(cells, 0, items), Len(items), items)
          PROVE  BoundedInv'
      <3> DEFINE c == Filled(cells, 0, items)
      <3>1. /\ c \in [Places -> Shown]
            /\ \A i \in 1 .. Len(items) : 0 + i - 1 \in Places => c[0 + i - 1] = items[i]
        BY <2>3, FilledIs
      <3> HIDE DEF c
      <3>2. ASSUME NEW i \in 1 .. Len(items) PROVE c[i - 1] = items[i]
        <4>1. i \in 1 .. VectorRoom /\ 0 + i - 1 = i - 1
          BY <2>9
        <4> QED BY <2>3, <3>1, <4>1
      <3> QED BY <2>9, <3>1, <3>2, BecameFollows DEF c
    <2>10. ASSUME NEW items \in UpTo(VectorRoom), SwapWith(items)
           PROVE  BoundedInv'
      BY <2>9, <2>10, UpToLists DEF SwapWith, cells
    <2>11. ASSUME NEW count \in 0 .. VectorRoom, NEW v \in VectorValues, Assign(count, v)
           PROVE  BoundedInv'
      <3> DEFINE items == [i \in 1 .. count |-> v]
      <3>1. items \in Seq(Shown) /\ Len(items) = count
        BY DEF Shown
      <3> QED BY <2>9, <2>11, <3>1 DEF Assign, cells
    <2>12. ASSUME NEW count \in 0 .. VectorRoom, Resize(count)
           PROVE  BoundedInv'
      <3> DEFINE c == [p \in Places |-> IF p \in n .. count - 1 THEN Zero ELSE cells[p]]
                 s == [i \in 1 .. count |-> IF i <= n THEN now[i] ELSE Zero]
      <3>1. c \in [Places -> Shown]
        BY <2>3
      <3>2. \A i \in 1 .. count : i <= n => i \in 1 .. Len(now)
        BY <2>2, <2>3
      <3>3. \A i \in 1 .. count : s[i] \in Shown
        BY <2>3, <3>2
      <3>4. s \in Seq(Shown) /\ Len(s) = count
        BY <3>3
      <3>5. ASSUME NEW i \in 1 .. count PROVE c[i - 1] = s[i]
        <4>1. i - 1 \in Places
          BY <2>3
        <4>2. CASE i <= n
          <5>1. i - 1 \notin n .. count - 1 /\ i \in 1 .. n
            BY <4>2, <2>3
          <5> QED BY <2>2, <4>1, <4>2, <5>1
        <4>3. CASE ~(i <= n)
          <5>1. i - 1 \in n .. count - 1
            BY <4>3, <2>3
          <5> QED BY <4>1, <4>3, <5>1
        <4> QED BY <4>2, <4>3
      <3>6. Became(c, count, s) /\ ~bounded.string
        BY <2>12, <2>3 DEF Resize, cells, now
      <3> HIDE DEF c, s
      <3>7. Len(s) <= VectorRoom /\ \A i \in 1 .. Len(s) : c[i - 1] = s[i]
        BY <3>4, <3>5
      <3> QED BY <3>1, <3>4, <3>6, <3>7, BecameFollows
    <2>13. ASSUME NEW count \in 0 .. VectorRoom, PopFrontPastEnd(count)
           PROVE  BoundedInv'
      BY <2>13, <2>2 DEF PopFrontPastEnd, BoundedInv
    <2>14. ASSUME NEW items \in UpTo(VectorRoom), SwapInto(items)
           PROVE  BoundedInv'
      <3>1. Len(items) \in 0 .. VectorRoom
        BY UpToLists
      <3> DEFINE c == [p \in Places |-> IF p < Len(items) THEN cells[p] ELSE Zero]
                 still == n <= Len(items)
      <3>2. bounded' = [bounded EXCEPT !.cells = c] /\ wanted' = [wanted EXCEPT !.followed = still]
        BY <2>14, <2>3 DEF SwapInto, cells
      <3>3. c \in [Places -> Shown]
        BY <2>3
      <3>4. ASSUME n <= Len(items), NEW i \in 1 .. n PROVE c[i - 1] = cells[i - 1]
        BY <2>3, <3>1, <3>4
      <3> HIDE DEF c
      <3>5. /\ bounded' \in [string : BOOLEAN, index : 0 .. VectorRoom, cells : [Places -> Shown]]
            /\ bounded'.string = bounded.string /\ bounded'.index = n /\ bounded'.cells = c
        BY <2>2, <3>2, <3>3 DEF n
      <3>6. /\ wanted' \in [items : Seq(Shown), followed : BOOLEAN, ended : BOOLEAN]
            /\ wanted'.items = now /\ wanted'.followed = still
        <4>1. still \in BOOLEAN
          OBVIOUS
        <4> HIDE DEF still
        <4> QED BY <2>2, <3>2, <4>1 DEF now
      <3>7. ~bounded.string
        BY <2>14 DEF SwapInto
      <3> QED BY <2>2, <3>4, <3>5, <3>6, <3>7 DEF BoundedInv, Follows
    <2>15. ASSUME NEW first \in 0 .. VectorRoom, NEW place \in Places, EraseRange(first, place + 1)
           PROVE  BoundedInv'
      <3> DEFINE last == place + 1
                 dist == last - first
                 c == [p \in Places |-> CASE p < first \/ p >= n -> cells[p]
                                          [] p \in first .. n - dist - 1 -> cells[p + dist]
                                          [] OTHER -> cells[first + ((p - first) % dist)]]
                 a == SubSeq(now, 1, first)
                 b == SubSeq(now, last + 1, n)
                 s == a \o b
      <3>1. first < last /\ last <= n /\ last \in Nat
        BY <2>15, <2>3 DEF EraseRange, Places
      <3> HIDE DEF last
      <3>2. dist \in Nat \ {0} /\ n - dist \in Nat /\ first <= n - dist
        BY <2>3, <3>1
      <3>3. /\ bounded' = [bounded EXCEPT !.index = n - dist, !.cells = c]
            /\ wanted' = [wanted EXCEPT !.items = s, !.ended = FALSE]
        BY <2>15, <2>3 DEF EraseRange, cells, now, n, last
      <3>4. a \in Seq(Shown) /\ Len(a) = first /\ \A i \in 1 .. first : a[i] = now[i]
        BY <2>2, <2>3, <3>1
      <3>5. b \in Seq(Shown) /\ Len(b) = n - last /\ \A i \in 1 .. n - last : b[i] = now[last + i]
        BY <2>2, <2>3, <3>1
      <3> HIDE DEF a, b
      <3>6. /\ s \in Seq(Shown) /\ Len(s) = n - dist
            /\ \A i \in 1 .. first : s[i] = now[i]
            /\ \A i \in 1 .. n - last : s[first + i] = now[last + i]
        <4>1. first + (n - last) = n - dist
          BY <2>3, <3>1
        <4>2. s \in Seq(Shown) /\ Len(s) = Len(a) + Len(b)
          BY <3>4, <3>5
        <4>3. \A i \in 1 .. Len(a) : s[i] = a[i]
          BY <3>4, <3>5
        <4>4. \A i \in 1 .. Len(b) : s[Len(a) + i] = b[i]
          BY <3>4, <3>5
        <4> HIDE DEF s, dist
        <4> QED BY <3>4, <3>5, <4>1, <4>2, <4>3, <4>4
      <3> HIDE DEF s
      <3>7. ASSUME NEW p \in Places PROVE c[p] \in Shown
        <4>1. CASE p < first \/ p >= n
          <5>1. p \in Int /\ n \in Int /\ first \in Int /\ dist \in Int /\ dist > 0
            BY <2>3, <3>2 DEF Places
          <5> HIDE DEF dist
          <5>2. p \notin first .. n - dist - 1
            BY <4>1, <5>1
          <5>3. c[p] = cells[p]
            BY <4>1, <5>2
          <5> QED BY <2>3, <5>3
        <4>2. CASE ~(p < first \/ p >= n) /\ p \in first .. n - dist - 1
          <5>1. p + dist \in Places
            BY <4>2, <2>3, <3>1, <3>2 DEF Places
          <5> QED BY <4>2, <5>1, <2>3
        <4>3. CASE ~(p < first \/ p >= n) /\ p \notin first .. n - dist - 1
          <5>1. p - first \in Nat
            BY <4>3, <2>3 DEF Places
          <5>2. (p - first) % dist \in 0 .. dist - 1
            BY <5>1, <3>2
          <5>3. first + ((p - first) % dist) \in Places
            <6> HIDE DEF dist
            <6>1. \A m \in 0 .. dist - 1 : first + m \in Places
              BY <2>3, <3>1, <3>2 DEF Places, dist
            <6> QED BY <5>2, <6>1
          <5>4. c[p] = cells[first + ((p - first) % dist)]
            BY <4>3
          <5> QED BY <5>3, <5>4, <2>3
        <4> QED BY <4>1, <4>2, <4>3
      <3>8. c \in [Places -> Shown]
        BY <3>7
      <3>9. ASSUME NEW i \in 1 .. n - dist PROVE c[i - 1] = s[i]
        <4>1. i - 1 \in Places /\ i \in Nat
          BY <2>3, <3>2
        <4>2. CASE i <= first
          <5>1. i - 1 < first /\ i \in 1 .. n /\ i \in 1 .. first
            BY <4>2, <3>1, <2>3
          <5>2. c[i - 1] = cells[i - 1]
            BY <4>1, <5>1
          <5> QED BY <2>2, <3>6, <5>1, <5>2
        <4>3. CASE ~(i <= first)
          <5>1. /\ ~(i - 1 < first \/ i - 1 >= n) /\ i - 1 \in first .. n - dist - 1
                /\ i - 1 + dist = (i + dist) - 1 /\ i + dist \in 1 .. n
                /\ i - first \in 1 .. n - last /\ first + (i - first) = i /\ last + (i - first) = i + dist
            BY <4>3, <4>1, <3>1, <3>2, <2>3
          <5>2. c[i - 1] = cells[i - 1 + dist]
            BY <4>1, <5>1
          <5> HIDE DEF c, dist
          <5>3. s[i] = now[i + dist]
            BY <3>6, <5>1
          <5>4. cells[(i + dist) - 1] = now[i + dist]
            BY <2>2, <5>1
          <5> QED BY <5>1, <5>2, <5>3, <5>4
        <4> QED BY <4>2, <4>3
      <3>10. n - dist \in 0 .. VectorRoom
        BY <2>3, <3>2
      <3> HIDE DEF c, dist
      <3>11. /\ bounded' \in [string : BOOLEAN, index : 0 .. VectorRoom, cells : [Places -> Shown]]
             /\ bounded'.string = bounded.string /\ bounded'.index = n - dist /\ bounded'.cells = c
        BY <2>2, <3>3, <3>8, <3>10
      <3>12. /\ wanted' \in [items : Seq(Shown), followed : BOOLEAN, ended : BOOLEAN]
             /\ wanted'.items = s /\ ~wanted'.ended
        BY <2>2, <3>3, <3>6
      <3> QED BY <3>6, <3>9, <3>11, <3>12 DEF BoundedInv, Follows
    <2> QED BY <1>2, <2>4, <2>5, <2>7, <2>8, <2>10, <2>11, <2>12, <2>13, <2>14, <2>15 DEF BoundedNext
  <1> QED BY <1>1, <1>2

(* It holds of the vector as it is made.                                   *)
LEMMA BoundedBegin == BoundedInit => BoundedInv
  <1> SUFFICES ASSUME BoundedInit PROVE BoundedInv
    OBVIOUS
  <1>1. PICK string \in BOOLEAN, items \in UpTo(VectorRoom) :
          /\ bounded = [string |-> string, index |-> Len(items),
                        cells |-> [p \in Places |-> IF p < Len(items) THEN items[p + 1] ELSE Zero]]
          /\ wanted = [items |-> items, followed |-> TRUE, ended |-> TRUE]
    BY DEF BoundedInit
  <1>2. items \in Seq(Shown) /\ Len(items) \in 0 .. VectorRoom
    BY BoundedAssumption, UpToLists
  <1> DEFINE c == [p \in Places |-> IF p < Len(items) THEN items[p + 1] ELSE Zero]
  <1>3. \A p \in Places : p < Len(items) => p + 1 \in 1 .. Len(items)
    BY <1>2, BoundedAssumption DEF Places
  <1>4. \A p \in Places : c[p] \in Shown
    BY <1>2, <1>3 DEF Shown
  <1>5. c \in [Places -> Shown]
    BY <1>4
  <1>6. \A i \in 1 .. Len(items) : c[i - 1] = items[i]
    BY <1>2, PlaceOf, BoundedAssumption
  <1>7. Len(items) < VectorRoom => c[Len(items)] = Zero
    BY <1>2, BoundedAssumption DEF Places
  <1> HIDE DEF c
  <1>8. bounded = [string |-> string, index |-> Len(items), cells |-> c]
    BY <1>1 DEF c
  <1>9. Follows(bounded, wanted)
    <2>1. /\ bounded.string = string /\ bounded.index = Len(items) /\ bounded.cells = c
          /\ wanted.items = items
      BY <1>1, <1>8
    <2>2. /\ bounded \in [string : BOOLEAN, index : 0 .. VectorRoom, cells : [Places -> Shown]]
          /\ wanted \in [items : Seq(Shown), followed : BOOLEAN, ended : BOOLEAN]
      BY <1>1, <1>2, <1>5, <1>8
    <2> QED BY <1>6, <1>7, <2>1, <2>2 DEF Follows
  <1> QED BY <1>1, <1>9 DEF BoundedInv

(* It implies what the vector promises.                                    *)
LEMMA BoundedKeeps == BoundedInv => BoundedHolds
  BY BoundedAssumption DEF BoundedInv, Follows, BoundedHolds, Stored

-------------------------------------------------------------------------------
(* Holders: a value or an exception.                                       *)

(* What the two members of a holder may hold.                              *)
HeldThings == HeldValues \cup Errors \cup {Moved, Nil}
Contents == [first : HeldThings, second : HeldThings]

(* One of the two at most, and of a void one only an exception it lists.   *)
Proper(content, k) ==
  /\ content \in Contents
  /\ content.first = Nil \/ content.second = Nil
  /\ k = "checked void" => content.second \in Expected \cup {Nil}

(* The inductive invariant of the holders: both have one of the two at     *)
(* most, so long as no assignment to a checked void has left one with      *)
(* both.                                                                   *)
HoldersInv ==
  /\ holders \in [kind : HolderKinds, at : [1..2 -> Contents], both : BOOLEAN]
  /\ ~holders.both => \A h \in 1..2 : Proper(held(h), holders.kind)

(* What holders are made with is proper.                                   *)
LEMMA ProperContents ==
  ASSUME NEW k
  PROVE  /\ Proper(NoContent, k)
         /\ \A v \in HeldValues : Proper(First(v), k)
         /\ \A e \in Errors : (k = "checked void" => e \in Expected) => Proper(Second(e), k)
  <1>1. /\ NoContent \in Contents /\ NoContent.first = Nil /\ NoContent.second = Nil
    BY DEF NoContent, Contents, HeldThings
  <1>2. ASSUME NEW v \in HeldValues
        PROVE  First(v) \in Contents /\ First(v).second = Nil
    BY <1>1 DEF First, NoContent, Contents, HeldThings
  <1>3. ASSUME NEW e \in Errors
        PROVE  Second(e) \in Contents /\ Second(e).first = Nil /\ Second(e).second = e
    BY <1>1 DEF Second, NoContent, Contents, HeldThings
  <1> QED BY <1>1, <1>2, <1>3 DEF Proper

(* A holder is given proper contents.                                      *)
LEMMA NowProper ==
  ASSUME HoldersInv, ~holders.both, NEW h \in 1..2, NEW content, Proper(content, holders.kind), Now(h, content)
  PROVE  HoldersInv'
  <1>1. content \in Contents
    BY DEF Proper
  <1>2. holders' \in [kind : HolderKinds, at : [1..2 -> Contents], both : BOOLEAN]
    BY <1>1 DEF Now, HoldersInv
  <1>3. holders'.kind = holders.kind /\ \A i \in 1..2 : holders'.at[i] = IF i = h THEN content ELSE holders.at[i]
    BY DEF Now, HoldersInv
  <1> QED BY <1>2, <1>3 DEF HoldersInv, held

(* An assignment leaves proper contents, or says that it does not.         *)
LEMMA AssignProper ==
  ASSUME HoldersInv, ~holders.both, NEW h \in 1..2, NEW rhs, Proper(rhs, holders.kind), Assign2(h, rhs)
  PROVE  HoldersInv'
  <1>1. CASE ~kindIs({"checked void"})
    BY <1>1, NowProper DEF Assign2
  <1>2. CASE kindIs({"checked void"})
    <2> DEFINE old == holders.at[h]
               new == [first |-> rhs.first, second |-> IF rhs.second # Nil THEN rhs.second ELSE old.second]
    <2>1. /\ rhs \in Contents /\ old \in Contents /\ old = held(h) /\ Proper(old, holders.kind)
          /\ rhs.first = Nil \/ rhs.second = Nil
      BY DEF HoldersInv, Proper, held
    <2>2. new \in Contents
      BY <2>1 DEF Contents
    <2>3. holders' = [holders EXCEPT !.at[h] = new, !.both = @ \/ (old.second # Nil /\ rhs.second = Nil)]
      BY <1>2 DEF Assign2, AssignVoid, held
    <2> HIDE DEF new
    <2>4. /\ holders' \in [kind : HolderKinds, at : [1..2 -> Contents], both : BOOLEAN]
          /\ holders'.kind = holders.kind
          /\ \A i \in 1..2 : holders'.at[i] = IF i = h THEN new ELSE holders.at[i]
          /\ holders'.both <=> (old.second # Nil /\ rhs.second = Nil)
      BY <2>2, <2>3 DEF HoldersInv
    <2>5. ~(old.second # Nil /\ rhs.second = Nil) => Proper(new, holders.kind)
      BY <2>1, <2>2, <1>2 DEF new, Proper, kindIs
    <2> QED BY <2>4, <2>5 DEF HoldersInv, held
  <1> QED BY <1>1, <1>2

(* So does a move, in the holder it leaves too.                            *)
LEMMA MoveProper ==
  ASSUME HoldersInv, ~holders.both, NEW h \in 1..2, Move2(h, 3 - h)
  PROVE  HoldersInv'
  <1> DEFINE from == 3 - h
             old == holders.at[from]
             left == LeftBehind(old)
  <1>1. from \in 1..2 /\ from # h
    OBVIOUS
  <1>2. Proper(old, holders.kind) /\ old \in Contents
    BY <1>1 DEF HoldersInv, Proper, held
  <1>3. MovedFrom(old.first) \in HeldThings /\ MovedFrom(old.second) \in HeldThings
    BY DEF MovedFrom, HeldThings
  <1>4. Proper(left, holders.kind)
    <2>1. CASE kindIs({"function"})
      <3>1. left = old
        BY <2>1 DEF LeftBehind, kindIs
      <3> QED BY <3>1, <1>2
    <2>2. CASE ~kindIs({"function"}) /\ kindIs({"value ptr", "checked void"})
      <3>1. left = NoContent
        BY <2>2 DEF LeftBehind, kindIs
      <3> QED BY <3>1, ProperContents
    <2>3. CASE ~kindIs({"function"}) /\ ~kindIs({"value ptr", "checked void"}) /\ kindIs({"checked"})
      <3>1. left = First(MovedFrom(old.first))
        BY <2>3 DEF LeftBehind, kindIs
      <3>2. First(MovedFrom(old.first)) \in Contents /\ First(MovedFrom(old.first)).second = Nil
        BY <1>3 DEF First, NoContent, Contents, HeldThings
      <3> QED BY <3>1, <3>2, <2>3 DEF Proper, kindIs
    <2>4. CASE ~kindIs({"function"}) /\ ~kindIs({"value ptr", "checked void"}) /\ ~kindIs({"checked"})
      <3>1. left = [first |-> MovedFrom(old.first), second |-> MovedFrom(old.second)]
        BY <2>4 DEF LeftBehind, kindIs
      <3>2. left \in Contents
        BY <3>1, <1>3 DEF Contents
      <3>3. left.first = MovedFrom(old.first) /\ left.second = MovedFrom(old.second)
        BY <3>1
      <3>4. old.first = Nil \/ old.second = Nil
        BY <1>2 DEF Proper
      <3>5. left.first = Nil \/ left.second = Nil
        BY <3>3, <3>4 DEF MovedFrom
      <3> QED BY <3>2, <3>5, <2>4 DEF Proper, kindIs
    <2> QED BY <2>1, <2>2, <2>3, <2>4
  <1>5. left \in Contents
    BY <1>4 DEF Proper
  <1>6. holders' = [holders EXCEPT !.at[h] = held(from), !.at[from] = LeftBehind(@)]
    BY DEF Move2
  <1>7. held(from) = old
    BY DEF held
  <1> HIDE DEF from
  <1>8. /\ holders'.kind = holders.kind /\ holders'.both = holders.both
        /\ holders'.at = [[holders.at EXCEPT ![h] = old] EXCEPT ![from] = LeftBehind([holders.at EXCEPT ![h] = old][from])]
        /\ holders' \in [kind : HolderKinds, at : {holders'.at}, both : BOOLEAN]
    BY <1>6, <1>7 DEF HoldersInv
  <1>9. [holders.at EXCEPT ![h] = old][from] = old
    BY <1>1 DEF HoldersInv
  <1>10. holders'.at = [[holders.at EXCEPT ![h] = old] EXCEPT ![from] = left]
    BY <1>8, <1>9
  <1> HIDE DEF left, old
  <1>11. holders'.at \in [1..2 -> Contents] /\ \A i \in 1..2 : holders'.at[i] = IF i = h THEN old ELSE left
    BY <1>10, <1>1, <1>2, <1>5 DEF HoldersInv
  <1> QED BY <1>8, <1>11, <1>2, <1>4 DEF HoldersInv, held

(* Every operation on the holders keeps the invariant.                     *)
LEMMA HoldersStep ==
  ASSUME HoldersInv, [HoldersNext]_holders
  PROVE  HoldersInv'
  <1>1. CASE UNCHANGED holders
    BY <1>1 DEF HoldersInv, held
  <1>2. CASE HoldersNext
    <2>1. PICK h \in 1..2 :
       \/ StoreThrows(h) \/ Clear(h) \/ ExpectedFromCode(h)
       \/ \E v \in HeldValues : SetValue(h, v) \/ FromCode(h, First(v))
       \/ \E e \in Errors : SetException(h, e) \/ FromCode(h, Second(e))
       \/ CopyConstruct2(h, 3 - h) \/ CopyAssign2(h, 3 - h) \/ Move2(h, 3 - h)
      BY <1>2 DEF HoldersNext
    <2>2. ~holders.both
      BY <1>2 DEF HoldersNext
    <2>3. 3 - h \in 1..2
      OBVIOUS
    <2>4. Proper(held(3 - h), holders.kind)
      BY <2>2, <2>3 DEF HoldersInv
    <2>5. CASE StoreThrows(h) \/ Clear(h) \/ ExpectedFromCode(h)
      BY <2>5, <2>2, ProperContents, NowProper DEF StoreThrows, Clear, ExpectedFromCode
    <2>6. ASSUME NEW v \in HeldValues, SetValue(h, v) \/ FromCode(h, First(v))
          PROVE  HoldersInv'
      BY <2>6, <2>2, ProperContents, NowProper, AssignProper DEF SetValue, FromCode
    <2>7. ASSUME NEW e \in Errors, SetException(h, e) \/ FromCode(h, Second(e))
          PROVE  HoldersInv'
      <3>1. Second(e).second = e
        BY DEF Second, NoContent
      <3>2. holders.kind = "checked void" => e \in Expected
        BY <2>7, <3>1 DEF SetException, FromCode, kindIs, Errors
      <3>3. Proper(Second(e), holders.kind)
        BY <3>2, ProperContents
      <3> QED BY <2>7, <2>2, <3>3, NowProper, AssignProper DEF SetException, FromCode
    <2>8. CASE CopyConstruct2(h, 3 - h)
      BY <2>8, <2>2, <2>4, ProperContents, NowProper DEF CopyConstruct2
    <2>9. CASE CopyAssign2(h, 3 - h)
      BY <2>9, <2>2, <2>4, AssignProper DEF CopyAssign2
    <2>10. CASE Move2(h, 3 - h)
      BY <2>10, <2>2, MoveProper
    <2> QED BY <2>1, <2>5, <2>6, <2>7, <2>8, <2>9, <2>10
  <1> QED BY <1>1, <1>2

(* It holds of holders that hold nothing.                                  *)
LEMMA HoldersBegin == HoldersInit => HoldersInv
  <1> SUFFICES ASSUME HoldersInit PROVE HoldersInv
    OBVIOUS
  <1>1. PICK k \in HolderKinds : holders = [kind |-> k, at |-> [h \in 1..2 |-> NoContent], both |-> FALSE]
    BY DEF HoldersInit
  <1>2. Proper(NoContent, k) /\ NoContent \in Contents
    BY ProperContents DEF Proper
  <1> QED BY <1>1, <1>2 DEF HoldersInv, held

-------------------------------------------------------------------------------
(* Holders: optionals.                                                     *)

(* The inductive invariant of the optionals: their values are values, and  *)
(* their references are to objects.                                        *)
OptionalsInv ==
  /\ opts \in [kind : {"value", "reference"}, at : [1..2 -> Nat \cup {Nullopt}], objects : [1..2 -> OptionalValues]]
  /\ \A h \in 1..2 : HasValue(opts.at[h]) => opts.at[h] \in (IF opts.kind = "value" THEN OptionalValues ELSE 1..2)

(* Every operation on the optionals keeps it.                              *)
LEMMA OptionalsStep ==
  ASSUME OptionalsInv, [OptionalsNext]_opts
  PROVE  OptionalsInv'
  <1> DEFINE Rightly == IF opts.kind = "value" THEN OptionalValues ELSE 1..2
             Contained(x) == x \in Nat \cup {Nullopt} /\ (HasValue(x) => x \in Rightly)
  <1>0. /\ opts \in [kind : {"value", "reference"}, at : [1..2 -> Nat \cup {Nullopt}], objects : [1..2 -> OptionalValues]]
        /\ \A h \in 1..2 : Contained(opts.at[h]) /\ 3 - h \in 1..2
        /\ OptionalValues \subseteq Nat /\ Contained(Nullopt)
    BY OptionalsAssumption DEF OptionalsInv, HasValue
  <1>1. ASSUME NEW at \in [1..2 -> Nat \cup {Nullopt}], \A h \in 1..2 : Contained(at[h]), opts' = [opts EXCEPT !.at = at]
        PROVE  OptionalsInv'
    BY <1>0, <1>1 DEF OptionalsInv, HasValue
  <1>2. ASSUME NEW h \in 1..2, NEW x, Contained(x), Hold(h, x)
        PROVE  OptionalsInv'
    <2> DEFINE at == [opts.at EXCEPT ![h] = x]
    <2>1. at \in [1..2 -> Nat \cup {Nullopt}]
      BY <1>0, <1>2
    <2>2. \A i \in 1..2 : at[i] = IF i = h THEN x ELSE opts.at[i]
      BY <1>0
    <2>3. opts' = [opts EXCEPT !.at = at]
      BY <1>0, <1>2 DEF Hold
    <2> HIDE DEF at, Contained
    <2>4. \A i \in 1..2 : Contained(at[i])
      BY <1>0, <1>2, <2>2
    <2> QED BY <1>1, <2>1, <2>3, <2>4
  <1>3. CASE UNCHANGED opts
    BY <1>3 DEF OptionalsInv
  <1>4. CASE OnValues
    <2>1. opts.kind = "value" /\ Rightly = OptionalValues
      BY <1>4 DEF OnValues
    <2>2. PICK h \in 1..2 :
       \/ \E v \in OptionalValues : Hold(h, v)
       \/ Hold(h, Nullopt)
       \/ /\ HasValue(heldBy(3 - h))
          /\ \E left \in OptionalValues : opts' = [opts EXCEPT !.at = [@ EXCEPT ![h] = heldBy(3 - h), ![3 - h] = left]]
      BY <1>4 DEF OnValues
    <2>3. \A v \in OptionalValues : Contained(v)
      BY <1>0, <2>1
    <2>4. ASSUME NEW left \in OptionalValues,
                 opts' = [opts EXCEPT !.at = [@ EXCEPT ![h] = heldBy(3 - h), ![3 - h] = left]]
          PROVE  OptionalsInv'
      <3> DEFINE x == opts.at[3 - h]
                 at == [opts.at EXCEPT ![h] = x, ![3 - h] = left]
      <3>1. Contained(x) /\ x \in Nat \cup {Nullopt} /\ left \in Nat
        BY <1>0
      <3>2. opts' = [opts EXCEPT !.at = at]
        BY <1>0, <2>4 DEF heldBy
      <3> HIDE DEF x
      <3>3. at \in [1..2 -> Nat \cup {Nullopt}]
        BY <1>0, <3>1
      <3>4. \A i \in 1..2 : at[i] \in {x, left}
        BY <1>0
      <3> HIDE DEF at, Contained
      <3>5. \A i \in 1..2 : Contained(at[i])
        BY <2>3, <3>1, <3>4
      <3> QED BY <1>1, <3>2, <3>3, <3>5
    <2> HIDE DEF Contained
    <2> QED BY <1>0, <1>2, <2>2, <2>3, <2>4
  <1>5. CASE OnReferences
    <2>1. opts.kind = "reference" /\ Rightly = 1..2
      BY <1>5 DEF OnReferences
    <2>2. PICK h \in 1..2 :
       \/ \E object \in 1..2 : Hold(h, object)
       \/ HasValue(heldBy(h)) /\ \E v \in OptionalValues : opts' = [opts EXCEPT !.objects[heldBy(h)] = v]
      BY <1>5 DEF OnReferences
    <2>3. \A object \in 1..2 : Contained(object)
      BY <2>1
    <2>4. ASSUME NEW v \in OptionalValues, opts' = [opts EXCEPT !.objects[heldBy(h)] = v]
          PROVE  OptionalsInv'
      BY <1>0, <2>4 DEF OptionalsInv, HasValue
    <2> HIDE DEF Contained
    <2> QED BY <1>2, <2>2, <2>3, <2>4
  <1>6. CASE SwapOptionals
    <2> DEFINE at == [h \in 1..2 |-> opts.at[3 - h]]
    <2>1. at \in [1..2 -> Nat \cup {Nullopt}] /\ \A h \in 1..2 : Contained(at[h])
      BY <1>0
    <2>2. opts' = [opts EXCEPT !.at = at]
      BY <1>6 DEF SwapOptionals, heldBy
    <2> HIDE DEF at
    <2> QED BY <1>1, <2>1, <2>2
  <1>7. ASSUME NEW h \in 1..2, ResetOptional(h) \/ CopyOptional(h)
        PROVE  OptionalsInv'
    <2> HIDE DEF Contained
    <2> QED BY <1>0, <1>2, <1>7 DEF ResetOptional, CopyOptional, heldBy
  <1> QED BY <1>3, <1>4, <1>5, <1>6, <1>7 DEF OptionalsNext

(* It holds of the optionals as they are made.                             *)
LEMMA OptionalsBegin == OptionalsInit => OptionalsInv
  BY DEF OptionalsInit, OptionalsInv, HasValue

(* None ranks below all values.                                            *)
RankOf(x) == IF HasValue(x) THEN x ELSE -1

(* Each comparison of two optionals is that of their ranks.                *)
LEMMA ComparesAsRanked ==
  ASSUME NEW x \in Nat \cup {Nullopt}, NEW y \in Nat \cup {Nullopt}, NEW op \in Comparisons
  PROVE  /\ CompareOptionals(op, x, y) <=> Holds(op, RankOf(x), RankOf(y))
         /\ CompareValuePtrs(op, x, y) <=> Holds(op, RankOf(x), RankOf(y))
  <1> USE OptionalsAssumption
  <1>1. CompareValuePtr(x, y) \in {-1, 0, 1} /\ RankOf(x) \in Int /\ RankOf(y) \in Int
        /\ (CompareValuePtr(x, y) < 0 <=> RankOf(x) < RankOf(y))
        /\ (CompareValuePtr(x, y) = 0 <=> RankOf(x) = RankOf(y))
    BY DEF CompareValuePtr, RankOf, HasValue
  <1>2. op \in {"==", "!=", "<", "<=", ">", ">="}
    BY DEF Comparisons
  <1>3. CompareValuePtrs(op, x, y) <=> Holds(op, RankOf(x), RankOf(y))
    <2> HIDE DEF RankOf, CompareValuePtr
    <2> QED BY <1>1, <1>2 DEF CompareValuePtrs, Holds
  <1>4. CompareOptionals(op, x, y) <=> Holds(op, RankOf(x), RankOf(y))
    <2>1. CASE HasValue(x) /\ HasValue(y)
      BY <2>1 DEF CompareOptionals, RankOf
    <2>2. CASE HasValue(x) /\ ~HasValue(y)
      <3>1. RankOf(x) \in Nat /\ RankOf(y) = -1
        BY <2>2 DEF RankOf, HasValue
      <3> HIDE DEF RankOf
      <3>2. CASE op = "=="
        BY <3>2, <2>2, <3>1 DEF CompareOptionals, Holds, HasValue
      <3>3. CASE op = "!="
        BY <3>3, <2>2, <3>1 DEF CompareOptionals, Holds, HasValue
      <3>4. CASE op = "<"
        BY <3>4, <2>2, <3>1 DEF CompareOptionals, Holds
      <3>5. CASE op = "<="
        BY <3>5, <2>2, <3>1 DEF CompareOptionals, Holds
      <3>6. CASE op = ">"
        BY <3>6, <2>2, <3>1 DEF CompareOptionals, Holds
      <3>7. CASE op = ">="
        BY <3>7, <2>2, <3>1 DEF CompareOptionals, Holds
      <3> QED BY <1>2, <3>2, <3>3, <3>4, <3>5, <3>6, <3>7
    <2>3. CASE ~HasValue(x) /\ HasValue(y)
      <3>1. RankOf(y) \in Nat /\ RankOf(x) = -1
        BY <2>3 DEF RankOf, HasValue
      <3> HIDE DEF RankOf
      <3>2. CASE op = "=="
        BY <3>2, <2>3, <3>1 DEF CompareOptionals, Holds, HasValue
      <3>3. CASE op = "!="
        BY <3>3, <2>3, <3>1 DEF CompareOptionals, Holds, HasValue
      <3>4. CASE op = "<"
        BY <3>4, <2>3, <3>1 DEF CompareOptionals, Holds
      <3>5. CASE op = "<="
        BY <3>5, <2>3, <3>1 DEF CompareOptionals, Holds
      <3>6. CASE op = ">"
        BY <3>6, <2>3, <3>1 DEF CompareOptionals, Holds
      <3>7. CASE op = ">="
        BY <3>7, <2>3, <3>1 DEF CompareOptionals, Holds
      <3> QED BY <1>2, <3>2, <3>3, <3>4, <3>5, <3>6, <3>7
    <2>4. CASE ~HasValue(x) /\ ~HasValue(y)
      <3>1. RankOf(y) = -1 /\ RankOf(x) = -1
        BY <2>4 DEF RankOf
      <3> HIDE DEF RankOf
      <3>2. CASE op = "=="
        BY <3>2, <2>4, <3>1 DEF CompareOptionals, Holds, HasValue
      <3>3. CASE op = "!="
        BY <3>3, <2>4, <3>1 DEF CompareOptionals, Holds, HasValue
      <3>4. CASE op = "<"
        BY <3>4, <2>4, <3>1 DEF CompareOptionals, Holds
      <3>5. CASE op = "<="
        BY <3>5, <2>4, <3>1 DEF CompareOptionals, Holds
      <3>6. CASE op = ">"
        BY <3>6, <2>4, <3>1 DEF CompareOptionals, Holds
      <3>7. CASE op = ">="
        BY <3>7, <2>4, <3>1 DEF CompareOptionals, Holds
      <3> QED BY <1>2, <3>2, <3>3, <3>4, <3>5, <3>6, <3>7
    <2> QED BY <2>1, <2>2, <2>3, <2>4
  <1> QED BY <1>3, <1>4

(* So is each comparison with nullopt or a value.                          *)
LEMMA ComparesWithNone ==
  ASSUME NEW x \in Nat \cup {Nullopt}, NEW op \in Comparisons, NEW v \in Nat
  PROVE  /\ CompareNullopt(op, FALSE, x) <=> Holds(op, RankOf(x), -1)
         /\ CompareValue(op, FALSE, x, v) <=> Holds(op, RankOf(x), v)
         /\ op # ">=" => CompareNullopt(op, TRUE, x) <=> Holds(op, -1, RankOf(x))
         /\ op # ">=" => CompareValue(op, TRUE, x, v) <=> Holds(op, v, RankOf(x))
  <1> USE OptionalsAssumption
  <1>1. op \in {"==", "!=", "<", "<=", ">", ">="}
    BY DEF Comparisons
  <1>3. CompareNullopt(op, FALSE, x) <=> Holds(op, RankOf(x), -1)
    BY <1>1 DEF CompareNullopt, RankOf, HasValue, Holds
  <1>4. op # ">=" => CompareNullopt(op, TRUE, x) <=> Holds(op, -1, RankOf(x))
    BY <1>1 DEF CompareNullopt, RankOf, HasValue, Holds
  <1>5. CompareValue(op, FALSE, x, v) <=> Holds(op, RankOf(x), v)
    <2>1. CASE HasValue(x)
      BY <2>1, <1>1 DEF CompareValue, RankOf
    <2>2. CASE ~HasValue(x)
      <3>1. RankOf(x) = -1
        BY <2>2 DEF RankOf
      <3> HIDE DEF RankOf
      <3>2. CASE op = "=="
        BY <3>2, <2>2, <3>1 DEF CompareValue, Holds
      <3>3. CASE op = "!="
        BY <3>3, <2>2, <3>1 DEF CompareValue, Holds
      <3>4. CASE op = "<"
        BY <3>4, <2>2, <3>1 DEF CompareValue, Holds
      <3>5. CASE op = "<="
        BY <3>5, <2>2, <3>1 DEF CompareValue, Holds
      <3>6. CASE op = ">"
        BY <3>6, <2>2, <3>1 DEF CompareValue, Holds
      <3>7. CASE op = ">="
        BY <3>7, <2>2, <3>1 DEF CompareValue, Holds
      <3> QED BY <1>1, <3>2, <3>3, <3>4, <3>5, <3>6, <3>7
    <2> QED BY <2>1, <2>2
  <1>6. op # ">=" => CompareValue(op, TRUE, x, v) <=> Holds(op, v, RankOf(x))
    <2>1. CASE HasValue(x)
      <3>1. RankOf(x) = x /\ x \in Nat
        BY <2>1 DEF RankOf, HasValue
      <3>2. CASE op = "=="
        BY <3>2, <2>1, <3>1 DEF CompareValue, Holds
      <3>3. CASE op = "!="
        BY <3>3, <2>1, <3>1 DEF CompareValue, Holds
      <3>4. CASE op = "<"
        BY <3>4, <2>1, <3>1 DEF CompareValue, Holds
      <3>5. CASE op = "<="
        BY <3>5, <2>1, <3>1 DEF CompareValue, Holds
      <3>6. CASE op = ">"
        BY <3>6, <2>1, <3>1 DEF CompareValue, Holds
      <3>7. CASE op = ">="
        BY <3>7, <2>1, <3>1 DEF CompareValue, Holds
      <3> QED BY <1>1, <3>2, <3>3, <3>4, <3>5, <3>6, <3>7
    <2>2. CASE ~HasValue(x)
      <3>1. RankOf(x) = -1
        BY <2>2 DEF RankOf
      <3> HIDE DEF RankOf
      <3>2. CASE op = "=="
        BY <3>2, <2>2, <3>1 DEF CompareValue, Holds
      <3>3. CASE op = "!="
        BY <3>3, <2>2, <3>1 DEF CompareValue, Holds
      <3>4. CASE op = "<"
        BY <3>4, <2>2, <3>1 DEF CompareValue, Holds
      <3>5. CASE op = "<="
        BY <3>5, <2>2, <3>1 DEF CompareValue, Holds
      <3>6. CASE op = ">"
        BY <3>6, <2>2, <3>1 DEF CompareValue, Holds
      <3>7. CASE op = ">="
        BY <3>7, <2>2, <3>1 DEF CompareValue, Holds
      <3> QED BY <1>1, <3>2, <3>3, <3>4, <3>5, <3>6, <3>7
    <2> QED BY <2>1, <2>2
  <1> QED BY <1>3, <1>4, <1>5, <1>6

(* It implies that optionals are ordered as their values are.              *)
LEMMA OptionalsKeep == OptionalsInv => OptionalsOrdered
  <1> SUFFICES ASSUME OptionalsInv PROVE OptionalsOrdered
    OBVIOUS
  <1> DEFINE Ordered(op, reversed, x, y) == IF reversed THEN Holds(op, y, x) ELSE Holds(op, x, y)
  <1>1. ASSUME NEW h \in 1..2 PROVE ComparedBy(h) \in Nat \cup {Nullopt}
    BY OptionalsAssumption DEF OptionalsInv, ComparedBy, heldBy, HasValue
  <1>2. ASSUME NEW op \in Comparisons, NEW h \in 1..2,
               NEW compared \in {CompareOptionals(op, ComparedBy(h), ComparedBy(3 - h)),
                                 CompareValuePtrs(op, ComparedBy(h), ComparedBy(3 - h))}
        PROVE  compared <=> Holds(op, RankOf(ComparedBy(h)), RankOf(ComparedBy(3 - h)))
    <2>1. 3 - h \in 1..2
      OBVIOUS
    <2> QED BY <1>1, <1>2, <2>1, ComparesAsRanked
  <1>3. ASSUME NEW op \in Comparisons, NEW h \in 1..2, NEW reversed \in BOOLEAN, ~(op = ">=" /\ reversed)
        PROVE  /\ CompareNullopt(op, reversed, ComparedBy(h)) <=> Ordered(op, reversed, RankOf(ComparedBy(h)), -1)
               /\ \A v \in OptionalValues :
                    CompareValue(op, reversed, ComparedBy(h), v) <=> Ordered(op, reversed, RankOf(ComparedBy(h)), v)
    <2>1. /\ ComparedBy(h) \in Nat \cup {Nullopt} /\ \A v \in OptionalValues : v \in Nat
          /\ 0 \in Nat
      BY <1>1, OptionalsAssumption
    <2>2. CASE reversed = TRUE
      BY <1>3, <2>1, <2>2, ComparesWithNone
    <2>3. CASE reversed = FALSE
      BY <2>1, <2>3, ComparesWithNone
    <2> QED BY <2>2, <2>3
  <1> QED BY <1>2, <1>3 DEF OptionalsOrdered, RankOf

-------------------------------------------------------------------------------
(* Vectors.                                                                *)

(* What elements, vectors, blocks and the whole state may be.              *)
VectorItems == Elements \cup {Gone}
VectorRecords == [alloc : Allocators, at : Blocks \cup {Absent}, end : Nat]
Memory == [by : Allocators, room : Nat, items : Seq(VectorItems)]
VectorStates ==
  [copy : BOOLEAN, move : BOOLEAN, swap : BOOLEAN, nothrow : BOOLEAN,
   of : [VectorNames -> VectorRecords \cup {Absent}], heap : [Blocks -> Memory \cup {Absent}],
   want : [VectorNames -> Seq(VectorItems) \cup {Unknown}], lost : SUBSET Blocks,
   amiss : BOOLEAN, followed : BOOLEAN]

HasBlock(of, i, b) == of[i] # Absent /\ of[i].at = b

(* Who owns what: a vector's block is its alone, from its allocator, and   *)
(* has as many elements as the vector says; every block is somebody's, or  *)
(* was lost.                                                               *)
OwnsIt(of, heap, lost, i) ==
  IF of[i].at = Absent THEN of[i].end = 0
  ELSE /\ of[i].at \notin lost /\ heap[of[i].at] # Absent
       /\ heap[of[i].at].by = of[i].alloc /\ Len(heap[of[i].at].items) = of[i].end
Ownership(of, heap, lost) ==
  /\ \A i \in VectorNames : of[i] # Absent => OwnsIt(of, heap, lost, i)
  /\ \A i, j \in VectorNames, b \in Blocks : HasBlock(of, i, b) /\ HasBlock(of, j, b) => i = j
  /\ \A b \in Blocks \ lost : heap[b] # Absent => \E i \in VectorNames : HasBlock(of, i, b)
  /\ \A b \in lost : heap[b] # Absent

VectorsSound(s) == s \in VectorStates /\ ~s.amiss /\ Ownership(s.of, s.heap, s.lost)

(* What a vector with record r shows.                                      *)
ShownBy(r, heap) == IF r.at = Absent THEN <<>> ELSE SubSeq(heap[r.at].items, 1, r.end)

(* The inductive invariant of the vectors.                                 *)
VectorsInv ==
  /\ VectorsSound(vs)
  /\ \A i \in VectorNames : vs.of[i] # Absent /\ vs.want[i] # Unknown => Shows(vs, i) = vs.want[i]

(* r is what s became when something was done to the vectors in H.         *)
Beside(s, r, H) ==
  /\ VectorsSound(r) /\ r.want = s.want
  /\ \A i \in VectorNames \ H : r.of[i] = s.of[i] /\ (s.of[i] # Absent => Shows(r, i) = Shows(s, i))

LEMMA AbsentIs ==
  /\ Absent \notin Blocks /\ Absent \notin VectorNames /\ Absent \notin VectorRecords /\ Absent \notin Memory
  /\ Unknown \notin Seq(VectorItems) /\ Room \in Nat /\ Blocks \subseteq Nat
  BY VectorsAssumption DEF VectorRecords, Memory, VectorItems

(* A state by its fields.                                                  *)
LEMMA StateHas ==
  ASSUME NEW s \in VectorStates
  PROVE  /\ s.of \in [VectorNames -> VectorRecords \cup {Absent}] /\ s.heap \in [Blocks -> Memory \cup {Absent}]
         /\ s.want \in [VectorNames -> Seq(VectorItems) \cup {Unknown}] /\ s.lost \in SUBSET Blocks
         /\ s.amiss \in BOOLEAN /\ s.followed \in BOOLEAN
         /\ \A i \in VectorNames : s.of[i] # Absent =>
              s.of[i] \in VectorRecords /\ s.of[i].alloc \in Allocators /\ s.of[i].end \in Nat
                /\ s.of[i].at \in Blocks \cup {Absent}
         /\ \A b \in Blocks : s.heap[b] # Absent =>
              s.heap[b] \in Memory /\ s.heap[b].by \in Allocators /\ s.heap[b].room \in Nat
                /\ s.heap[b].items \in Seq(VectorItems)
  BY DEF VectorStates, VectorRecords, Memory

(* What a sound vector shows is all the elements in its block.             *)
LEMMA ShowsAll ==
  ASSUME NEW s, VectorsSound(s), NEW i \in VectorNames, s.of[i] # Absent
  PROVE  /\ Shows(s, i) = ShownBy(s.of[i], s.heap) /\ Shows(s, i) \in Seq(VectorItems) /\ Len(Shows(s, i)) = s.of[i].end
         /\ s.of[i].at # Absent => Shows(s, i) = s.heap[s.of[i].at].items
<1>1. s \in VectorStates /\ OwnsIt(s.of, s.heap, s.lost, i)
  BY DEF VectorsSound, Ownership
<1>2. CASE s.of[i].at = Absent
  BY <1>1, <1>2 DEF OwnsIt, Shows, ShownBy
<1>3. CASE s.of[i].at # Absent
  <2> DEFINE xs == s.heap[s.of[i].at].items
  <2>1. s.of[i].at \in Blocks /\ s.of[i].end \in Nat /\ s.heap[s.of[i].at] # Absent
    BY <1>1, <1>3, StateHas DEF OwnsIt
  <2>2. xs \in Seq(VectorItems) /\ Len(xs) = s.of[i].end
    BY <1>1, <1>3, <2>1, StateHas DEF OwnsIt
  <2>3. Shows(s, i) = SubSeq(xs, 1, Len(xs)) /\ ShownBy(s.of[i], s.heap) = Shows(s, i)
    BY <1>3, <2>2 DEF Shows, ShownBy
  <2> HIDE DEF xs
  <2>4. SubSeq(xs, 1, Len(xs)) = xs
    BY <2>2
  <2> QED
    BY <2>2, <2>3, <2>4 DEF xs
<1> QED
  BY <1>2, <1>3

(* The least of some numbers.                                              *)
LEMMA LeastBlock ==
  ASSUME NEW S \in SUBSET Nat, S # {}
  PROVE  \E m \in S : \A k \in S : m <= k
<1> DEFINE below(n) == 0 .. n
           W == {below(n) : n \in S}
<1>1. W \subseteq FiniteSubsetsOf(Nat)
  <2> SUFFICES ASSUME NEW n \in Nat PROVE IsFiniteSet(0 .. n) /\ 0 .. n \subseteq Nat
    BY DEF FiniteSubsetsOf
  <2> QED
    BY FS_Interval
<1>2. IsWellFoundedOn(StrictSubsetOrdering(Nat), FiniteSubsetsOf(Nat))
  BY FS_StrictSubsetOrderingWellFounded
<1>3. W # {}
  OBVIOUS
<1>4. PICK x \in W : \A y \in W : <<y, x>> \notin StrictSubsetOrdering(Nat)
  <2> HIDE DEF W
  <2> QED
    BY <1>1, <1>2, <1>3, WFMin
<1>5. PICK m \in S : x = 0 .. m
  OBVIOUS
<1>6. ASSUME NEW k \in S, k < m PROVE FALSE
  <2>1. 0 .. k \subseteq 0 .. m /\ 0 .. k # 0 .. m
    BY <1>6
  <2>2. <<0 .. k, x>> \in StrictSubsetOrdering(Nat)
    BY <1>5, <2>1 DEF StrictSubsetOrdering
  <2> QED
    BY <1>4, <2>2
<1> QED
  BY <1>6

(* A record of a vector, and what is in a block.                           *)
LEMMA OwningIs ==
  ASSUME NEW a \in Allocators, NEW b \in Blocks \cup {Absent}, NEW n \in Nat
  PROVE  /\ Owning(a, b, n) \in VectorRecords /\ Owning(a, b, n) # Absent
         /\ Owning(a, b, n).alloc = a /\ Owning(a, b, n).at = b /\ Owning(a, b, n).end = n
  BY AbsentIs DEF Owning, VectorRecords

LEMMA NoMemoryIs ==
  ASSUME NEW a \in Allocators
  PROVE  /\ NoMemory(a) \in VectorRecords /\ NoMemory(a) # Absent
         /\ NoMemory(a).alloc = a /\ NoMemory(a).at = Absent /\ NoMemory(a).end = 0
<1>1. 0 \in Nat /\ Absent \in Blocks \cup {Absent}
  OBVIOUS
<1> QED
  BY <1>1, OwningIs DEF NoMemory

LEMMA MemoryIs ==
  ASSUME NEW a \in Allocators, NEW n \in Nat, NEW xs \in Seq(VectorItems)
  PROVE  /\ MemoryOf(a, n, xs) \in Memory /\ MemoryOf(a, n, xs) # Absent
         /\ MemoryOf(a, n, xs).by = a /\ MemoryOf(a, n, xs).room = n /\ MemoryOf(a, n, xs).items = xs
  BY AbsentIs DEF MemoryOf, Memory

(* A state by its fields, when one vector and one block are other ones.    *)
LEMMA PlacedIs ==
  ASSUME NEW s \in VectorStates, NEW h \in VectorNames, NEW x \in VectorRecords, NEW b \in Blocks,
         NEW m \in Memory \cup {Absent}
  PROVE  LET r == Placed(s, h, x, b, m) IN
         /\ r \in VectorStates /\ r.want = s.want /\ r.lost = s.lost /\ r.amiss = s.amiss
         /\ r.of[h] = x /\ \A i \in VectorNames \ {h} : r.of[i] = s.of[i]
         /\ r.heap[b] = m /\ \A c \in Blocks \ {b} : r.heap[c] = s.heap[c]
<1>1. LET r == Placed(s, h, x, b, m) IN
      /\ r \in VectorStates /\ r.want = s.want /\ r.lost = s.lost /\ r.amiss = s.amiss
      /\ r.of = [s.of EXCEPT ![h] = x] /\ r.heap = [s.heap EXCEPT ![b] = m]
  BY DEF Placed, VectorStates
<1> DEFINE r == Placed(s, h, x, b, m)
<1>2. /\ r.of = [s.of EXCEPT ![h] = x] /\ r.heap = [s.heap EXCEPT ![b] = m]
  BY <1>1
<1> HIDE DEF r
<1>3. /\ r.of[h] = x /\ \A i \in VectorNames \ {h} : r.of[i] = s.of[i]
      /\ r.heap[b] = m /\ \A c \in Blocks \ {b} : r.heap[c] = s.heap[c]
  BY <1>2, StateHas
<1> QED
  BY <1>1, <1>3 DEF r

(* The vector of h has the block b, or none, and no other had it.          *)
MayTake(s, h, b) ==
  /\ b \in Blocks \ s.lost /\ \A i \in VectorNames \ {h} : ~ HasBlock(s.of, i, b)
  /\ \A c \in Blocks : HasBlock(s.of, h, c) => c = b

(* Only h has changed, which is now x, and shows xs.                       *)
Made(s, r, h, x, xs) ==
  /\ Beside(s, r, {h}) /\ r.of[h] = x /\ x # Absent /\ Shows(r, h) = xs /\ r.lost = s.lost

LEMMA PlacedSound ==
  ASSUME NEW s, VectorsSound(s), NEW h \in VectorNames, NEW b, MayTake(s, h, b), NEW a \in Allocators, NEW n \in Nat,
         NEW xs \in Seq(VectorItems), NEW e, e = Len(xs), NEW r, r = Placed(s, h, Owning(a, b, e), b, MemoryOf(a, n, xs))
  PROVE  Made(s, r, h, Owning(a, b, e), xs)
<1> DEFINE x == Owning(a, b, e)
           m == MemoryOf(a, n, xs)
<1>1. /\ s \in VectorStates /\ e \in Nat /\ b \in Blocks /\ b \notin s.lost
      /\ \A i \in VectorNames \ {h} : ~ HasBlock(s.of, i, b)
      /\ \A c \in Blocks : HasBlock(s.of, h, c) => c = b
  BY DEF VectorsSound, MayTake
<1>2. x \in VectorRecords /\ x.alloc = a /\ x.at = b /\ x.end = e /\ x # Absent
  BY <1>1, OwningIs
<1>3. m \in Memory /\ m.by = a /\ m.items = xs /\ m # Absent
  BY MemoryIs
<1> HIDE DEF x, m
<1>4. /\ r \in VectorStates /\ r.want = s.want /\ r.lost = s.lost /\ r.amiss = s.amiss
      /\ r.of[h] = x /\ \A i \in VectorNames \ {h} : r.of[i] = s.of[i]
      /\ r.heap[b] = m /\ \A c \in Blocks \ {b} : r.heap[c] = s.heap[c]
  BY <1>1, <1>2, <1>3, PlacedIs DEF x, m
<1>5. ASSUME NEW i \in VectorNames \ {h}, s.of[i] # Absent
      PROVE  OwnsIt(r.of, r.heap, r.lost, i) /\ Shows(r, i) = Shows(s, i)
  <2>1. OwnsIt(s.of, s.heap, s.lost, i)
    BY <1>5 DEF VectorsSound, Ownership
  <2>2. s.of[i].at # Absent => s.of[i].at \in Blocks \ {b}
    BY <1>1, <1>5, StateHas DEF HasBlock
  <2> QED
    BY <1>4, <2>1, <2>2 DEF OwnsIt, Shows
<1>6. OwnsIt(r.of, r.heap, r.lost, h)
  BY <1>1, <1>2, <1>3, <1>4, AbsentIs DEF OwnsIt
<1>7. ASSUME NEW i \in VectorNames, NEW j \in VectorNames, NEW c \in Blocks, HasBlock(r.of, i, c), HasBlock(r.of, j, c)
      PROVE  i = j
  <2>1. HasBlock(s.of, i, c) /\ HasBlock(s.of, j, c) => i = j
    BY DEF VectorsSound, Ownership
  <2>2. \A k \in VectorNames \ {h} : HasBlock(r.of, k, c) => HasBlock(s.of, k, c) /\ c # b
    BY <1>1, <1>4 DEF HasBlock
  <2>3. HasBlock(r.of, h, c) => c = b
    BY <1>2, <1>4 DEF HasBlock
  <2> QED
    BY <1>7, <2>1, <2>2, <2>3
<1>8. ASSUME NEW c \in Blocks \ r.lost, r.heap[c] # Absent
      PROVE  \E i \in VectorNames : HasBlock(r.of, i, c)
  <2>1. CASE c = b
    BY <1>2, <1>4, <2>1 DEF HasBlock
  <2>2. CASE c # b
    <3>1. PICK i \in VectorNames : HasBlock(s.of, i, c)
      BY <1>4, <1>8, <2>2 DEF VectorsSound, Ownership
    <3>2. c \in Blocks
      OBVIOUS
    <3>4. HasBlock(s.of, h, c) => c = b
      BY <1>1, <3>2
    <3>3. i # h
      BY <2>2, <3>1, <3>4
    <3> QED
      BY <1>4, <3>1, <3>3 DEF HasBlock
  <2> QED
    BY <2>1, <2>2
<1>11. \A c \in r.lost : r.heap[c] # Absent
  BY <1>1, <1>4, StateHas DEF VectorsSound, Ownership
<1>9. VectorsSound(r)
  BY <1>4, <1>5, <1>6, <1>7, <1>8, <1>11 DEF VectorsSound, Ownership
<1>10. Shows(r, h) = xs
  <2>1. r.of[h] # Absent /\ r.of[h].at # Absent
    BY <1>1, <1>2, <1>4, AbsentIs
  <2> QED
    BY <1>2, <1>3, <1>4, <1>9, <2>1, ShowsAll
<1> QED
  BY <1>2, <1>4, <1>5, <1>9, <1>10 DEF Beside, Made, x

(* Memory for a vector that has none.                                      *)
LEMMA VallocateSound ==
  ASSUME NEW s, VectorsSound(s), NEW h \in VectorNames, s.of[h] # Absent, s.of[h].at = Absent,
         NEW n \in Nat, Unused(s) # {}, NEW r, r = Vallocate(s, h, n)
  PROVE  /\ Beside(s, r, {h}) /\ r.of[h] # Absent /\ r.of[h].alloc = s.of[h].alloc
         /\ r.of[h].at # Absent /\ Shows(r, h) = <<>> /\ r.lost = s.lost
<1> DEFINE b == CHOOSE c \in Unused(s) : \A d \in Unused(s) : c <= d
           a == s.of[h].alloc
<1>1. s \in VectorStates /\ a \in Allocators
  BY StateHas DEF VectorsSound
<1>2. b \in Unused(s)
  <2>1. Unused(s) \in SUBSET Nat
    BY AbsentIs DEF Unused
  <2> QED
    BY <2>1, LeastBlock
<1>3. r = Placed(s, h, Owning(a, b, 0), b, MemoryOf(a, n, <<>>))
  BY DEF Vallocate
<1> HIDE DEF b, a
<1>4. b \in Blocks /\ s.heap[b] = Absent /\ b \notin s.lost
  BY <1>2 DEF Unused, VectorsSound, Ownership
<1>5. ASSUME NEW i \in VectorNames PROVE ~ HasBlock(s.of, i, b)
  BY <1>4, AbsentIs DEF VectorsSound, Ownership, OwnsIt, HasBlock
<1>6. \A c \in Blocks : ~ HasBlock(s.of, h, c)
  BY AbsentIs DEF HasBlock
<1>7. <<>> \in Seq(VectorItems) /\ Len(<<>>) = 0 /\ 0 \in Nat
  OBVIOUS
<1> DEFINE xs == <<>>
           e == 0
<1>8. xs \in Seq(VectorItems) /\ e = Len(xs) /\ e \in Nat
  BY <1>7
<1>9. r = Placed(s, h, Owning(a, b, e), b, MemoryOf(a, n, xs))
  BY <1>3
<1>11. MayTake(s, h, b)
  BY <1>4, <1>5, <1>6 DEF MayTake
<1> HIDE DEF xs, e
<1>10. Made(s, r, h, Owning(a, b, e), xs)
  BY <1>1, <1>8, <1>9, <1>11, PlacedSound
<1> QED
  BY <1>1, <1>4, <1>8, <1>10, OwningIs, AbsentIs DEF a, xs, Made

(* A vector whose memory is given back: to the allocator it came from.     *)
LEMMA VdeallocateSound ==
  ASSUME NEW s, VectorsSound(s), NEW h \in VectorNames, s.of[h] # Absent, NEW r, r = Vdeallocate(s, h)
  PROVE  /\ Beside(s, r, {h}) /\ r.of[h] # Absent /\ r.of[h].alloc = s.of[h].alloc
         /\ r.of[h].at = Absent /\ Unused(s) \subseteq Unused(r) /\ r.lost = s.lost
<1> DEFINE vec == s.of[h]
           b == vec.at
           x == NoMemory(vec.alloc)
           wrong == s.heap[b].by # vec.alloc \/ Len(s.heap[b].items) # vec.end
           q == Placed(s, h, x, b, Absent)
<1>1. s \in VectorStates /\ ~ s.amiss /\ OwnsIt(s.of, s.heap, s.lost, h)
  BY DEF VectorsSound, Ownership
<1>2. CASE b = Absent
  BY <1>2 DEF Vdeallocate, Beside
<1>3. CASE b # Absent
  <2>1. b \in Blocks /\ vec.alloc \in Allocators /\ ~ wrong /\ b \notin s.lost /\ s.heap[b] # Absent
    BY <1>1, <1>3, StateHas DEF OwnsIt
  <2>2. x \in VectorRecords /\ x.alloc = vec.alloc /\ x.at = Absent /\ x.end = 0 /\ x # Absent
    BY <2>1, NoMemoryIs
  <2>3. r = [q EXCEPT !.amiss = @ \/ wrong]
    BY <1>3 DEF Vdeallocate
  <2> HIDE DEF x
  <2>4. /\ q \in VectorStates /\ q.want = s.want /\ q.lost = s.lost /\ q.amiss = s.amiss
        /\ q.of[h] = x /\ \A i \in VectorNames \ {h} : q.of[i] = s.of[i]
        /\ q.heap[b] = Absent /\ \A c \in Blocks \ {b} : q.heap[c] = s.heap[c]
    BY <1>1, <2>1, <2>2, PlacedIs
  <2> HIDE DEF q, b, vec
  <2>5. r \in VectorStates /\ r.want = q.want /\ r.lost = q.lost /\ r.of = q.of /\ r.heap = q.heap /\ ~ r.amiss
    BY <1>1, <2>1, <2>3, <2>4 DEF VectorStates
  <2>6. HasBlock(s.of, h, b)
    BY DEF HasBlock, b, vec
  <2>7. ASSUME NEW i \in VectorNames \ {h}, s.of[i] # Absent
        PROVE  OwnsIt(r.of, r.heap, r.lost, i) /\ Shows(r, i) = Shows(s, i)
    <3>1. OwnsIt(s.of, s.heap, s.lost, i)
      BY <2>7 DEF VectorsSound, Ownership
    <3>2. s.of[i].at # Absent => s.of[i].at \in Blocks \ {b}
      BY <1>1, <2>1, <2>6, <2>7, StateHas DEF HasBlock, VectorsSound, Ownership
    <3> QED
      BY <2>4, <2>5, <3>1, <3>2 DEF OwnsIt, Shows
  <2>8. OwnsIt(r.of, r.heap, r.lost, h)
    BY <2>2, <2>4, <2>5 DEF OwnsIt
  <2>9. ASSUME NEW i \in VectorNames, NEW c \in Blocks
        PROVE  HasBlock(r.of, i, c) => i # h /\ HasBlock(s.of, i, c)
    BY <2>2, <2>4, <2>5, AbsentIs DEF HasBlock
  <2>10. \A i, j \in VectorNames, c \in Blocks : HasBlock(r.of, i, c) /\ HasBlock(r.of, j, c) => i = j
    BY <2>9 DEF VectorsSound, Ownership
  <2>11. ASSUME NEW c \in Blocks \ r.lost, r.heap[c] # Absent
         PROVE  \E i \in VectorNames : HasBlock(r.of, i, c)
    <3>1. c # b
      BY <2>4, <2>5, <2>11
    <3>2. PICK i \in VectorNames : HasBlock(s.of, i, c)
      BY <2>4, <2>5, <2>11, <3>1 DEF VectorsSound, Ownership
    <3>3. i # h
      BY <3>1, <3>2 DEF HasBlock, b, vec
    <3> QED
      BY <2>4, <2>5, <3>2, <3>3 DEF HasBlock
  <2>14. \A c \in r.lost : r.heap[c] # Absent
    BY <1>1, <2>1, <2>4, <2>5, StateHas DEF VectorsSound, Ownership
  <2>12. VectorsSound(r)
    BY <2>4, <2>5, <2>7, <2>8, <2>10, <2>11, <2>14 DEF VectorsSound, Ownership
  <2>13. Unused(s) \subseteq Unused(r)
    BY <2>1, <2>4, <2>5 DEF Unused
  <2> QED
    BY <2>2, <2>4, <2>5, <2>7, <2>12, <2>13 DEF Beside, vec
<1> QED
  BY <1>2, <1>3

(* Elements put in the place of those in a vector's block.                 *)
PutInto(s, r, h, xs) == Beside(s, r, {h}) /\ r.of[h] # Absent /\ r.of[h].at = s.of[h].at /\ Shows(r, h) = xs

LEMMA StoreSound ==
  ASSUME NEW s, VectorsSound(s), NEW h \in VectorNames, s.of[h] # Absent, NEW xs \in Seq(VectorItems),
         s.of[h].at # Absent \/ xs = <<>>
  PROVE  PutInto(s, Store(s, h, xs), h, xs)
<1> DEFINE r == Store(s, h, xs)
           vec == s.of[h]
           b == vec.at
           m == s.heap[b]
<1>0. r = Store(s, h, xs)
  OBVIOUS
<1> HIDE DEF r
<1> SUFFICES PutInto(s, r, h, xs)
  BY DEF r
<1>1. s \in VectorStates /\ OwnsIt(s.of, s.heap, s.lost, h)
  BY DEF VectorsSound, Ownership
<1>2. CASE b = Absent
  BY <1>0, <1>2 DEF Store, Beside, Shows, PutInto
<1>3. CASE b # Absent
  <2>1. b \in Blocks /\ vec.alloc \in Allocators /\ b \notin s.lost /\ m # Absent
    BY <1>1, <1>3, StateHas DEF OwnsIt
  <2>2. m.room \in Nat /\ m.by = vec.alloc
    BY <1>1, <1>3, <2>1, StateHas DEF OwnsIt
  <2>3. r = Placed(s, h, Owning(vec.alloc, b, Len(xs)), b, MemoryOf(vec.alloc, m.room, xs))
    BY <1>0, <1>3, <2>2 DEF Store, Refilled
  <2>4. HasBlock(s.of, h, b) /\ \A c \in Blocks : HasBlock(s.of, h, c) => c = b
    BY DEF HasBlock
  <2>5. \A i \in VectorNames \ {h} : ~ HasBlock(s.of, i, b)
    BY <2>1, <2>4 DEF VectorsSound, Ownership
  <2> DEFINE e == Len(xs)
             n == m.room
             a == vec.alloc
  <2>6. r = Placed(s, h, Owning(a, b, e), b, MemoryOf(a, n, xs)) /\ e = Len(xs) /\ e \in Nat
    BY <2>3
  <2>7. a \in Allocators /\ n \in Nat
    BY <2>1, <2>2
  <2>9. MayTake(s, h, b)
    BY <2>1, <2>4, <2>5 DEF MayTake
  <2> HIDE DEF e, n, a, vec, b, m
  <2>8. Made(s, r, h, Owning(a, b, e), xs)
    BY <2>6, <2>7, <2>9, PlacedSound
  <2> QED
    BY <2>1, <2>6, <2>7, <2>8, OwningIs DEF vec, b, a, Made, PutInto
<1> QED
  BY <1>2, <1>3

(* As many elements as there were.                                         *)
LEMMA ElementsLeft ==
  ASSUME NEW xs \in Seq(VectorItems), NEW k \in Nat
  PROVE  LET ys == [i \in DOMAIN xs |-> IF i <= k THEN Gone ELSE xs[i]] IN
         ys \in Seq(VectorItems) /\ Len(ys) = Len(xs)
<1>1. Gone \in VectorItems
  BY DEF VectorItems
<1>2. DOMAIN xs = 1 .. Len(xs) /\ Len(xs) \in Nat
  OBVIOUS
<1> QED
  BY <1>1, <1>2

(* The first k elements of g moved from: it still owns what it did.        *)
MayLose(s, g, k) == g # Absent /\ k # 0 => s.of[g] # Absent /\ s.of[g].at # Absent

LeftOf(s, r, g) == Beside(s, r, {g}) /\ \A i \in VectorNames : r.of[i] = s.of[i]

LEMMA ElementsMovedSound ==
  ASSUME NEW s, VectorsSound(s), NEW g \in VectorNames \cup {Absent}, NEW k \in Nat, MayLose(s, g, k)
  PROVE  LeftOf(s, ElementsMoved(s, g, k), g)
<1> DEFINE r == ElementsMoved(s, g, k)
           b == s.of[g].at
           m == s.heap[b]
           left(xs) == [i \in DOMAIN xs |-> IF i <= k THEN Gone ELSE xs[i]]
           xs == left(m.items)
           new == MemoryOf(m.by, m.room, xs)
<1>0. r = ElementsMoved(s, g, k)
  OBVIOUS
<1> HIDE DEF r
<1> SUFFICES LeftOf(s, r, g)
  BY DEF r
<1>1. s \in VectorStates
  BY DEF VectorsSound
<1>2. CASE g = Absent \/ k = 0
  BY <1>0, <1>2 DEF ElementsMoved, Beside, LeftOf
<1>3. CASE g # Absent /\ k # 0
  <2>1. g \in VectorNames /\ s.of[g] # Absent /\ OwnsIt(s.of, s.heap, s.lost, g) /\ b # Absent
    BY <1>3 DEF VectorsSound, Ownership, MayLose
  <2>2. b \in Blocks /\ m # Absent /\ m.by \in Allocators /\ m.room \in Nat /\ m.items \in Seq(VectorItems)
    BY <1>1, <2>1, StateHas DEF OwnsIt
  <2>4. xs \in Seq(VectorItems) /\ Len(xs) = Len(m.items)
    BY <2>2, ElementsLeft
  <2>5. r = [s EXCEPT !.heap[b] = new]
    BY <1>0, <1>3 DEF ElementsMoved, Refilled
  <2> HIDE DEF xs
  <2>6. new \in Memory /\ new.by = m.by /\ new.items = xs /\ new # Absent
    BY <2>2, <2>4, MemoryIs
  <2> HIDE DEF new, b
  <2>7. /\ r \in VectorStates /\ r.of = s.of /\ r.heap = [s.heap EXCEPT ![b] = new]
        /\ r.want = s.want /\ r.lost = s.lost /\ r.amiss = s.amiss
    BY <1>1, <2>2, <2>5, <2>6 DEF VectorStates
  <2>8. r.heap[b] = new /\ \A c \in Blocks \ {b} : r.heap[c] = s.heap[c]
    BY <1>1, <2>2, <2>7, StateHas
  <2>9. ASSUME NEW i \in VectorNames, s.of[i] # Absent
        PROVE  OwnsIt(r.of, r.heap, r.lost, i) /\ (i # g => Shows(r, i) = Shows(s, i))
    <3>1. OwnsIt(s.of, s.heap, s.lost, i) /\ s.of[i].at \in Blocks \cup {Absent}
      BY <1>1, <2>9, StateHas DEF VectorsSound, Ownership
    <3>2. HasBlock(s.of, g, b)
      BY <2>1 DEF HasBlock, b
    <3>3. i # g => s.of[i].at # b
      <4>1. HasBlock(s.of, i, b) /\ HasBlock(s.of, g, b) => i = g
        BY <2>1, <2>2 DEF VectorsSound, Ownership
      <4> QED
        BY <2>9, <3>2, <4>1 DEF HasBlock
    <3> QED
      BY <2>4, <2>6, <2>7, <2>8, <3>1, <3>3 DEF OwnsIt, Shows
  <2>10. \A c \in Blocks : r.heap[c] # Absent => s.heap[c] # Absent
    BY <2>2, <2>8
  <2>11. VectorsSound(r)
    <3>1. \A i, j \in VectorNames, c \in Blocks : HasBlock(r.of, i, c) /\ HasBlock(r.of, j, c) => i = j
      BY <2>7 DEF VectorsSound, Ownership
    <3>2. \A c \in Blocks \ r.lost : r.heap[c] # Absent => \E i \in VectorNames : HasBlock(r.of, i, c)
      BY <2>7, <2>10 DEF VectorsSound, Ownership
    <3>3. ~ r.amiss
      BY <2>7 DEF VectorsSound
    <3>4. \A c \in r.lost : r.heap[c] # Absent
      BY <1>1, <2>6, <2>7, <2>8, StateHas DEF VectorsSound, Ownership
    <3> QED
      BY <2>7, <2>9, <3>1, <3>2, <3>3, <3>4 DEF VectorsSound, Ownership
  <2> QED
    BY <2>7, <2>9, <2>11 DEF Beside, LeftOf
<1> QED
  BY <1>2, <1>3

(* One thing after the other.                                              *)
LEMMA BesideBoth ==
  ASSUME NEW s, NEW r, NEW q, NEW H, NEW K, Beside(s, r, H), Beside(r, q, K)
  PROVE  Beside(s, q, H \cup K)
  BY DEF Beside

LEMMA BesideMore ==
  ASSUME NEW s, NEW r, NEW H, NEW K, H \subseteq K, Beside(s, r, H)
  PROVE  Beside(s, r, K)
  BY DEF Beside

(* Vectors that are made, lost, or handed from one to the other, when no   *)
(* block changes: f is who owned before what one owns now.                 *)
LEMMA RenamedSound ==
  ASSUME NEW s, VectorsSound(s), NEW H, NEW r \in VectorStates, r.heap = s.heap, r.lost = s.lost, r.amiss = s.amiss,
         \A i \in VectorNames \ H : r.of[i] = s.of[i],
         \A i \in H \cap VectorNames : r.of[i] # Absent => OwnsIt(r.of, r.heap, r.lost, i),
         NEW f \in [VectorNames -> VectorNames], \A i \in VectorNames : f[f[i]] = i,
         \A i \in VectorNames, b \in Blocks : HasBlock(r.of, i, b) <=> HasBlock(s.of, f[i], b)
  PROVE  VectorsSound(r) /\ (r.want = s.want => Beside(s, r, H))
<1>1. ASSUME NEW i \in VectorNames \ H, s.of[i] # Absent
      PROVE  OwnsIt(r.of, r.heap, r.lost, i) /\ Shows(r, i) = Shows(s, i)
  <2>1. OwnsIt(s.of, s.heap, s.lost, i)
    BY <1>1 DEF VectorsSound, Ownership
  <2> QED
    BY <2>1 DEF OwnsIt, Shows
<1>2. ASSUME NEW i \in VectorNames, NEW j \in VectorNames, NEW b \in Blocks, HasBlock(r.of, i, b), HasBlock(r.of, j, b)
      PROVE  i = j
  <2>1. f[i] \in VectorNames /\ f[j] \in VectorNames /\ HasBlock(s.of, f[i], b) /\ HasBlock(s.of, f[j], b)
    BY <1>2
  <2>2. f[i] = f[j]
    BY <2>1 DEF VectorsSound, Ownership
  <2> QED
    BY <2>2
<1>3. ASSUME NEW b \in Blocks \ r.lost, r.heap[b] # Absent
      PROVE  \E i \in VectorNames : HasBlock(r.of, i, b)
  <2>1. PICK i \in VectorNames : HasBlock(s.of, i, b)
    BY <1>3 DEF VectorsSound, Ownership
  <2>2. f[i] \in VectorNames /\ f[f[i]] = i /\ b \in Blocks
    OBVIOUS
  <2> QED
    BY <2>1, <2>2
<1>4. \A i \in VectorNames : r.of[i] # Absent => OwnsIt(r.of, r.heap, r.lost, i)
  BY <1>1
<1>5. (\A b \in r.lost : r.heap[b] # Absent) /\ ~ r.amiss
  BY DEF VectorsSound, Ownership
<1>6. VectorsSound(r)
  BY <1>2, <1>3, <1>4, <1>5 DEF VectorsSound, Ownership
<1> QED
  BY <1>1, <1>6 DEF Beside

(* A new vector without memory.                                            *)
New(s, h, a) == [s EXCEPT !.of[h] = NoMemory(a)]
Bare(r, h, a) == /\ VectorsSound(r) /\ r.of[h] # Absent /\ r.of[h].alloc = a /\ r.of[h].at = Absent
                 /\ Shows(r, h) = <<>>

LEMMA NewSound ==
  ASSUME NEW s, VectorsSound(s), NEW h \in VectorNames, s.of[h] = Absent, NEW a \in Allocators
  PROVE  Beside(s, New(s, h, a), {h}) /\ Bare(New(s, h, a), h, a)
<1> DEFINE r == New(s, h, a)
           x == NoMemory(a)
           f == [i \in VectorNames |-> i]
<1>1. x \in VectorRecords /\ x.alloc = a /\ x.at = Absent /\ x.end = 0 /\ x # Absent /\ s \in VectorStates
  BY NoMemoryIs DEF VectorsSound
<1> HIDE DEF x
<1>2. /\ r \in VectorStates /\ r.of = [s.of EXCEPT ![h] = x] /\ r.heap = s.heap
      /\ r.want = s.want /\ r.lost = s.lost /\ r.amiss = s.amiss
  BY <1>1 DEF VectorStates, x, New
<1> HIDE DEF r
<1>3. r.of[h] = x /\ \A i \in VectorNames \ {h} : r.of[i] = s.of[i]
  BY <1>1, <1>2, StateHas
<1>4. OwnsIt(r.of, r.heap, r.lost, h)
  BY <1>1, <1>3 DEF OwnsIt
<1>5. \A i \in VectorNames, b \in Blocks : HasBlock(r.of, i, b) <=> HasBlock(s.of, f[i], b)
  BY <1>1, <1>3, AbsentIs DEF HasBlock
<1>6. f \in [VectorNames -> VectorNames] /\ \A i \in VectorNames : f[f[i]] = i
  OBVIOUS
<1> HIDE DEF f
<1>7. Beside(s, r, {h})
  BY <1>2, <1>3, <1>4, <1>5, <1>6, RenamedSound
<1>8. Bare(r, h, a)
  BY <1>1, <1>2, <1>3, <1>7 DEF Shows, Bare, Beside
<1> QED
  BY <1>7, <1>8 DEF r

(* A vector without memory that gets another allocator.                    *)
LEMMA WithAllocSound ==
  ASSUME NEW s, VectorsSound(s), NEW h \in VectorNames, s.of[h] # Absent, s.of[h].at = Absent,
         NEW g \in VectorNames, s.of[g] # Absent
  PROVE  Beside(s, WithAlloc(s, h, g), {h}) /\ Bare(WithAlloc(s, h, g), h, s.of[g].alloc)
<1> DEFINE r == WithAlloc(s, h, g)
           x == Owning(s.of[g].alloc, s.of[h].at, s.of[h].end)
           f == [i \in VectorNames |-> i]
<1>1. /\ s \in VectorStates /\ s.of[g].alloc \in Allocators /\ s.of[h].end \in Nat /\ s.of[h].end = 0
      /\ s.of[h].at \in Blocks \cup {Absent}
  BY StateHas DEF VectorsSound, Ownership, OwnsIt
<1>2. x \in VectorRecords /\ x.alloc = s.of[g].alloc /\ x.at = Absent /\ x.end = 0 /\ x # Absent
  BY <1>1, OwningIs
<1>3. r = [s EXCEPT !.of[h] = x]
  BY DEF WithAlloc
<1> HIDE DEF x, r
<1>4. /\ r \in VectorStates /\ r.of = [s.of EXCEPT ![h] = x] /\ r.heap = s.heap
      /\ r.want = s.want /\ r.lost = s.lost /\ r.amiss = s.amiss
  BY <1>1, <1>2, <1>3 DEF VectorStates
<1>5. r.of[h] = x /\ \A i \in VectorNames \ {h} : r.of[i] = s.of[i]
  BY <1>1, <1>4, StateHas
<1>6. OwnsIt(r.of, r.heap, r.lost, h)
  BY <1>2, <1>5 DEF OwnsIt
<1>7. \A i \in VectorNames, b \in Blocks : HasBlock(r.of, i, b) <=> HasBlock(s.of, f[i], b)
  BY <1>2, <1>5, AbsentIs DEF HasBlock
<1>8. f \in [VectorNames -> VectorNames] /\ \A i \in VectorNames : f[f[i]] = i
  OBVIOUS
<1> HIDE DEF f
<1>9. Beside(s, r, {h})
  BY <1>4, <1>5, <1>6, <1>7, <1>8, RenamedSound
<1>10. Bare(r, h, s.of[g].alloc)
  BY <1>2, <1>4, <1>5, <1>9 DEF Shows, Bare, Beside
<1> QED
  BY <1>9, <1>10 DEF r

(* What g owned, owned by h.                                               *)
LEMMA StealSound ==
  ASSUME NEW s, VectorsSound(s), NEW h \in VectorNames, s.of[h] # Absent, s.of[h].at = Absent,
         NEW g \in VectorNames, g # h, s.of[g] # Absent, s.of[g].alloc = s.of[h].alloc
  PROVE  Beside(s, Steal(s, h, g), {h, g}) /\ Shows(Steal(s, h, g), h) = Shows(s, g)
<1> DEFINE r == Steal(s, h, g)
           x == Owning(s.of[h].alloc, s.of[g].at, s.of[g].end)
           y == NoMemory(s.of[g].alloc)
           f == [i \in VectorNames |-> IF i = h THEN g ELSE IF i = g THEN h ELSE i]
<1>1. /\ s \in VectorStates /\ s.of[h].alloc \in Allocators /\ s.of[g].end \in Nat
      /\ s.of[g].at \in Blocks \cup {Absent} /\ OwnsIt(s.of, s.heap, s.lost, g)
  BY StateHas DEF VectorsSound, Ownership
<1>2. x \in VectorRecords /\ x.alloc = s.of[g].alloc /\ x.at = s.of[g].at /\ x.end = s.of[g].end /\ x # Absent
  <2> DEFINE a == s.of[h].alloc
             b == s.of[g].at
             n == s.of[g].end
  <2>1. a \in Allocators /\ b \in Blocks \cup {Absent} /\ n \in Nat /\ x = Owning(a, b, n) /\ a = s.of[g].alloc
    BY <1>1
  <2> HIDE DEF a, b, n, x
  <2>2. x \in VectorRecords /\ x.alloc = a /\ x.at = b /\ x.end = n /\ x # Absent
    BY <2>1, OwningIs
  <2> QED
    BY <2>1, <2>2 DEF a, b, n
<1>3. y \in VectorRecords /\ y.at = Absent /\ y.end = 0 /\ y # Absent
  BY <1>1, NoMemoryIs
<1>4. r = [s EXCEPT !.of[h] = x, !.of[g] = y]
  BY <1>1, StateHas DEF Steal
<1> HIDE DEF x, y, r
<1>5. /\ r \in VectorStates /\ r.of = [s.of EXCEPT ![h] = x, ![g] = y] /\ r.heap = s.heap
      /\ r.want = s.want /\ r.lost = s.lost /\ r.amiss = s.amiss
  <2> DEFINE q == [s EXCEPT !.of[h] = x]
  <2>1. /\ q \in VectorStates /\ q.of = [s.of EXCEPT ![h] = x] /\ q.heap = s.heap
        /\ q.want = s.want /\ q.lost = s.lost /\ q.amiss = s.amiss
    BY <1>1, <1>2 DEF VectorStates
  <2>2. r = [q EXCEPT !.of[g] = y]
    BY <1>4
  <2> HIDE DEF q
  <2>3. /\ r \in VectorStates /\ r.of = [q.of EXCEPT ![g] = y] /\ r.heap = q.heap
        /\ r.want = q.want /\ r.lost = q.lost /\ r.amiss = q.amiss
    BY <1>3, <2>1, <2>2 DEF VectorStates
  <2> QED
    BY <2>1, <2>3
<1>6. r.of[h] = x /\ r.of[g] = y /\ \A i \in VectorNames \ {h, g} : r.of[i] = s.of[i]
  BY <1>1, <1>5, StateHas
<1>7. OwnsIt(r.of, r.heap, r.lost, h) /\ OwnsIt(r.of, r.heap, r.lost, g)
  BY <1>1, <1>2, <1>3, <1>5, <1>6 DEF OwnsIt
<1>8. f \in [VectorNames -> VectorNames] /\ f[h] = g /\ f[g] = h /\ \A i \in VectorNames \ {h, g} : f[i] = i
  OBVIOUS
<1> HIDE DEF f
<1>9. \A i \in VectorNames, b \in Blocks : HasBlock(r.of, i, b) <=> HasBlock(s.of, f[i], b)
  BY <1>2, <1>3, <1>6, <1>8, AbsentIs DEF HasBlock
<1>10. \A i \in VectorNames : f[f[i]] = i
  BY <1>8
<1>11. \A i \in {h, g} \cap VectorNames : r.of[i] # Absent => OwnsIt(r.of, r.heap, r.lost, i)
  BY <1>7
<1>12. Beside(s, r, {h, g})
  BY <1>5, <1>6, <1>8, <1>9, <1>10, <1>11, RenamedSound
<1>13. Shows(r, h) = Shows(s, g)
  BY <1>2, <1>5, <1>6 DEF Shows
<1> QED
  BY <1>12, <1>13 DEF r

(* What a constructor leaves when it throws.                               *)
LEMMA AbandonSound ==
  ASSUME NEW s, VectorsSound(s), NEW h \in VectorNames, s.of[h] # Absent, NEW r, r = Abandon(s, h)
  PROVE  Beside(s, r, {h}) /\ r.of[h] = Absent
<1> DEFINE b == s.of[h].at
           m == s.heap[b]
           new == MemoryOf(m.by, m.room, <<>>)
           f == [i \in VectorNames |-> i]
<1>1. s \in VectorStates /\ OwnsIt(s.of, s.heap, s.lost, h) /\ b \in Blocks \cup {Absent}
  BY StateHas DEF VectorsSound, Ownership
<1>2. CASE b = Absent
  <2>1. r = [s EXCEPT !.of[h] = Absent]
    BY <1>2 DEF Abandon
  <2>2. /\ r \in VectorStates /\ r.of = [s.of EXCEPT ![h] = Absent] /\ r.heap = s.heap
        /\ r.want = s.want /\ r.lost = s.lost /\ r.amiss = s.amiss
    BY <1>1, <2>1 DEF VectorStates
  <2>3. r.of[h] = Absent /\ \A i \in VectorNames \ {h} : r.of[i] = s.of[i]
    BY <1>1, <2>2, StateHas
  <2>4. \A i \in VectorNames, c \in Blocks : HasBlock(r.of, i, c) <=> HasBlock(s.of, f[i], c)
    BY <1>2, <2>3, AbsentIs DEF HasBlock
  <2>5. f \in [VectorNames -> VectorNames] /\ \A i \in VectorNames : f[f[i]] = i
    OBVIOUS
  <2> HIDE DEF f, b
  <2>6. Beside(s, r, {h})
    BY <2>2, <2>3, <2>4, <2>5, RenamedSound
  <2> QED
    BY <2>3, <2>6
<1>3. CASE b # Absent
  <2>1. b \in Blocks /\ m # Absent /\ m.by \in Allocators /\ m.room \in Nat
    BY <1>1, <1>3, StateHas DEF OwnsIt
  <2>2. <<>> \in Seq(VectorItems)
    OBVIOUS
  <2>3. new \in Memory /\ new # Absent
    <3> DEFINE none == <<>>
               a == m.by
               n == m.room
    <3>1. none \in Seq(VectorItems) /\ a \in Allocators /\ n \in Nat /\ new = MemoryOf(a, n, none)
      BY <2>1, <2>2
    <3> HIDE DEF none, a, n, new
    <3> QED
      BY <3>1, MemoryIs
  <2>4. r = [s EXCEPT !.of[h] = Absent, !.lost = @ \cup {b}, !.heap[b] = new]
    BY <1>3 DEF Abandon, Refilled
  <2>5. HasBlock(s.of, h, b)
    BY DEF HasBlock
  <2> HIDE DEF new, b
  <2>6. /\ r \in VectorStates /\ r.of = [s.of EXCEPT ![h] = Absent] /\ r.heap = [s.heap EXCEPT ![b] = new]
        /\ r.want = s.want /\ r.lost = s.lost \cup {b} /\ r.amiss = s.amiss
    <3> DEFINE q == [s EXCEPT !.of[h] = Absent]
               p == [q EXCEPT !.lost = @ \cup {b}]
    <3>1. /\ q \in VectorStates /\ q.of = [s.of EXCEPT ![h] = Absent] /\ q.heap = s.heap
          /\ q.want = s.want /\ q.lost = s.lost /\ q.amiss = s.amiss
      BY <1>1 DEF VectorStates
    <3>2. r = [p EXCEPT !.heap[b] = new]
      BY <2>4
    <3> HIDE DEF q
    <3>3. /\ p \in VectorStates /\ p.of = q.of /\ p.heap = q.heap
          /\ p.want = q.want /\ p.lost = q.lost \cup {b} /\ p.amiss = q.amiss
      BY <2>1, <3>1 DEF VectorStates
    <3> HIDE DEF p
    <3>4. /\ r \in VectorStates /\ r.of = p.of /\ r.heap = [p.heap EXCEPT ![b] = new]
          /\ r.want = p.want /\ r.lost = p.lost /\ r.amiss = p.amiss
      BY <2>1, <2>3, <3>2, <3>3 DEF VectorStates
    <3> QED
      BY <3>1, <3>3, <3>4
  <2>7. /\ r.of[h] = Absent /\ \A i \in VectorNames \ {h} : r.of[i] = s.of[i]
        /\ r.heap[b] = new /\ \A c \in Blocks \ {b} : r.heap[c] = s.heap[c]
    BY <1>1, <2>1, <2>6, StateHas
  <2>8. ASSUME NEW i \in VectorNames \ {h}, s.of[i] # Absent
        PROVE  OwnsIt(r.of, r.heap, r.lost, i) /\ Shows(r, i) = Shows(s, i)
    <3>1. OwnsIt(s.of, s.heap, s.lost, i) /\ s.of[i].at \in Blocks \cup {Absent}
      BY <1>1, <2>8, StateHas DEF VectorsSound, Ownership
    <3>2. HasBlock(s.of, i, b) /\ HasBlock(s.of, h, b) => i = h
      BY <2>1 DEF VectorsSound, Ownership
    <3>3. s.of[i].at # b
      BY <2>5, <2>8, <3>2 DEF HasBlock
    <3> QED
      BY <2>6, <2>7, <3>1, <3>3 DEF OwnsIt, Shows
  <2>9. \A i \in VectorNames, c \in Blocks : HasBlock(r.of, i, c) => HasBlock(s.of, i, c)
    BY <2>7 DEF HasBlock
  <2>10. ASSUME NEW c \in Blocks \ r.lost, r.heap[c] # Absent
         PROVE  \E i \in VectorNames : HasBlock(r.of, i, c)
    <3>1. c # b /\ c \in Blocks \ s.lost /\ s.heap[c] # Absent
      BY <2>6, <2>7, <2>10
    <3>2. PICK i \in VectorNames : HasBlock(s.of, i, c)
      BY <3>1 DEF VectorsSound, Ownership
    <3>3. i # h
      BY <3>1, <3>2 DEF HasBlock, b
    <3> QED
      BY <2>7, <3>2, <3>3 DEF HasBlock
  <2>11. \A c \in r.lost : r.heap[c] # Absent
    BY <1>1, <2>1, <2>3, <2>6, <2>7, StateHas DEF VectorsSound, Ownership
  <2>12. VectorsSound(r)
    BY <2>6, <2>7, <2>8, <2>9, <2>10, <2>11 DEF VectorsSound, Ownership
  <2> QED
    BY <2>6, <2>7, <2>8, <2>12 DEF Beside
<1> QED
  BY <1>2, <1>3

-------------------------------------------------------------------------------
(* Operations that may throw.                                              *)

(* What xs being put into h, moved from g, leads to.                       *)
FilledWith(s, o, h, g, xs) ==
  /\ Beside(s, o.s, {h, g}) /\ o.s.of[h] # Absent /\ o.threw \in BOOLEAN
  /\ ~ o.threw => Shows(o.s, h) = xs

(* h can have n elements put into it, g lose as many.                      *)
Movable(s, g, xs) == g # Absent /\ xs # <<>> => s.of[g] # Absent /\ s.of[g].at # Absent

LEMMA ReplacedSound ==
  ASSUME NEW s, VectorsSound(s), NEW h \in VectorNames, s.of[h] # Absent, NEW xs \in Seq(VectorItems),
         s.of[h].at # Absent \/ xs = <<>>, NEW g \in VectorNames \cup {Absent}, g # h, Movable(s, g, xs),
         NEW o \in Replaced(s, h, xs, g)
  PROVE  FilledWith(s, o, h, g, xs)
<1> DEFINE old == Shows(s, h)
           after(k) == SubSeq(xs, 1, k) \o (IF k = Len(xs) THEN <<>> ELSE SubSeq(old, k + 1, Len(old)))
<1>1. PICK k \in 0 .. Len(xs) :
        o = [s |-> ElementsMoved(Store(s, h, after(k)), g, k), threw |-> k < Len(xs)]
  <2>1. Len(xs) \in 0 .. Len(xs)
    OBVIOUS
  <2> QED
    BY <2>1 DEF Replaced
<1>2. old \in Seq(VectorItems) /\ Len(xs) \in Nat
  BY ShowsAll
<1> HIDE DEF old
<1>3. after(k) \in Seq(VectorItems) /\ (k = Len(xs) => after(k) = xs) /\ (xs = <<>> => after(k) = <<>>)
  <2>1. SubSeq(xs, 1, k) \in Seq(VectorItems) /\ (k = Len(xs) => SubSeq(xs, 1, k) = xs)
    BY <1>2
  <2>2. CASE k = Len(xs)
    BY <2>1, <2>2
  <2>3. CASE k # Len(xs)
    <3>1. SubSeq(old, k + 1, Len(old)) \in Seq(VectorItems)
      BY <1>2
    <3>2. after(k) = SubSeq(xs, 1, k) \o SubSeq(old, k + 1, Len(old))
      BY <2>3
    <3>3. xs # <<>>
      BY <1>2, <2>3
    <3> HIDE DEF after
    <3> QED
      <4> DEFINE u == SubSeq(xs, 1, k)
                 v == SubSeq(old, k + 1, Len(old))
      <4>1. u \in Seq(VectorItems) /\ v \in Seq(VectorItems) /\ after(k) = u \o v
        BY <2>1, <3>1, <3>2
      <4> HIDE DEF u, v
      <4>2. u \o v \in Seq(VectorItems)
        BY <4>1
      <4> QED
        BY <2>3, <3>3, <4>1, <4>2
  <2> QED
    BY <2>2, <2>3
<1> DEFINE ys == after(k)
           t == Store(s, h, ys)
           r == ElementsMoved(t, g, k)
<1>4. ys \in Seq(VectorItems) /\ (s.of[h].at # Absent \/ ys = <<>>) /\ (k = Len(xs) => ys = xs)
  BY <1>3
<1>5. o.s = r /\ o.threw \in BOOLEAN /\ (~ o.threw => k = Len(xs))
  <2> DEFINE threw == k < Len(xs)
  <2>1. o = [s |-> r, threw |-> threw]
    BY <1>1
  <2>2. threw \in BOOLEAN /\ (~ threw => k = Len(xs))
    BY <1>2
  <2> HIDE DEF threw, r
  <2>3. o.s = r /\ o.threw = threw
    BY <2>1
  <2> QED
    BY <2>2, <2>3
<1> HIDE DEF ys, after, t, r
<1>6. Beside(s, t, {h}) /\ t.of[h] # Absent /\ Shows(t, h) = ys
  BY <1>4, StoreSound DEF t, PutInto
<1>7. MayLose(t, g, k)
  BY <1>2, <1>6 DEF Beside, Movable, MayLose
<1>8. Beside(t, r, {g}) /\ \A i \in VectorNames : r.of[i] = t.of[i]
  <2>1. VectorsSound(t) /\ k \in Nat
    BY <1>2, <1>6 DEF Beside
  <2>2. LeftOf(t, r, g)
    BY <1>7, <2>1, ElementsMovedSound DEF r
  <2> QED
    BY <2>2 DEF LeftOf
<1>9. Beside(s, r, {h, g})
  <2>1. Beside(s, r, {h} \cup {g})
    BY <1>6, <1>8, BesideBoth
  <2>2. {h} \cup {g} = {h, g}
    OBVIOUS
  <2> QED
    BY <2>1, <2>2
<1>10. Shows(r, h) = ys /\ r.of[h] # Absent
  BY <1>6, <1>8 DEF Beside
<1> QED
  BY <1>4, <1>5, <1>9, <1>10 DEF FilledWith

LEMMA AssignToSound ==
  ASSUME NEW s, VectorsSound(s), NEW h \in VectorNames, s.of[h] # Absent, NEW xs \in Seq(VectorItems),
         NEW g \in VectorNames \cup {Absent}, g # h, Movable(s, g, xs), NEW o \in AssignTo(s, h, xs, g)
  PROVE  FilledWith(s, o, h, g, xs)
<1> DEFINE cleared == Vdeallocate(s, h)
           n == Grow(0, Len(xs))
           t == Vallocate(cleared, h, n)
<1>1. Len(xs) \in Nat /\ n \in Nat
  BY AbsentIs DEF Grow
<1>2. CASE Len(xs) <= Space(s, h)
  <2>1. s.of[h].at # Absent \/ xs = <<>>
    BY <1>1, <1>2 DEF Space
  <2>2. o \in Replaced(s, h, xs, g)
    BY <1>2 DEF AssignTo
  <2> QED
    BY <2>1, <2>2, ReplacedSound
<1>3. CASE ~ (Len(xs) <= Space(s, h))
  <2>1. \/ o = [s |-> cleared, threw |-> TRUE]
        \/ CanAllocate(cleared, Len(xs)) /\ o \in Replaced(t, h, xs, g)
    BY <1>3 DEF AssignTo
  <2> HIDE DEF cleared, t, n
  <2>2. Beside(s, cleared, {h}) /\ cleared.of[h] # Absent /\ cleared.of[h].at = Absent
    BY VdeallocateSound DEF cleared
  <2>3. Beside(s, cleared, {h, g})
    BY <2>2, BesideMore
  <2>4. CASE o = [s |-> cleared, threw |-> TRUE]
    BY <2>2, <2>3, <2>4 DEF FilledWith
  <2>5. CASE CanAllocate(cleared, Len(xs)) /\ o \in Replaced(t, h, xs, g)
    <3>1. Beside(cleared, t, {h}) /\ t.of[h] # Absent /\ t.of[h].at # Absent
      <4>1. VectorsSound(cleared) /\ Unused(cleared) # {}
        BY <2>2, <2>5 DEF Beside, CanAllocate
      <4> QED
        BY <1>1, <2>2, <4>1, VallocateSound DEF t
    <3>2. Movable(t, g, xs) /\ VectorsSound(t)
      BY <2>2, <3>1 DEF Movable, Beside
    <3>3. FilledWith(t, o, h, g, xs)
      BY <2>5, <3>1, <3>2, ReplacedSound
    <3>4. Beside(s, t, {h, g})
      <4>1. Beside(s, t, {h} \cup {h}) /\ {h} \cup {h} \subseteq {h, g}
        BY <2>2, <3>1, BesideBoth
      <4> QED
        BY <4>1, BesideMore
    <3>5. Beside(s, o.s, {h, g} \cup {h, g}) /\ {h, g} \cup {h, g} = {h, g}
      BY <3>3, <3>4, BesideBoth DEF FilledWith
    <3> QED
      BY <3>3, <3>5 DEF FilledWith
  <2> QED
    BY <2>1, <2>4, <2>5
<1> QED
  BY <1>2, <1>3

(* What the vectors should hold, said anew for h and no longer for g.      *)
LEMMA TakesInv ==
  ASSUME VectorsInv, NEW r, NEW h \in VectorNames, NEW g \in VectorNames \cup {Absent}, Beside(vs, r, {h, g}),
         NEW xs \in Seq(VectorItems) \cup {Unknown}, xs = Unknown \/ r.of[h] = Absent \/ Shows(r, h) = xs,
         vs' = Takes(r, h, xs, g)
  PROVE  VectorsInv'
<1> DEFINE want == [i \in VectorNames |-> IF i = h THEN xs ELSE IF i = g THEN Unknown ELSE r.want[i]]
           t == Takes(r, h, xs, g)
<1>1. r \in VectorStates /\ ~ r.amiss /\ Ownership(r.of, r.heap, r.lost) /\ r.want = vs.want
  BY DEF Beside, VectorsSound
<1>2. want \in [VectorNames -> Seq(VectorItems) \cup {Unknown}]
  BY <1>1, StateHas
<1>3. t = [r EXCEPT !.want = want]
  BY DEF Takes
<1> HIDE DEF want, t
<1>4. /\ t \in VectorStates /\ t.of = r.of /\ t.heap = r.heap /\ t.lost = r.lost /\ t.amiss = r.amiss
      /\ t.want = want
  BY <1>1, <1>2, <1>3 DEF VectorStates
<1>5. VectorsSound(t)
  BY <1>1, <1>4 DEF VectorsSound
<1>6. ASSUME NEW i \in VectorNames, t.of[i] # Absent, t.want[i] # Unknown PROVE Shows(t, i) = t.want[i]
  <2>1. Shows(t, i) = Shows(r, i)
    BY <1>4 DEF Shows
  <2>2. CASE i = h
    BY <1>4, <1>6, <2>1, <2>2 DEF want
  <2>3. CASE i # h
    <3>1. i # g /\ t.want[i] = vs.want[i]
      BY <1>1, <1>4, <1>6, <2>3 DEF want
    <3>2. i \in VectorNames \ {h, g}
      BY <2>3, <3>1
    <3>3. r.of[i] = vs.of[i] /\ Shows(r, i) = Shows(vs, i)
      BY <1>4, <1>6, <3>2 DEF Beside
    <3> QED
      BY <1>4, <1>6, <2>1, <3>1, <3>3 DEF VectorsInv
  <2> QED
    BY <2>2, <2>3
<1>7. vs' = t
  BY DEF t
<1> QED
  BY <1>5, <1>6, <1>7 DEF VectorsInv, Shows

(* To say anew what h should hold is to say nothing of the others.         *)
LEMMA WantsIsTakes ==
  ASSUME NEW s \in VectorStates, NEW h \in VectorNames, NEW xs
  PROVE  Wants(s, h, xs) = Takes(s, h, xs, Absent)
<1> DEFINE want == [i \in VectorNames |-> IF i = h THEN xs ELSE IF i = Absent THEN Unknown ELSE s.want[i]]
<1>1. [s.want EXCEPT ![h] = xs] = want
  BY StateHas, AbsentIs
<1> QED
  BY <1>1 DEF Wants, Takes

LEMMA WantsInv ==
  ASSUME VectorsInv, NEW r, NEW h \in VectorNames, Beside(vs, r, {h}),
         NEW xs \in Seq(VectorItems) \cup {Unknown}, xs = Unknown \/ r.of[h] = Absent \/ Shows(r, h) = xs,
         vs' = Wants(r, h, xs)
  PROVE  VectorsInv'
<1>1. r \in VectorStates
  BY DEF Beside, VectorsSound
<1>2. vs' = Takes(r, h, xs, Absent) /\ Absent \in VectorNames \cup {Absent}
  BY <1>1, WantsIsTakes
<1>3. Beside(vs, r, {h, Absent})
  BY BesideMore
<1> QED
  BY <1>2, <1>3, TakesInv

(* What may come of an operation on h, with elements from g, to hold xs.   *)
Comes(o, h, g, xs) ==
  /\ Beside(vs, o.s, {h, g}) /\ o.s.of[h] # Absent /\ o.threw \in BOOLEAN
  /\ ~ o.threw => xs = Unknown \/ Shows(o.s, h) = xs

LEMMA FilledComes ==
  ASSUME NEW s, NEW h, Beside(vs, s, {h}), NEW o, NEW g, NEW ys, FilledWith(s, o, h, g, ys),
         NEW xs, xs = Unknown \/ ys = xs
  PROVE  Comes(o, h, g, xs)
<1>1. Beside(vs, o.s, {h} \cup {h, g})
  BY BesideBoth DEF FilledWith
<1>2. {h} \cup {h, g} = {h, g}
  OBVIOUS
<1>3. Beside(vs, o.s, {h, g})
  BY <1>1, <1>2
<1> QED
  BY <1>3 DEF FilledWith, Comes

LEMMA BuiltInv ==
  ASSUME VectorsInv, NEW h \in VectorNames, NEW g \in VectorNames \cup {Absent},
         NEW xs \in Seq(VectorItems) \cup {Unknown}, NEW outcomes, \A o \in outcomes : Comes(o, h, g, xs),
         Built(h, outcomes, xs, g)
  PROVE  VectorsInv'
<1>1. PICK o \in outcomes :
        vs' = IF o.threw THEN Takes(Abandon(o.s, h), h, Unknown, g) ELSE Takes(o.s, h, xs, g)
  BY DEF Built
<1>2. Comes(o, h, g, xs)
  OBVIOUS
<1>3. CASE o.threw
  <2> DEFINE r == Abandon(o.s, h)
  <2>1. Beside(o.s, r, {h}) /\ r.of[h] = Absent
    BY <1>2, AbandonSound DEF Comes, Beside
  <2>2. vs' = Takes(r, h, Unknown, g)
    BY <1>1, <1>3
  <2> HIDE DEF r
  <2>3. Beside(vs, r, {h, g} \cup {h}) /\ {h, g} \cup {h} \subseteq {h, g}
    BY <1>2, <2>1, BesideBoth DEF Comes
  <2>4. Beside(vs, r, {h, g}) /\ Unknown \in Seq(VectorItems) \cup {Unknown}
    BY <2>3, BesideMore
  <2> QED
    BY <2>1, <2>2, <2>4, TakesInv
<1>4. CASE ~ o.threw
  <2>1. vs' = Takes(o.s, h, xs, g) /\ Beside(vs, o.s, {h, g}) /\ (xs = Unknown \/ Shows(o.s, h) = xs)
    BY <1>1, <1>2, <1>4 DEF Comes
  <2> QED
    BY <2>1, TakesInv
<1> QED
  BY <1>3, <1>4

LEMMA AssignedInv ==
  ASSUME VectorsInv, NEW h \in VectorNames, NEW g \in VectorNames \cup {Absent},
         NEW xs \in Seq(VectorItems) \cup {Unknown}, NEW outcomes, \A o \in outcomes : Comes(o, h, g, xs),
         Assigned(h, outcomes, xs, g)
  PROVE  VectorsInv'
<1>1. PICK o \in outcomes : vs' = Takes(o.s, h, IF o.threw THEN Unknown ELSE xs, g)
  BY DEF Assigned
<1> DEFINE ys == IF o.threw THEN Unknown ELSE xs
<1>2. Beside(vs, o.s, {h, g}) /\ (ys = Unknown \/ Shows(o.s, h) = ys) /\ ys \in Seq(VectorItems) \cup {Unknown}
  BY DEF Comes
<1>3. vs' = Takes(o.s, h, ys, g)
  BY <1>1
<1> HIDE DEF ys
<1> QED
  BY <1>2, <1>3, TakesInv

(* What a vector should hold, and what it does.                            *)
LEMMA InvHas ==
  ASSUME VectorsInv
  PROVE  /\ VectorsSound(vs) /\ vs \in VectorStates /\ \A H : Beside(vs, vs, H)
         /\ \A i \in VectorNames : vs.want[i] \in Seq(VectorItems) \cup {Unknown}
         /\ \A i \in VectorNames : vs.of[i] # Absent =>
              /\ vs.want[i] = Unknown \/ Shows(vs, i) = vs.want[i]
              /\ Shows(vs, i) \in Seq(VectorItems) /\ vs.of[i].alloc \in Allocators
              /\ Movable(vs, i, Shows(vs, i))
<1>1. VectorsSound(vs) /\ vs \in VectorStates
  BY DEF VectorsInv, VectorsSound
<1>2. ASSUME NEW i \in VectorNames, vs.of[i] # Absent
      PROVE  /\ vs.want[i] = Unknown \/ Shows(vs, i) = vs.want[i]
             /\ Shows(vs, i) \in Seq(VectorItems) /\ vs.of[i].alloc \in Allocators
             /\ Movable(vs, i, Shows(vs, i))
  <2>1. vs.want[i] = Unknown \/ Shows(vs, i) = vs.want[i]
    BY <1>2 DEF VectorsInv
  <2>2. Shows(vs, i) \in Seq(VectorItems) /\ vs.of[i].alloc \in Allocators
    BY <1>1, <1>2, ShowsAll, StateHas
  <2>3. Movable(vs, i, Shows(vs, i))
    BY <1>2 DEF Movable, Shows
  <2> QED
    BY <2>1, <2>2, <2>3
<1> QED
  BY <1>1, <1>2, StateHas DEF Beside

-------------------------------------------------------------------------------
(* Each operation keeps the invariant.                                     *)

LEMMA ConstructFilledInv ==
  ASSUME VectorsInv, NEW h \in VectorNames, NEW a \in Allocators, NEW xs \in Seq(VectorItems),
         ConstructFilled(h, a, xs)
  PROVE  VectorsInv'
<1> DEFINE s == New(vs, h, a)
           n == Len(xs)
           t == Vallocate(s, h, n)
<1>1. VectorsSound(vs) /\ vs.of[h] = Absent
  BY InvHas DEF ConstructFilled, Lives
<1>2. /\ Beside(vs, s, {h}) /\ s.of[h] # Absent /\ s.of[h].at = Absent /\ Shows(s, h) = <<>>
      /\ VectorsSound(s)
  BY <1>1, NewSound DEF Bare
<1>3. \/ xs = <<>> /\ vs' = Wants(s, h, xs)
      \/ CanAllocate(s, n) /\ Built(h, Replaced(t, h, xs, Absent), xs, Absent)
      \/ UNCHANGED vs
  BY DEF ConstructFilled, New
<1> HIDE DEF s, t
<1>4. CASE xs = <<>> /\ vs' = Wants(s, h, xs)
  BY <1>2, <1>4, WantsInv
<1>5. CASE CanAllocate(s, n) /\ Built(h, Replaced(t, h, xs, Absent), xs, Absent)
  <2>1. n \in Nat /\ Unused(s) # {} /\ t = Vallocate(s, h, n)
    BY <1>5 DEF CanAllocate, t
  <2> HIDE DEF n
  <2>2. Beside(s, t, {h}) /\ t.of[h] # Absent /\ t.of[h].at # Absent
    BY <1>2, <2>1, VallocateSound DEF t
  <2>3. Beside(vs, t, {h}) /\ VectorsSound(t)
    <3>1. Beside(vs, t, {h} \cup {h}) /\ {h} \cup {h} = {h}
      BY <1>2, <2>2, BesideBoth
    <3> QED
      BY <3>1 DEF Beside
  <2>4. Absent \in VectorNames \cup {Absent} /\ Absent # h /\ Movable(t, Absent, xs)
    BY AbsentIs DEF Movable
  <2>5. ASSUME NEW o \in Replaced(t, h, xs, Absent) PROVE Comes(o, h, Absent, xs)
    <3>1. FilledWith(t, o, h, Absent, xs)
      BY <2>2, <2>3, <2>4, ReplacedSound
    <3> QED
      BY <2>3, <3>1, FilledComes
  <2> QED
    BY <1>5, <2>4, <2>5, BuiltInv
<1>6. CASE UNCHANGED vs
  BY <1>6 DEF VectorsInv, Shows
<1> QED
  BY <1>3, <1>4, <1>5, <1>6

LEMMA CopyConstructInv ==
  ASSUME VectorsInv, NEW h \in VectorNames, NEW g \in VectorNames, NEW a \in Allocators,
         CopyConstructVector(h, g, a)
  PROVE  VectorsInv'
<1>1. Shows(vs, g) \in Seq(VectorItems) /\ ConstructFilled(h, a, Shows(vs, g))
  BY InvHas DEF CopyConstructVector, Lives
<1> QED
  BY <1>1, ConstructFilledInv

LEMMA MoveConstructInv ==
  ASSUME VectorsInv, NEW h \in VectorNames, NEW g \in VectorNames, NEW a \in Allocators, a = vs.of[g].alloc,
         vs.of[h] = Absent, vs.of[g] # Absent,
         vs' = Takes(Steal(New(vs, h, a), h, g), h, vs.want[g], g)
  PROVE  VectorsInv'
<1> DEFINE s == New(vs, h, a)
<1>7. VectorsSound(vs) /\ g # h
  BY InvHas
<1>1. /\ Beside(vs, s, {h}) /\ s.of[h] # Absent /\ s.of[h].alloc = a /\ s.of[h].at = Absent
      /\ VectorsSound(s) /\ g # h
  <2>1. Beside(vs, s, {h}) /\ Bare(s, h, a)
    BY <1>7, NewSound
  <2> QED
    BY <1>7, <2>1 DEF Bare
<1> DEFINE r == Steal(s, h, g)
<1>6. vs' = Takes(r, h, vs.want[g], g)
  OBVIOUS
<1> HIDE DEF s
<1>2. s.of[g] = vs.of[g] /\ Shows(s, g) = Shows(vs, g)
  BY <1>1 DEF Beside
<1>3. Beside(s, r, {h, g}) /\ Shows(r, h) = Shows(s, g)
  BY <1>1, <1>2, StealSound
<1> HIDE DEF r
<1>4. Beside(vs, r, {h, g})
  <2>1. Beside(vs, r, {h} \cup {h, g}) /\ {h} \cup {h, g} = {h, g}
    BY <1>1, <1>3, BesideBoth
  <2> QED
    BY <2>1
<1>5. vs.want[g] \in Seq(VectorItems) \cup {Unknown} /\ (vs.want[g] = Unknown \/ Shows(r, h) = vs.want[g])
  BY <1>2, <1>3, InvHas
<1> QED
  BY <1>4, <1>5, <1>6, TakesInv

LEMMA MoveConstructWithInv ==
  ASSUME VectorsInv, NEW h \in VectorNames, NEW g \in VectorNames, NEW a \in Allocators,
         MoveConstructWith(h, g, a)
  PROVE  VectorsInv'
<1> DEFINE s == New(vs, h, a)
<1>1. vs.of[h] = Absent /\ vs.of[g] # Absent
  BY DEF MoveConstructWith, Lives
<1>2. CASE a = vs.of[g].alloc
  <2>1. vs' = Takes(Steal(s, h, g), h, vs.want[g], g)
    BY <1>2 DEF MoveConstructWith, New
  <2> QED
    BY <1>1, <1>2, <2>1, MoveConstructInv
<1>3. CASE a # vs.of[g].alloc
  <2> DEFINE ys == Shows(vs, g)
             xs == vs.want[g]
  <2>1. Built(h, AssignTo(s, h, ys, g), xs, g)
    BY <1>3 DEF MoveConstructWith, New
  <2>2. /\ Beside(vs, s, {h}) /\ s.of[h] # Absent /\ VectorsSound(s) /\ g # h
    BY <1>1, InvHas, NewSound DEF Bare
  <2> HIDE DEF s
  <2>3. /\ ys \in Seq(VectorItems) /\ xs \in Seq(VectorItems) \cup {Unknown} /\ (xs = Unknown \/ ys = xs)
        /\ Movable(vs, g, ys)
    BY <1>1, InvHas
  <2> HIDE DEF ys, xs
  <2>4. Movable(s, g, ys)
    BY <2>2, <2>3 DEF Movable, Beside
  <2>5. ASSUME NEW o \in AssignTo(s, h, ys, g) PROVE Comes(o, h, g, xs)
    <3>1. FilledWith(s, o, h, g, ys)
      BY <2>2, <2>3, <2>4, AssignToSound
    <3> QED
      BY <2>2, <2>3, <3>1, FilledComes
  <2> QED
    BY <2>1, <2>3, <2>5, BuiltInv
<1> QED
  BY <1>2, <1>3

(* What a vector is assigned, when the elements are.                       *)
LEMMA AssignFromInv ==
  ASSUME VectorsInv, NEW h \in VectorNames, NEW g \in VectorNames, h # g, vs.of[g] # Absent,
         NEW s, Beside(vs, s, {h}), s.of[h] # Absent, NEW from \in {g, Absent},
         Assigned(h, AssignTo(s, h, Shows(vs, g), from), vs.want[g], from)
  PROVE  VectorsInv'
<1> DEFINE ys == Shows(vs, g)
           xs == vs.want[g]
<1>1. /\ ys \in Seq(VectorItems) /\ xs \in Seq(VectorItems) \cup {Unknown} /\ (xs = Unknown \/ ys = xs)
      /\ Movable(vs, g, ys)
  BY InvHas
<1>2. Assigned(h, AssignTo(s, h, ys, from), xs, from)
  OBVIOUS
<1> HIDE DEF ys, xs
<1>3. Movable(s, from, ys) /\ VectorsSound(s) /\ from # h /\ from \in VectorNames \cup {Absent}
  BY <1>1, AbsentIs DEF Movable, Beside
<1>4. ASSUME NEW o \in AssignTo(s, h, ys, from) PROVE Comes(o, h, from, xs)
  <2>1. FilledWith(s, o, h, from, ys)
    BY <1>1, <1>3, AssignToSound
  <2> QED
    BY <1>1, <2>1, FilledComes
<1> QED
  BY <1>1, <1>2, <1>3, <1>4, AssignedInv

LEMMA CopyAssignInv ==
  ASSUME VectorsInv, NEW h \in VectorNames, NEW g \in VectorNames, CopyAssignVector(h, g)
  PROVE  VectorsInv'
<1>1. vs.of[h] # Absent /\ vs.of[g] # Absent
  BY DEF CopyAssignVector, Lives
<1>2. CASE h = g
  BY <1>2 DEF CopyAssignVector, VectorsInv, Shows
<1>3. CASE h # g
  <2> DEFINE s == CopyAssignAlloc(vs, h, g)
             t == Vdeallocate(vs, h)
  <2>1. Assigned(h, AssignTo(s, h, Shows(vs, g), Absent), vs.want[g], Absent)
    BY <1>3 DEF CopyAssignVector
  <2>2. s = vs \/ s = WithAlloc(t, h, g)
    BY DEF CopyAssignAlloc
  <2> HIDE DEF s
  <2>3. Beside(vs, t, {h}) /\ t.of[h] # Absent /\ t.of[h].at = Absent
    BY <1>1, InvHas, VdeallocateSound
  <2> HIDE DEF t
  <2>4. Beside(vs, s, {h}) /\ s.of[h] # Absent
    <3>1. CASE s = vs
      BY <1>1, <3>1, InvHas
    <3>2. CASE s = WithAlloc(t, h, g)
      <4>1. VectorsSound(t) /\ t.of[g] # Absent
        BY <1>1, <1>3, <2>3 DEF Beside
      <4>2. Beside(t, s, {h}) /\ s.of[h] # Absent
        BY <1>1, <2>3, <3>2, <4>1, WithAllocSound DEF Bare
      <4>3. Beside(vs, s, {h} \cup {h}) /\ {h} \cup {h} = {h}
        BY <2>3, <4>2, BesideBoth
      <4> QED
        BY <4>2, <4>3
    <3> QED
      BY <2>2, <3>1, <3>2
  <2> QED
    BY <1>1, <1>3, <2>1, <2>4, AssignFromInv
<1> QED
  BY <1>2, <1>3

(* Taking the memory, to itself gives it back.                             *)
LEMMA MoveAssignMemoryInv ==
  ASSUME VectorsInv, NEW h \in VectorNames, NEW g \in VectorNames, vs.of[h] # Absent, vs.of[g] # Absent,
         vs.move \/ vs.of[h].alloc = vs.of[g].alloc, MoveAssignMemory(h, g)
  PROVE  VectorsInv'
<1> DEFINE emptied == Vdeallocate(vs, h)
           moved == IF vs.move THEN WithAlloc(emptied, h, g) ELSE emptied
<1>1. /\ Beside(vs, emptied, {h}) /\ emptied.of[h] # Absent /\ emptied.of[h].alloc = vs.of[h].alloc
      /\ emptied.of[h].at = Absent /\ VectorsSound(emptied) /\ VectorsSound(vs)
  BY InvHas, VdeallocateSound DEF Beside
<1>2. vs' = IF h = g THEN Wants(moved, h, <<>>) ELSE Takes(Steal(moved, h, g), h, vs.want[g], g)
  BY DEF MoveAssignMemory
<1>3. moved = IF vs.move THEN WithAlloc(emptied, h, g) ELSE emptied
  OBVIOUS
<1> HIDE DEF emptied, moved
<1>4. emptied.of[g] # Absent /\ emptied.of[g].alloc = vs.of[g].alloc
  BY <1>1 DEF Beside
<1>5. Beside(vs, moved, {h}) /\ Bare(moved, h, vs.of[g].alloc)
  <2>1. CASE vs.move
    <3>1. moved = WithAlloc(emptied, h, g)
      BY <1>3, <2>1
    <3>2. Beside(emptied, moved, {h}) /\ Bare(moved, h, vs.of[g].alloc)
      BY <1>1, <1>4, <3>1, WithAllocSound
    <3>3. Beside(vs, moved, {h} \cup {h}) /\ {h} \cup {h} = {h}
      BY <1>1, <3>2, BesideBoth
    <3> QED
      BY <3>2, <3>3
  <2>2. CASE ~ vs.move
    <3>1. moved = emptied /\ vs.of[h].alloc = vs.of[g].alloc
      BY <1>3, <2>2
    <3> QED
      BY <1>1, <3>1 DEF Bare, Shows
  <2> QED
    BY <2>1, <2>2
<1>6. CASE h = g
  <2>1. vs' = Wants(moved, h, <<>>)
    BY <1>2, <1>6
  <2>2. Shows(moved, h) = <<>> /\ <<>> \in Seq(VectorItems) \cup {Unknown}
    BY <1>5 DEF Bare
  <2> QED
    BY <1>5, <2>1, <2>2, WantsInv
<1>7. CASE h # g
  <2> DEFINE r == Steal(moved, h, g)
             xs == vs.want[g]
  <2>1. vs' = Takes(r, h, xs, g)
    BY <1>2, <1>7
  <2>2. moved.of[g] = vs.of[g] /\ Shows(moved, g) = Shows(vs, g) /\ VectorsSound(moved)
    BY <1>5, <1>7 DEF Beside
  <2>3. Beside(moved, r, {h, g}) /\ Shows(r, h) = Shows(moved, g)
    BY <1>5, <1>7, <2>2, StealSound DEF Bare
  <2> HIDE DEF r
  <2>4. Beside(vs, r, {h} \cup {h, g}) /\ {h} \cup {h, g} = {h, g}
    BY <1>5, <2>3, BesideBoth
  <2>5. xs \in Seq(VectorItems) \cup {Unknown} /\ (xs = Unknown \/ Shows(r, h) = xs)
    BY <2>2, <2>3, InvHas
  <2> QED
    BY <2>1, <2>4, <2>5, TakesInv
<1> QED
  BY <1>6, <1>7

LEMMA MoveAssignInv ==
  ASSUME VectorsInv, NEW h \in VectorNames, NEW g \in VectorNames, MoveAssignVector(h, g)
  PROVE  VectorsInv'
<1>1. vs.of[h] # Absent /\ vs.of[g] # Absent
  BY DEF MoveAssignVector, Lives
<1>2. CASE vs.move \/ vs.of[h].alloc = vs.of[g].alloc
  <2>1. MoveAssignMemory(h, g)
    BY <1>2 DEF MoveAssignVector
  <2> QED
    BY <1>1, <1>2, <2>1, MoveAssignMemoryInv
<1>3. CASE ~ (vs.move \/ vs.of[h].alloc = vs.of[g].alloc)
  <2>1. Assigned(h, AssignTo(vs, h, Shows(vs, g), g), vs.want[g], g) /\ h # g
    BY <1>3 DEF MoveAssignVector
  <2>2. Beside(vs, vs, {h}) /\ g \in {g, Absent}
    BY InvHas
  <2> QED
    BY <1>1, <2>1, <2>2, AssignFromInv
<1> QED
  BY <1>2, <1>3

LEMMA SwapInv ==
  ASSUME VectorsInv, NEW h \in VectorNames, NEW g \in VectorNames, SwapVectors(h, g)
  PROVE  VectorsInv'
<1> DEFINE f == [i \in VectorNames |-> IF i = h THEN g ELSE IF i = g THEN h ELSE i]
           of == [vs.of EXCEPT ![h] = vs.of[g], ![g] = vs.of[h]]
           want == [vs.want EXCEPT ![h] = vs.want[g], ![g] = vs.want[h]]
           r == [vs EXCEPT !.of = of, !.want = want]
<1>1. vs \in VectorStates /\ VectorsSound(vs) /\ vs' = r /\ vs.of[h] # Absent /\ vs.of[g] # Absent
  BY InvHas DEF SwapVectors, Lives
<1>2. /\ vs.of \in [VectorNames -> VectorRecords \cup {Absent}]
      /\ vs.want \in [VectorNames -> Seq(VectorItems) \cup {Unknown}]
  BY <1>1, StateHas
<1>3. /\ of \in [VectorNames -> VectorRecords \cup {Absent}]
      /\ \A i \in VectorNames : of[i] = vs.of[f[i]]
  BY <1>2
<1>4. /\ want \in [VectorNames -> Seq(VectorItems) \cup {Unknown}]
      /\ \A i \in VectorNames : want[i] = vs.want[f[i]]
  BY <1>2
<1>5. f \in [VectorNames -> VectorNames] /\ \A i \in VectorNames : f[f[i]] = i /\ (i \notin {h, g} => f[i] = i)
  OBVIOUS
<1> HIDE DEF f, of, want
<1>6. /\ r \in VectorStates /\ r.of = of /\ r.want = want /\ r.heap = vs.heap /\ r.lost = vs.lost
      /\ r.amiss = vs.amiss
  BY <1>1, <1>3, <1>4 DEF VectorStates
<1> HIDE DEF r
<1>7. \A i \in VectorNames : r.of[i] = vs.of[f[i]]
  BY <1>3, <1>6
<1>8. \A i \in VectorNames \ {h, g} : r.of[i] = vs.of[i]
  BY <1>5, <1>7
<1>9. ASSUME NEW i \in {h, g} \cap VectorNames, r.of[i] # Absent PROVE OwnsIt(r.of, r.heap, r.lost, i)
  <2>1. f[i] \in VectorNames /\ OwnsIt(vs.of, vs.heap, vs.lost, f[i])
    BY <1>1, <1>5, <1>7, <1>9 DEF VectorsSound, Ownership
  <2> QED
    BY <1>6, <1>7, <2>1 DEF OwnsIt
<1>10. \A i \in VectorNames, b \in Blocks : HasBlock(r.of, i, b) <=> HasBlock(vs.of, f[i], b)
  BY <1>7 DEF HasBlock
<1>11. VectorsSound(r)
  BY <1>1, <1>5, <1>6, <1>8, <1>9, <1>10, RenamedSound
<1>12. ASSUME NEW i \in VectorNames, r.of[i] # Absent, r.want[i] # Unknown PROVE Shows(r, i) = r.want[i]
  <2>1. f[i] \in VectorNames /\ vs.of[f[i]] # Absent /\ vs.want[f[i]] # Unknown
    BY <1>4, <1>5, <1>6, <1>7, <1>12
  <2>2. Shows(vs, f[i]) = vs.want[f[i]]
    BY <2>1, InvHas
  <2>3. Shows(r, i) = Shows(vs, f[i])
    BY <1>6, <1>7 DEF Shows
  <2> QED
    BY <1>4, <1>6, <2>2, <2>3
<1> QED
  BY <1>1, <1>11, <1>12 DEF VectorsInv, Shows

LEMMA DestroyInv ==
  ASSUME VectorsInv, NEW h \in VectorNames, DestroyVector(h)
  PROVE  VectorsInv'
<1> DEFINE s == Vdeallocate(vs, h)
           r == Abandon(s, h)
<1>1. vs.of[h] # Absent /\ VectorsSound(vs) /\ vs' = [s EXCEPT !.of[h] = Absent, !.want[h] = Unknown]
  BY InvHas DEF DestroyVector, Lives
<1>2. Beside(vs, s, {h}) /\ s.of[h] # Absent /\ s.of[h].at = Absent /\ VectorsSound(s) /\ s \in VectorStates
  BY <1>1, VdeallocateSound DEF Beside, VectorsSound
<1> HIDE DEF s
<1>3. Beside(s, r, {h}) /\ r.of[h] = Absent
  BY <1>2, AbandonSound
<1>4. Beside(vs, r, {h})
  <2> HIDE DEF r
  <2>1. Beside(vs, r, {h} \cup {h}) /\ {h} \cup {h} = {h}
    BY <1>2, <1>3, BesideBoth
  <2> QED
    BY <2>1
<1>5. vs' = Wants(r, h, Unknown)
  <2>1. r = [s EXCEPT !.of[h] = Absent]
    BY <1>2 DEF Abandon
  <2>2. Wants(r, h, Unknown) = [s EXCEPT !.of[h] = Absent, !.want[h] = Unknown]
    BY <1>2, <2>1 DEF Wants, VectorStates
  <2> QED
    BY <1>1, <2>2
<1> HIDE DEF r
<1> QED
  BY <1>3, <1>4, <1>5, WantsInv

-------------------------------------------------------------------------------
(* What comes of reserve: the same elements, and room for n.               *)
Reserves(o, h, n) ==
  /\ Beside(vs, o.s, {h}) /\ o.s.of[h] # Absent /\ o.threw \in BOOLEAN
  /\ o.s.want = vs.want /\ Shows(o.s, h) = Shows(vs, h) /\ o.s.of[h].end = vs.of[h].end
  /\ o.threw => o.s = vs
  /\ ~ o.threw => o.s.of[h].at # Absent \/ n = 0

LEMMA ReservedSound ==
  ASSUME VectorsInv, NEW h \in VectorNames, vs.of[h] # Absent, NEW n \in Nat, NEW o \in Reserved(vs, h, n)
  PROVE  Reserves(o, h, n)
<1> DEFINE s == Vdeallocate(vs, h)
           t == Vallocate(s, h, n)
           xs == Shows(vs, h)
           moved == Store(t, h, xs)
<1>1. /\ xs \in Seq(VectorItems) /\ VectorsSound(vs) /\ vs \in VectorStates /\ Beside(vs, vs, {h})
  BY InvHas
<1>2. /\ Beside(vs, s, {h}) /\ s.of[h] # Absent /\ s.of[h].at = Absent /\ Unused(vs) \subseteq Unused(s)
      /\ VectorsSound(s)
  BY <1>1, VdeallocateSound DEF Beside
<1>3. \/ o = [s |-> vs, threw |-> FALSE] /\ n <= Space(vs, h)
      \/ o = [s |-> vs, threw |-> TRUE]
      \/ o = [s |-> moved, threw |-> FALSE] /\ CanAllocate(vs, n)
  BY DEF Reserved
<1> HIDE DEF xs, s, t, moved
<1>4. CASE o = [s |-> vs, threw |-> FALSE] /\ n <= Space(vs, h)
  <2>1. o.s = vs /\ o.threw = FALSE
    BY <1>4
  <2>2. vs.of[h].at # Absent \/ n = 0
    BY <1>4 DEF Space
  <2> QED
    BY <1>1, <2>1, <2>2 DEF Reserves
<1>5. CASE o = [s |-> vs, threw |-> TRUE]
  <2>1. o.s = vs /\ o.threw = TRUE
    BY <1>5
  <2> QED
    BY <1>1, <2>1 DEF Reserves
<1>6. CASE o = [s |-> moved, threw |-> FALSE] /\ CanAllocate(vs, n)
  <2>1. o.s = moved /\ o.threw = FALSE /\ Unused(s) # {}
    BY <1>2, <1>6 DEF CanAllocate
  <2>2. Beside(s, t, {h}) /\ t.of[h] # Absent /\ t.of[h].at # Absent /\ VectorsSound(t)
    BY <1>2, <2>1, VallocateSound DEF t, Beside
  <2>3. Beside(t, moved, {h}) /\ moved.of[h] # Absent /\ Shows(moved, h) = xs /\ moved.of[h].at = t.of[h].at
    BY <1>1, <2>2, StoreSound DEF moved, PutInto
  <2>4. Beside(vs, moved, {h})
    <3>1. Beside(s, moved, {h} \cup {h}) /\ {h} \cup {h} = {h}
      BY <2>2, <2>3, BesideBoth
    <3>2. Beside(vs, moved, {h} \cup {h})
      BY <1>2, <3>1, BesideBoth
    <3> QED
      BY <3>1, <3>2
  <2>5. moved.of[h].end = vs.of[h].end
    BY <1>1, <2>3, <2>4, ShowsAll DEF Beside, xs
  <2> QED
    BY <2>1, <2>2, <2>3, <2>4, <2>5 DEF Reserves, xs, Beside
<1> QED
  BY <1>3, <1>4, <1>5, <1>6

LEMMA OverwrittenInv ==
  ASSUME VectorsInv, NEW h \in VectorNames, NEW n, NEW o, Reserves(o, h, n), ~ o.threw,
         NEW xs \in Seq(VectorItems), xs = <<>> \/ n # 0, vs' = Overwritten(o.s, h, xs)
  PROVE  VectorsInv'
<1> DEFINE s == o.s
           ys == IF s.want[h] = Unknown THEN Unknown ELSE xs
<1>1. Beside(vs, s, {h}) /\ VectorsSound(s) /\ s.of[h] # Absent /\ (s.of[h].at # Absent \/ xs = <<>>)
  BY DEF Reserves, Beside
<1>6. vs' = Overwritten(s, h, xs)
  OBVIOUS
<1> HIDE DEF s
<1> DEFINE r == Store(s, h, xs)
<1>2. Beside(s, r, {h}) /\ r.of[h] # Absent /\ Shows(r, h) = xs
  <2>1. PutInto(s, r, h, xs)
    BY <1>1, StoreSound
  <2> QED
    BY <2>1 DEF PutInto
<1>3. ys \in Seq(VectorItems) \cup {Unknown} /\ (ys = Unknown \/ ys = xs)
  OBVIOUS
<1>4. vs' = Wants(r, h, ys)
  BY <1>6 DEF Overwritten
<1> HIDE DEF r, ys
<1>5. Beside(vs, r, {h} \cup {h}) /\ {h} \cup {h} = {h}
  BY <1>1, <1>2, BesideBoth
<1> QED
  BY <1>2, <1>3, <1>4, <1>5, WantsInv

LEMMA ResizeInv ==
  ASSUME VectorsInv, NEW h \in VectorNames, NEW n \in Nat, NEW r \in Nat, NEW x \in Elements,
         ResizeAndOverwrite(h, n, r, x)
  PROVE  VectorsInv'
<1>1. vs.of[h] # Absent /\ r <= n
  BY DEF ResizeAndOverwrite, Lives
<1> DEFINE kept(s) == IF r < Length(s, h) THEN r ELSE Length(s, h)
           left(s) == [i \in 1 .. r |-> IF i <= kept(s) THEN Shows(s, h)[i] ELSE x]
<1>2. PICK o \in Reserved(vs, h, n) :
        \/ o.threw /\ vs' = o.s
        \/ ~ o.threw /\ vs' = Overwritten(o.s, h, left(o.s))
        \/ ~ o.threw /\ vs' = [o.s EXCEPT !.followed = FALSE]
  BY DEF ResizeAndOverwrite
<1>3. Reserves(o, h, n)
  BY <1>1, ReservedSound
<1>4. CASE o.threw /\ vs' = o.s
  <2>1. vs' = vs
    BY <1>3, <1>4 DEF Reserves
  <2> QED
    BY <2>1 DEF VectorsInv, Shows
<1>5. CASE ~ o.threw /\ vs' = Overwritten(o.s, h, left(o.s))
  <2> DEFINE xs == left(o.s)
  <2>1. xs \in Seq(VectorItems) /\ (xs = <<>> \/ n # 0)
    <3> DEFINE k == kept(o.s)
               ys == Shows(vs, h)
    <3>1. ys \in Seq(VectorItems) /\ Shows(o.s, h) = ys /\ Length(o.s, h) = Len(ys)
      BY <1>1, <1>3, InvHas, ShowsAll DEF Reserves, Length
    <3>2. k \in Nat /\ k <= Len(ys)
      BY <3>1
    <3>3. xs = [i \in 1 .. r |-> IF i <= k THEN ys[i] ELSE x]
      BY <3>1
    <3>4. \A i \in 1 .. r : (IF i <= k THEN ys[i] ELSE x) \in VectorItems
      <4> HIDE DEF k, ys
      <4> QED
        BY <3>1, <3>2 DEF VectorItems
    <3> HIDE DEF xs, k, ys
    <3>5. xs \in [1 .. r -> VectorItems]
      BY <3>3, <3>4
    <3>6. xs \in Seq(VectorItems) /\ (r = 0 => xs = <<>>)
      BY <3>5
    <3> QED
      BY <1>1, <3>6
  <2>2. vs' = Overwritten(o.s, h, xs)
    BY <1>5
  <2> HIDE DEF xs
  <2> QED
    BY <1>3, <1>5, <2>1, <2>2, OverwrittenInv
<1>6. CASE ~ o.threw /\ vs' = [o.s EXCEPT !.followed = FALSE]
  <2> DEFINE s == o.s
  <2>1. Beside(vs, s, {h}) /\ s \in VectorStates /\ VectorsSound(s) /\ s.want = vs.want /\ Shows(s, h) = Shows(vs, h)
        /\ vs' = [s EXCEPT !.followed = FALSE]
    BY <1>3, <1>6 DEF Reserves, Beside, VectorsSound
  <2> HIDE DEF s
  <2>2. /\ vs' \in VectorStates /\ vs'.of = s.of /\ vs'.heap = s.heap /\ vs'.want = s.want
        /\ vs'.lost = s.lost /\ vs'.amiss = s.amiss
    BY <2>1 DEF VectorStates
  <2>3. VectorsSound(vs')
    BY <2>1, <2>2 DEF VectorsSound
  <2>4. \A i \in VectorNames : vs.of[i] # Absent => Shows(s, i) = Shows(vs, i)
    BY <2>1 DEF Beside
  <2>5. \A i \in VectorNames : s.of[i] # Absent => vs.of[i] # Absent
    BY <1>1, <2>1 DEF Beside
  <2> QED
    BY <2>1, <2>2, <2>3, <2>4, <2>5 DEF VectorsInv, Shows
<1> QED
  BY <1>2, <1>4, <1>5, <1>6

LEMMA Appended ==
  ASSUME NEW ys \in Seq(VectorItems), NEW zs \in Seq(VectorItems)
  PROVE  ys \o zs \in Seq(VectorItems) /\ Len(ys \o zs) = Len(ys) + Len(zs)
  OBVIOUS

LEMMA AppendInv ==
  ASSUME VectorsInv, NEW h \in VectorNames, NEW n \in Nat, NEW r \in Nat, NEW x \in Elements,
         AppendAndOverwrite(h, n, r, x)
  PROVE  VectorsInv'
<1>1. vs.of[h] # Absent /\ r <= n /\ VectorsSound(vs)
  BY InvHas DEF AppendAndOverwrite, Lives
<1> DEFINE m == Length(vs, h) + n
           all(s) == Shows(s, h) \o [i \in 1 .. r |-> x]
<1>2. m \in Nat /\ (m = 0 => r = 0 /\ vs.of[h].end = 0)
  BY <1>1, ShowsAll DEF Length
<1>3. PICK o \in Reserved(vs, h, m) :
        \/ o.threw /\ vs' = o.s
        \/ ~ o.threw /\ vs' = Overwritten(o.s, h, all(o.s))
  BY DEF AppendAndOverwrite
<1> HIDE DEF m
<1>4. Reserves(o, h, m)
  BY <1>1, <1>2, ReservedSound
<1>5. CASE o.threw /\ vs' = o.s
  <2>1. vs' = vs
    BY <1>4, <1>5 DEF Reserves
  <2> QED
    BY <2>1 DEF VectorsInv, Shows
<1>6. CASE ~ o.threw /\ vs' = Overwritten(o.s, h, all(o.s))
  <2> DEFINE xs == all(o.s)
             ys == Shows(vs, h)
             zs == [i \in 1 .. r |-> x]
  <2>1. ys \in Seq(VectorItems) /\ Len(ys) = vs.of[h].end /\ xs = ys \o zs /\ x \in VectorItems
    BY <1>1, <1>4, ShowsAll DEF Reserves, VectorItems
  <2>2. zs \in Seq(VectorItems) /\ Len(zs) = r
    BY <2>1
  <2>3. vs' = Overwritten(o.s, h, xs)
    BY <1>6
  <2> HIDE DEF xs, ys, zs
  <2>4. xs \in Seq(VectorItems) /\ Len(xs) = Len(ys) + r
    BY <2>1, <2>2, Appended
  <2>5. xs = <<>> \/ m # 0
    BY <1>2, <2>1, <2>4
  <2> QED
    BY <1>4, <1>6, <2>3, <2>4, <2>5, OverwrittenInv
<1> QED
  BY <1>3, <1>5, <1>6

(* What an input range is put into has room for some number of elements.   *)
LEMMA GrowIs ==
  ASSUME NEW c \in Nat, NEW n \in Nat
  PROVE  Grow(c, n) \in Nat
  BY AbsentIs DEF Grow

LEMMA GrownIs ==
  ASSUME NEW N \in Nat
  PROVE  LET grown[k \in 0 .. N] ==
               IF k = 0 THEN 0 ELSE IF grown[k - 1] >= k THEN grown[k - 1] ELSE Grow(grown[k - 1], k)
         IN \A k \in 0 .. N : grown[k] \in Nat
<1> DEFINE next(c, k) == IF c >= k THEN c ELSE Grow(c, k)
           F(f, n) == f = [k \in 0 .. n |-> IF k = 0 THEN 0 ELSE next(f[k - 1], k)]
           Bad == {n \in Nat : ~ \E f : F(f, n)}
<1>1. \E f : F(f, 0)
  <2> DEFINE f == [k \in 0 .. 0 |-> 0]
  <2> HIDE DEF next
  <2>1. F(f, 0)
    OBVIOUS
  <2> QED
    BY <2>1
<1>2. ASSUME NEW n \in Nat, NEW f, F(f, n) PROVE \E e : F(e, n + 1)
  <2> HIDE DEF next
  <2> DEFINE e == [k \in 0 .. n + 1 |-> IF k <= n THEN f[k] ELSE next(f[n], k)]
  <2>1. ASSUME NEW k \in 0 .. n + 1 PROVE e[k] = IF k = 0 THEN 0 ELSE next(e[k - 1], k)
    <3>1. CASE k = 0
      BY <1>2, <3>1
    <3>2. CASE k # 0 /\ k <= n
      <4>1. e[k] = f[k] /\ e[k - 1] = f[k - 1] /\ k \in 0 .. n
        BY <3>2
      <4>2. f[k] = next(f[k - 1], k)
        BY <1>2, <3>2, <4>1
      <4> QED
        BY <3>2, <4>1, <4>2
    <3>3. CASE k = n + 1
      <4>1. e[k] = next(f[n], k) /\ e[k - 1] = f[n]
        BY <3>3
      <4> QED
        BY <3>3, <4>1
    <3> QED
      BY <3>1, <3>2, <3>3
  <2>2. e = [k \in 0 .. n + 1 |-> e[k]]
    OBVIOUS
  <2> HIDE DEF e
  <2>3. [k \in 0 .. n + 1 |-> e[k]] = [k \in 0 .. n + 1 |-> IF k = 0 THEN 0 ELSE next(e[k - 1], k)]
    BY <2>1
  <2>4. F(e, n + 1)
    BY <2>2, <2>3
  <2> QED
    BY <2>4
<1>3. Bad = {}
  <2> HIDE DEF next, F
  <2> SUFFICES ASSUME Bad # {} PROVE FALSE
    OBVIOUS
  <2>1. PICK m \in Bad : \A k \in Bad : m <= k
    BY LeastBlock
  <2>2. m # 0
    BY <1>1
  <2>3. m - 1 \in Nat /\ m - 1 \notin Bad
    BY <2>1, <2>2
  <2>4. PICK f : F(f, m - 1)
    BY <2>3
  <2>5. \E e : F(e, m - 1 + 1)
    BY <1>2, <2>3, <2>4
  <2>6. m - 1 + 1 = m
    BY <2>1
  <2> QED
    BY <2>5, <2>6
<1>4. \E f : F(f, N)
  BY <1>3
<1> DEFINE g == CHOOSE f : F(f, N)
<1>5. F(g, N)
  <2> HIDE DEF F
  <2> QED
    BY <1>4
<1> HIDE DEF g
<1>6. \A k \in 0 .. N : g[k] \in Nat
  <2> DEFINE Wrong == {k \in 0 .. N : g[k] \notin Nat}
  <2> SUFFICES ASSUME Wrong # {} PROVE FALSE
    OBVIOUS
  <2>7. Wrong \in SUBSET Nat
    OBVIOUS
  <2>1. PICK m \in Wrong : \A k \in Wrong : m <= k
    <3> HIDE DEF Wrong
    <3> QED
      BY <2>7, LeastBlock
  <2>2. g[m] = IF m = 0 THEN 0 ELSE next(g[m - 1], m)
    <3> HIDE DEF next
    <3> QED
      BY <1>5
  <2>3. m # 0
    BY <2>2
  <2>4. m - 1 \in 0 .. N /\ m - 1 \notin Wrong /\ m \in Nat
    BY <2>1, <2>3
  <2>5. g[m - 1] \in Nat
    BY <2>4
  <2>6. next(g[m - 1], m) \in Nat
    BY <2>4, <2>5, GrowIs
  <2> QED
    BY <2>2, <2>3, <2>6
<1> QED
  BY <1>6 DEF g

(* Elements put into new memory.                                           *)
FreshlyPut(s, r, h, xs) == Beside(s, r, {h}) /\ r.of[h] # Absent /\ Shows(r, h) = xs

LEMMA PutSound ==
  ASSUME NEW s, VectorsSound(s), NEW h \in VectorNames, s.of[h] # Absent, s.of[h].at = Absent, Unused(s) # {},
         NEW n \in Nat, NEW xs \in Seq(VectorItems)
  PROVE  FreshlyPut(s, Store(Vallocate(s, h, n), h, xs), h, xs)
<1> DEFINE t == Vallocate(s, h, n)
           r == Store(t, h, xs)
<1>1. Beside(s, t, {h}) /\ t.of[h] # Absent /\ t.of[h].at # Absent
  BY VallocateSound
<1>2. r = Store(t, h, xs)
  OBVIOUS
<1> HIDE DEF t, r
<1>3. Beside(t, r, {h}) /\ r.of[h] # Absent /\ Shows(r, h) = xs
  <2>1. PutInto(t, r, h, xs)
    BY <1>1, StoreSound DEF Beside, r
  <2> QED
    BY <2>1 DEF PutInto
<1>4. Beside(s, r, {h} \cup {h}) /\ {h} \cup {h} = {h}
  BY <1>1, <1>3, BesideBoth
<1> QED
  BY <1>3, <1>4 DEF FreshlyPut, r, t

LEMMA ConstructInputInv ==
  ASSUME VectorsInv, NEW h \in VectorNames, NEW a \in Allocators, NEW xs \in Seq(VectorItems),
         ConstructInput(h, a, xs)
  PROVE  VectorsInv'
<1> DEFINE s == New(vs, h, a)
           n == Len(xs)
           grown[k \in 0 .. n] ==
             IF k = 0 THEN 0 ELSE IF grown[k - 1] >= k THEN grown[k - 1] ELSE Grow(grown[k - 1], k)
           taken(k) == IF k = 0 THEN s ELSE Store(Vallocate(s, h, grown[k]), h, SubSeq(xs, 1, k))
           outcomes == {[s |-> taken(k), threw |-> k < n] : k \in 0 .. n}
<1>1. \A k \in 0 .. n : grown[k] \in Nat
  BY GrownIs
<1>2. Built(h, outcomes, xs, Absent) /\ CanAllocate(s, n) /\ vs.of[h] = Absent
  BY DEF ConstructInput, New, Lives
<1> HIDE DEF grown
<1>3. Beside(vs, s, {h}) /\ Bare(s, h, a)
  BY <1>2, InvHas, NewSound
<1>4. VectorsSound(s) /\ s.of[h] # Absent /\ s.of[h].at = Absent /\ Shows(s, h) = <<>> /\ Unused(s) # {}
  BY <1>2, <1>3 DEF Bare, CanAllocate
<1> HIDE DEF s
<1>5. ASSUME NEW k \in 0 .. n
      PROVE  Beside(vs, taken(k), {h}) /\ taken(k).of[h] # Absent /\ Shows(taken(k), h) = SubSeq(xs, 1, k)
  <2>1. CASE k = 0
    BY <1>3, <1>4, <2>1
  <2>2. CASE k # 0
    <3> DEFINE c == grown[k]
               ys == SubSeq(xs, 1, k)
               r == Store(Vallocate(s, h, c), h, ys)
    <3>1. c \in Nat /\ ys \in Seq(VectorItems)
      BY <1>1
    <3>3. taken(k) = r
      BY <2>2
    <3> HIDE DEF c, ys, taken, outcomes, n
    <3>4. s.of[h].at = Absent /\ Unused(s) # {}
      BY <1>4
    <3>5. Beside(s, r, {h}) /\ r.of[h] # Absent /\ Shows(r, h) = ys
      <4>1. VectorsSound(s) /\ s.of[h] # Absent
        BY <1>4
      <4>2. FreshlyPut(s, r, h, ys)
        BY <3>1, <3>4, <4>1, PutSound
      <4> QED
        BY <4>2 DEF FreshlyPut
    <3> HIDE DEF r
    <3>6. {h} \cup {h} = {h}
      OBVIOUS
    <3>7. Beside(vs, r, {h} \cup {h})
      BY <1>3, <3>5, BesideBoth
    <3> QED
      BY <3>3, <3>5, <3>6, <3>7 DEF ys
  <2> QED
    BY <2>1, <2>2
<1>6. ASSUME NEW o \in outcomes PROVE Comes(o, h, Absent, xs)
  <2>1. PICK k \in 0 .. n : o = [s |-> taken(k), threw |-> k < n]
    OBVIOUS
  <2>2. Beside(vs, taken(k), {h, Absent})
    <3>1. Beside(vs, taken(k), {h})
      BY <1>5
    <3> HIDE DEF taken
    <3> QED
      BY <3>1, BesideMore
  <2>3. ~ (k < n) => Shows(taken(k), h) = xs
    <3>1. ~ (k < n) => SubSeq(xs, 1, k) = xs
      OBVIOUS
    <3> HIDE DEF taken, n
    <3> QED
      BY <1>5, <3>1
  <2> DEFINE t == taken(k)
             threw == k < n
  <2>4. o.s = t /\ o.threw = threw /\ threw \in BOOLEAN
    BY <2>1
  <2>5. t.of[h] # Absent /\ Beside(vs, t, {h, Absent}) /\ (~ threw => Shows(t, h) = xs)
    BY <1>5, <2>2, <2>3
  <2> HIDE DEF t, threw
  <2> QED
    BY <2>4, <2>5 DEF Comes
<1> HIDE DEF outcomes
<1> QED
  BY <1>2, <1>6, BuiltInv

-------------------------------------------------------------------------------
LEMMA VectorsBegin ==
  ASSUME VectorsInit
  PROVE  VectorsInv
<1> DEFINE of == [h \in VectorNames |-> Absent]
           heap == [b \in Blocks |-> Absent]
           want == [h \in VectorNames |-> Unknown]
<1>1. /\ of \in [VectorNames -> VectorRecords \cup {Absent}] /\ heap \in [Blocks -> Memory \cup {Absent}]
      /\ want \in [VectorNames -> Seq(VectorItems) \cup {Unknown}]
      /\ \A i \in VectorNames : of[i] = Absent /\ want[i] = Unknown
      /\ \A b \in Blocks : heap[b] = Absent
  OBVIOUS
<1>2. \E copy, move, swap, nothrow \in BOOLEAN :
        vs = [copy |-> copy, move |-> move, swap |-> swap, nothrow |-> nothrow,
              of |-> of, heap |-> heap, want |-> want, lost |-> {}, amiss |-> FALSE, followed |-> TRUE]
  BY DEF VectorsInit
<1> HIDE DEF of, heap, want
<1>3. /\ vs \in VectorStates /\ vs.of = of /\ vs.heap = heap /\ vs.want = want /\ vs.lost = {}
      /\ vs.amiss = FALSE
  BY <1>1, <1>2 DEF VectorStates
<1> QED
  BY <1>1, <1>3 DEF VectorsInv, VectorsSound, Ownership, HasBlock

LEMMA VectorsStep ==
  ASSUME VectorsInv, [VectorsNext]_vs
  PROVE  VectorsInv'
<1>1. CASE VectorsNext
  <2>1. PICK h \in VectorNames :
          \/ DestroyVector(h)
          \/ \E a \in Allocators, xs \in Lists : ConstructFilled(h, a, xs) \/ ConstructInput(h, a, xs)
          \/ \E g \in VectorNames :
               \/ MoveConstructVector(h, g) \/ CopyAssignVector(h, g)
               \/ MoveAssignVector(h, g) \/ SwapVectors(h, g)
               \/ \E a \in Allocators : CopyConstructVector(h, g, a) \/ MoveConstructWith(h, g, a)
          \/ \E n, r \in 0 .. Room, x \in Elements :
               ResizeAndOverwrite(h, n, r, x) \/ AppendAndOverwrite(h, n, r, x)
    BY <1>1 DEF VectorsNext
  <2>2. CASE DestroyVector(h)
    BY <2>2, DestroyInv
  <2>3. ASSUME NEW a \in Allocators, NEW xs \in Lists, ConstructFilled(h, a, xs) \/ ConstructInput(h, a, xs)
        PROVE  VectorsInv'
    <3>1. xs \in Seq(VectorItems)
      BY DEF Lists, VectorItems
    <3> QED
      BY <2>3, <3>1, ConstructFilledInv, ConstructInputInv
  <2>4. ASSUME NEW g \in VectorNames, MoveConstructVector(h, g) PROVE VectorsInv'
    <3> DEFINE a == vs.of[g].alloc
    <3>1. vs.of[h] = Absent /\ vs.of[g] # Absent /\ vs' = Takes(Steal(New(vs, h, a), h, g), h, vs.want[g], g)
      BY <2>4 DEF MoveConstructVector, Lives, New
    <3>2. a \in Allocators
      BY <3>1, InvHas
    <3> QED
      BY <3>1, <3>2, MoveConstructInv
  <2>5. ASSUME NEW g \in VectorNames, CopyAssignVector(h, g) \/ MoveAssignVector(h, g) \/ SwapVectors(h, g)
        PROVE  VectorsInv'
    BY <2>5, CopyAssignInv, MoveAssignInv, SwapInv
  <2>6. ASSUME NEW g \in VectorNames, NEW a \in Allocators, CopyConstructVector(h, g, a) \/ MoveConstructWith(h, g, a)
        PROVE  VectorsInv'
    BY <2>6, CopyConstructInv, MoveConstructWithInv
  <2>7. ASSUME NEW n \in 0 .. Room, NEW r \in 0 .. Room, NEW x \in Elements,
               ResizeAndOverwrite(h, n, r, x) \/ AppendAndOverwrite(h, n, r, x)
        PROVE  VectorsInv'
    <3>1. n \in Nat /\ r \in Nat
      OBVIOUS
    <3> QED
      BY <2>7, <3>1, ResizeInv, AppendInv
  <2> QED
    BY <2>1, <2>2, <2>3, <2>4, <2>5, <2>6, <2>7
<1>2. CASE UNCHANGED vs
  BY <1>2 DEF VectorsInv, Shows
<1> QED
  BY <1>1, <1>2

LEMMA VectorsKeep ==
  ASSUME VectorsInv
  PROVE  VectorsOwn
<1>1. VectorsSound(vs) /\ ~ vs.amiss /\ Ownership(vs.of, vs.heap, vs.lost)
  BY DEF VectorsInv, VectorsSound
<1>2. ASSUME NEW b \in Blocks \ vs.lost
      PROVE  LET owners == {h \in VectorNames : Lives(h) /\ vs.of[h].at = b} IN
             /\ Cardinality(owners) = IF vs.heap[b] = Absent THEN 0 ELSE 1
             /\ \A h \in owners : vs.heap[b].by = vs.of[h].alloc /\ Len(vs.heap[b].items) = vs.of[h].end
  <2> DEFINE owners == {h \in VectorNames : Lives(h) /\ vs.of[h].at = b}
  <2>1. ASSUME NEW h \in owners
        PROVE  /\ vs.heap[b] # Absent /\ vs.heap[b].by = vs.of[h].alloc /\ Len(vs.heap[b].items) = vs.of[h].end
               /\ HasBlock(vs.of, h, b) /\ h \in VectorNames
    <3>1. vs.of[h] # Absent /\ vs.of[h].at = b /\ b # Absent
      BY AbsentIs DEF Lives
    <3>2. OwnsIt(vs.of, vs.heap, vs.lost, h)
      BY <1>1, <3>1 DEF Ownership
    <3> QED
      BY <3>1, <3>2 DEF OwnsIt, HasBlock
  <2>2. CASE vs.heap[b] = Absent
    <3>1. owners = {}
      BY <2>1, <2>2
    <3> QED
      BY <2>2, <3>1, FS_EmptySet
  <2>3. CASE vs.heap[b] # Absent
    <3>1. PICK h \in VectorNames : HasBlock(vs.of, h, b)
      BY <1>1, <2>3 DEF Ownership
    <3>2. h \in owners
      BY <3>1 DEF HasBlock, Lives
    <3>3. \A i \in owners : i = h
      BY <1>1, <2>1, <3>1 DEF Ownership
    <3>4. owners = {h}
      BY <3>2, <3>3
    <3>5. Cardinality(owners) = 1
      BY <3>4, FS_Singleton
    <3> QED
      BY <2>1, <2>3, <3>5
  <2> QED
    BY <2>2, <2>3
<1>3. \A h \in VectorNames : Lives(h) /\ vs.want[h] # Unknown => Shows(vs, h) = vs.want[h]
  BY DEF VectorsInv, Lives
<1> QED
  BY <1>1, <1>2, <1>3 DEF VectorsOwn

-------------------------------------------------------------------------------
(* Split buffers.                                                          *)

(* What elements and slots are, and buffers.                               *)
SplitValues == Int \cup {Hollow}
SlotValues == SplitValues \cup {Raw}
SplitBuffers ==
  [alloc : SplitAllocators, from : SplitAllocators, slots : Seq(SlotValues), begin : Nat, end : Nat, slid : BOOLEAN]

(* Elements are from begin_ to end_, and unless they have been slid the    *)
(* other slots are raw.                                                    *)
FitSlots(slots, begin, end, slid) ==
  /\ begin <= end /\ end <= Len(slots)
  /\ \A p \in 1 .. Len(slots) : (begin < p /\ p <= end => slots[p] # Raw)
  /\ \A p \in 1 .. Len(slots) : ((p <= begin \/ end < p) /\ ~ slid => slots[p] = Raw)
FitBuffer(b) == b \in SplitBuffers /\ FitSlots(b.slots, b.begin, b.end, b.slid)
GoodBuffer(b) == FitBuffer(b) /\ (b.from = b.alloc \/ Len(b.slots) = 0)

(* Sequences with the same elements.                                       *)
LEMMA SeqSame ==
  ASSUME NEW S, NEW xs \in Seq(S), NEW ys \in Seq(S), Len(xs) = Len(ys), \A i \in 1 .. Len(xs) : xs[i] = ys[i]
  PROVE  xs = ys
  OBVIOUS

LEMMA SubSeqIs ==
  ASSUME NEW S, NEW xs \in Seq(S), NEW m \in Nat, NEW n \in Nat, m <= n, n <= Len(xs)
  PROVE  /\ SubSeq(xs, m + 1, n) \in Seq(S) /\ Len(SubSeq(xs, m + 1, n)) = n - m
         /\ \A i \in 1 .. n - m : SubSeq(xs, m + 1, n)[i] = xs[m + i]
  OBVIOUS

LEMMA MaxTwo ==
  ASSUME NEW m \in Int, NEW n \in Int
  PROVE  Max({m, n}) \in {m, n} /\ Max({m, n}) >= m /\ Max({m, n}) >= n
<1>1. \E x \in {m, n} : \A y \in {m, n} : x >= y
  <2>1. CASE m >= n
    BY <2>1
  <2>2. CASE n >= m
    BY <2>2
  <2> QED
    BY <2>1, <2>2
<1> QED
  BY <1>1 DEF Max

(* A buffer by its fields.                                                 *)
LEMMA BufferHas ==
  ASSUME NEW b \in SplitBuffers
  PROVE  /\ b.alloc \in SplitAllocators /\ b.from \in SplitAllocators /\ b.slots \in Seq(SlotValues)
         /\ b.begin \in Nat /\ b.end \in Nat /\ b.slid \in BOOLEAN
         /\ capacity(b) = Len(b.slots) /\ FrontSpare(b) = b.begin /\ BackSpare(b) = Len(b.slots) - b.end
         /\ sizeOf(b) = b.end - b.begin
  BY DEF SplitBuffers, capacity, FrontSpare, BackSpare, sizeOf

(* Its elements are in its slots.                                          *)
LEMMA ContentsAre ==
  ASSUME NEW b, FitBuffer(b)
  PROVE  /\ contents(b) \in Seq(SplitValues) /\ Len(contents(b)) = b.end - b.begin
         /\ \A i \in 1 .. b.end - b.begin : contents(b)[i] = b.slots[b.begin + i] /\ b.begin + i \in 1 .. Len(b.slots)
<1> DEFINE xs == b.slots
           m == b.begin
           n == b.end
           ys == SubSeq(xs, m + 1, n)
<1>1. xs \in Seq(SlotValues) /\ m \in Nat /\ n \in Nat /\ m <= n /\ n <= Len(xs) /\ contents(b) = ys
  BY BufferHas DEF FitBuffer, FitSlots, contents
<1>2. \A p \in 1 .. Len(xs) : m < p /\ p <= n => xs[p] # Raw
  BY DEF FitBuffer, FitSlots
<1> HIDE DEF xs, m, n
<1>3. ys \in Seq(SlotValues) /\ Len(ys) = n - m /\ \A i \in 1 .. n - m : ys[i] = xs[m + i]
  BY <1>1, SubSeqIs
<1> HIDE DEF ys
<1>4. \A i \in 1 .. n - m : m + i \in 1 .. Len(xs) /\ ys[i] \in SplitValues
  <2> SUFFICES ASSUME NEW i \in 1 .. n - m PROVE m + i \in 1 .. Len(xs) /\ ys[i] \in SplitValues
    OBVIOUS
  <2>1. m + i \in 1 .. Len(xs) /\ m < m + i /\ m + i <= n
    BY <1>1
  <2>2. ys[i] = xs[m + i] /\ xs[m + i] # Raw /\ ys[i] \in SlotValues
    BY <1>1, <1>2, <1>3, <2>1
  <2> QED
    BY <2>1, <2>2 DEF SlotValues
<1>5. ys \in Seq(SplitValues)
  <2>1. ys \in [1 .. n - m -> SplitValues] /\ n - m \in Nat
    BY <1>1, <1>3, <1>4
  <2> QED
    BY <2>1
<1> QED
  BY <1>1, <1>3, <1>4, <1>5 DEF xs, m, n

(* Two buffers with the same elements.                                     *)
LEMMA ContentsFrom ==
  ASSUME NEW b, FitBuffer(b), NEW xs \in Seq(SplitValues), Len(xs) = b.end - b.begin,
         \A i \in 1 .. Len(xs) : xs[i] = b.slots[b.begin + i]
  PROVE  contents(b) = xs
<1> DEFINE ys == contents(b)
<1>1. ys \in Seq(SplitValues) /\ Len(ys) = Len(xs) /\ \A i \in 1 .. Len(ys) : ys[i] = xs[i]
  BY ContentsAre
<1> HIDE DEF ys
<1> QED
  BY <1>1, SeqSame DEF ys

-------------------------------------------------------------------------------
(* What comes of the parts of operations: good buffers, with elements xs.  *)
KeepsElements(b, xs) == GoodBuffer(b) /\ contents(b) = xs

NewLike(b, alloc, cap, start) ==
  /\ KeepsElements(b, <<>>) /\ b.alloc = alloc /\ b.from = alloc /\ Len(b.slots) = cap /\ b.begin = start /\ b.end = start
LEMMA NewIs ==
  ASSUME NEW alloc \in SplitAllocators, NEW cap \in Nat, NEW start \in Nat, start <= cap
  PROVE  NewLike(NewBuffer(alloc, cap, start), alloc, cap, start)
<1> DEFINE r == NewBuffer(alloc, cap, start)
           slots == [p \in 1 .. cap |-> Raw]
<1>1. slots \in Seq(SlotValues) /\ Len(slots) = cap /\ \A p \in 1 .. cap : slots[p] = Raw
  BY DEF SlotValues
<1>2. r = [alloc |-> alloc, from |-> alloc, slots |-> slots, begin |-> start, end |-> start, slid |-> FALSE]
  BY DEF NewBuffer
<1> HIDE DEF slots, r
<1>3. /\ r \in SplitBuffers /\ r.alloc = alloc /\ r.from = alloc /\ r.slots = slots /\ r.begin = start
      /\ r.end = start
  BY <1>1, <1>2 DEF SplitBuffers
<1>4. FitBuffer(r)
  BY <1>1, <1>3 DEF FitBuffer, FitSlots
<1>5. contents(r) = <<>>
  <2>1. Len(contents(r)) = 0 /\ contents(r) \in Seq(SplitValues)
    BY <1>3, <1>4, ContentsAre
  <2> QED
    BY <2>1
<1> QED
  BY <1>1, <1>3, <1>4, <1>5 DEF NewLike, KeepsElements, GoodBuffer, r

(* A buffer whose slots, ends or allocator are other ones.                 *)
Alike(b, r) == r \in SplitBuffers /\ r.alloc = b.alloc /\ r.from = b.from /\ Len(r.slots) = Len(b.slots)

SlotsFilled(slots, e, xs) == [p \in DOMAIN slots |-> IF p \in (e + 1) .. (e + Len(xs)) THEN xs[p - e] ELSE slots[p]]
LEMMA SlotsFilledIs ==
  ASSUME NEW slots \in Seq(SlotValues), NEW e \in Nat, NEW xs \in Seq(SplitValues)
  PROVE  /\ SlotsFilled(slots, e, xs) \in Seq(SlotValues) /\ Len(SlotsFilled(slots, e, xs)) = Len(slots)
         /\ \A p \in 1 .. Len(slots) :
              SlotsFilled(slots, e, xs)[p] = IF e < p /\ p <= e + Len(xs) THEN xs[p - e] ELSE slots[p]
<1> DEFINE n == Len(slots)
           k == Len(xs)
           f == SlotsFilled(slots, e, xs)
<1>1. n \in Nat /\ k \in Nat /\ DOMAIN slots = 1 .. n /\ \A p \in 1 .. n : slots[p] \in SlotValues
  OBVIOUS
<1>2. \A p \in 1 .. k : xs[p] \in SlotValues
  BY DEF SlotValues
<1>3. f = [p \in 1 .. n |-> IF e < p /\ p <= e + k THEN xs[p - e] ELSE slots[p]]
  BY <1>1 DEF SlotsFilled
<1> HIDE DEF f, n, k
<1>4. f \in [1 .. n -> SlotValues]
  BY <1>1, <1>2, <1>3
<1>5. f \in Seq(SlotValues) /\ Len(f) = n
  BY <1>1, <1>4
<1>6. \A p \in 1 .. n : f[p] = IF e < p /\ p <= e + k THEN xs[p - e] ELSE slots[p]
  BY <1>3
<1> QED
  BY <1>5, <1>6 DEF f, n, k

LEMMA ShiftedIn ==
  ASSUME NEW m \in Nat, NEW n \in Nat, m <= n, NEW k \in Nat, NEW size \in Nat, n + k <= size,
         NEW i \in 1 .. (n - m) + k, i > n - m
  PROVE  m + i \in 1 .. size /\ n < m + i /\ m + i <= n + k /\ (m + i) - n = i - (n - m)
  OBVIOUS

Longer(b, r, xs) == KeepsElements(r, contents(b) \o xs) /\ Alike(b, r) /\ r.begin = b.begin /\ r.end = b.end + Len(xs)
LEMMA ConstructAtEndIs ==
  ASSUME NEW b, GoodBuffer(b), NEW xs \in Seq(SplitValues), b.end + Len(xs) <= Len(b.slots)
  PROVE  Longer(b, ConstructAtEnd(b, xs), xs)
<1> DEFINE r == ConstructAtEnd(b, xs)
           slots == SlotsFilled(b.slots, b.end, xs)
           e == b.end + Len(xs)
<1>1. /\ b \in SplitBuffers /\ b.slots \in Seq(SlotValues) /\ b.begin \in Nat /\ b.end \in Nat /\ b.begin <= b.end
      /\ FitBuffer(b) /\ Len(xs) \in Nat
  BY BufferHas DEF GoodBuffer, FitBuffer, FitSlots
<1>2. /\ slots \in Seq(SlotValues) /\ Len(slots) = Len(b.slots)
      /\ \A p \in 1 .. Len(b.slots) : slots[p] = IF b.end < p /\ p <= b.end + Len(xs) THEN xs[p - b.end] ELSE b.slots[p]
  BY <1>1, SlotsFilledIs
<1>3. r = [b EXCEPT !.end = e, !.slots = slots]
  BY <1>1 DEF ConstructAtEnd, SplitBuffers, SlotsFilled
<1>4. e \in Nat
  BY <1>1
<1> HIDE DEF r, slots, e
<1>5. /\ r \in SplitBuffers /\ r.alloc = b.alloc /\ r.from = b.from /\ r.slots = slots /\ r.begin = b.begin
      /\ r.end = e /\ r.slid = b.slid
  BY <1>1, <1>2, <1>3, <1>4 DEF SplitBuffers
<1>6. \A i \in 1 .. Len(xs) : xs[i] # Raw
  BY SplitBufferAssumption DEF SplitValues
<1>7. FitBuffer(r)
  <2>1. r.begin <= r.end /\ r.end <= Len(r.slots)
    BY <1>1, <1>2, <1>5 DEF e
  <2>2. ASSUME NEW p \in 1 .. Len(r.slots), r.begin < p, p <= r.end PROVE r.slots[p] # Raw
    <3>1. CASE b.end < p
      BY <1>1, <1>2, <1>5, <1>6, <2>2, <3>1 DEF e
    <3>2. CASE p <= b.end
      BY <1>1, <1>2, <1>5, <2>2, <3>2 DEF FitBuffer, FitSlots
    <3> QED
      BY <1>1, <3>1, <3>2
  <2>3. ASSUME NEW p \in 1 .. Len(r.slots), p <= r.begin \/ r.end < p, ~ r.slid PROVE r.slots[p] = Raw
    <3>1. ~ (b.end < p /\ p <= b.end + Len(xs)) /\ (p <= b.begin \/ b.end < p)
      BY <1>1, <1>5, <2>3 DEF e
    <3> QED
      BY <1>1, <1>2, <1>5, <2>3, <3>1 DEF FitBuffer, FitSlots
  <2> QED
    BY <1>5, <2>1, <2>2, <2>3 DEF FitBuffer, FitSlots
<1>8. contents(r) = contents(b) \o xs
  <2> DEFINE old == contents(b)
             ys == old \o xs
             m == b.end - b.begin
  <2>1. /\ old \in Seq(SplitValues) /\ Len(old) = m /\ m \in Nat
        /\ \A i \in 1 .. m : old[i] = b.slots[b.begin + i] /\ b.begin + i \in 1 .. Len(b.slots)
    BY <1>1, ContentsAre
  <2> HIDE DEF old
  <2>2. /\ ys \in Seq(SplitValues) /\ Len(ys) = m + Len(xs)
        /\ \A i \in 1 .. m + Len(xs) : ys[i] = IF i <= m THEN old[i] ELSE xs[i - m]
    BY <2>1
  <2>3. ASSUME NEW i \in 1 .. Len(ys) PROVE ys[i] = r.slots[r.begin + i]
    <3>1. CASE i <= m
      <4>1. b.begin + i \in 1 .. Len(b.slots) /\ ~ (b.end < b.begin + i)
        BY <1>1, <2>1, <3>1
      <4> QED
        BY <1>1, <1>2, <1>5, <2>1, <2>2, <3>1, <4>1
    <3>2. CASE i > m
      <4>1. /\ b.begin + i \in 1 .. Len(b.slots) /\ b.end < b.begin + i /\ b.begin + i <= b.end + Len(xs)
            /\ (b.begin + i) - b.end = i - m
        <5>1. Len(b.slots) \in Nat /\ i \in 1 .. (b.end - b.begin) + Len(xs)
          BY <1>1, <2>2
        <5> QED
          BY <1>1, <3>2, <5>1, ShiftedIn
      <4> DEFINE p == b.begin + i
      <4>2. r.slots[p] = slots[p] /\ p \in 1 .. Len(b.slots)
        BY <1>5, <4>1
      <4>3. b.end < p /\ p <= b.end + Len(xs) /\ p - b.end = i - m /\ r.begin + i = p
        BY <1>5, <4>1
      <4> HIDE DEF p
      <4>4. slots[p] = xs[p - b.end]
        BY <1>2, <4>2, <4>3
      <4>5. ys[i] = xs[i - m]
        BY <2>1, <2>2, <3>2
      <4> QED
        BY <4>2, <4>3, <4>4, <4>5
    <3> QED
      BY <2>1, <3>1, <3>2
  <2> HIDE DEF ys
  <2>4. Len(ys) = r.end - r.begin
    BY <1>1, <1>5, <2>2 DEF e
  <2> QED
    BY <1>7, <2>2, <2>3, <2>4, ContentsFrom DEF ys, old
<1>9. r.from = r.alloc \/ Len(r.slots) = 0
  BY <1>2, <1>5 DEF GoodBuffer
<1> QED
  BY <1>2, <1>5, <1>7, <1>8, <1>9 DEF Longer, Alike, KeepsElements, GoodBuffer, e, r

(* Elements in a new block.                                                *)
MovedInto(r, alloc, cap, start, xs) ==
  /\ KeepsElements(r, xs) /\ Len(r.slots) = cap /\ r.begin = start /\ r.end = start + Len(xs) /\ r.alloc = alloc
LEMMA RegrownIs ==
  ASSUME NEW b, FitBuffer(b), NEW cap \in Nat, NEW start \in Nat, start + sizeOf(b) <= cap
  PROVE  MovedInto(Regrown(b, cap, start), b.alloc, cap, start, contents(b))
<1> DEFINE xs == contents(b)
           new == NewBuffer(b.alloc, cap, start)
           r == ConstructAtEnd(new, xs)
<1>1. xs \in Seq(SplitValues) /\ Len(xs) = sizeOf(b) /\ Len(xs) \in Nat /\ b.alloc \in SplitAllocators
  BY ContentsAre, BufferHas DEF FitBuffer, sizeOf
<1>2. Regrown(b, cap, start) = r
  BY DEF Regrown
<1> HIDE DEF xs
<1>3. NewLike(new, b.alloc, cap, start)
  BY <1>1, NewIs
<1> HIDE DEF new
<1>4. Longer(new, r, xs)
  BY <1>1, <1>3, ConstructAtEndIs DEF NewLike, KeepsElements
<1>5. contents(new) \o xs = xs
  BY <1>1, <1>3 DEF NewLike, KeepsElements
<1> HIDE DEF r
<1>6. MovedInto(r, b.alloc, cap, start, xs)
  BY <1>3, <1>4, <1>5 DEF Longer, NewLike, MovedInto, Alike
<1> QED
  BY <1>2, <1>6 DEF xs

(* A buffer with other slots: the fields of one made by [b EXCEPT ...].    *)
SlotsNow(b, r, slots, begin, end, slid) ==
  /\ r \in SplitBuffers /\ r.alloc = b.alloc /\ r.from = b.from /\ r.slots = slots /\ r.begin = begin
  /\ r.end = end /\ r.slid = slid

LEMMA SlotsFit ==
  ASSUME NEW b, GoodBuffer(b), NEW r, NEW slots, NEW begin, NEW end, NEW slid, SlotsNow(b, r, slots, begin, end, slid),
         Len(slots) = Len(b.slots), FitSlots(slots, begin, end, slid)
  PROVE  GoodBuffer(r)
  BY DEF SlotsNow, GoodBuffer, FitBuffer

(* Elements moved away from, all or some before a move threw.              *)
SomeHollow(b, r, n) ==
  /\ GoodBuffer(r) /\ Len(r.slots) = Len(b.slots) /\ r.alloc = b.alloc
  /\ contents(r) \in Seq(SplitValues) /\ Len(contents(r)) = sizeOf(b)
  /\ \A i \in 1 .. sizeOf(b) : contents(r)[i] = IF i <= n THEN Hollow ELSE contents(b)[i]
LEMMA HollowedIs ==
  ASSUME NEW b, GoodBuffer(b), NEW n \in 0 .. sizeOf(b)
  PROVE  SomeHollow(b, Hollowed(b, n), n)
<1> DEFINE r == Hollowed(b, n)
           begin == b.begin
           end == b.end
           old == b.slots
           size == Len(old)
           slots == [p \in DOMAIN old |-> IF p \in (begin + 1) .. (begin + n) THEN Hollow ELSE old[p]]
<1>1. /\ b \in SplitBuffers /\ old \in Seq(SlotValues) /\ begin \in Nat /\ end \in Nat /\ FitSlots(old, begin, end, b.slid)
      /\ FitBuffer(b) /\ sizeOf(b) = end - begin /\ size \in Nat
  BY BufferHas DEF GoodBuffer, FitBuffer
<1>2. r = [b EXCEPT !.slots = slots]
  BY DEF Hollowed
<1>3. /\ begin <= end /\ end <= size
      /\ \A p \in 1 .. size : begin < p /\ p <= end => old[p] # Raw
      /\ \A p \in 1 .. size : (p <= begin \/ end < p) /\ ~ b.slid => old[p] = Raw
  BY <1>1 DEF FitSlots
<1>4. /\ slots \in Seq(SlotValues) /\ Len(slots) = size
      /\ \A p \in 1 .. size : slots[p] = IF begin < p /\ p <= begin + n THEN Hollow ELSE old[p]
  <2>1. DOMAIN old = 1 .. size /\ Hollow \in SlotValues /\ \A p \in 1 .. size : old[p] \in SlotValues
    BY <1>1 DEF SlotValues, SplitValues
  <2>2. slots \in [1 .. size -> SlotValues]
    <3> HIDE DEF size, old
    <3> QED
      BY <2>1
  <2>3. \A p \in 1 .. size : slots[p] = IF begin < p /\ p <= begin + n THEN Hollow ELSE old[p]
    BY <1>1
  <2>4. size \in Nat
    BY <1>1
  <2> HIDE DEF slots, size
  <2>5. slots \in Seq(SlotValues) /\ Len(slots) = size
    BY <2>2, <2>4
  <2> QED
    BY <2>3, <2>5
<1> HIDE DEF slots, r
<1>5. SlotsNow(b, r, slots, begin, end, b.slid)
  BY <1>1, <1>2, <1>4 DEF SlotsNow, SplitBuffers
<1> HIDE DEF begin, end, old, size
<1>6. FitSlots(slots, begin, end, b.slid)
  <2>1. \A p \in 1 .. size : begin < p /\ p <= end => slots[p] # Raw
    BY <1>1, <1>3, <1>4, SplitBufferAssumption
  <2>2. \A p \in 1 .. size : (p <= begin \/ end < p) /\ ~ b.slid => slots[p] = Raw
    BY <1>1, <1>3, <1>4
  <2> QED
    BY <1>3, <1>4, <2>1, <2>2 DEF FitSlots
<1>7. GoodBuffer(r)
  BY <1>4, <1>5, <1>6, SlotsFit DEF size, old
<1>8. /\ contents(b) \in Seq(SplitValues) /\ Len(contents(b)) = end - begin
      /\ \A i \in 1 .. end - begin : contents(b)[i] = old[begin + i] /\ begin + i \in 1 .. size
  BY <1>1, ContentsAre DEF end, begin, old, size
<1>9. /\ contents(r) \in Seq(SplitValues) /\ Len(contents(r)) = end - begin
      /\ \A i \in 1 .. end - begin : contents(r)[i] = slots[begin + i]
  BY <1>5, <1>7, ContentsAre DEF SlotsNow, GoodBuffer
<1>10. ASSUME NEW i \in 1 .. end - begin PROVE contents(r)[i] = IF i <= n THEN Hollow ELSE contents(b)[i]
  <2>1. begin + i \in 1 .. size /\ begin < begin + i /\ (begin + i <= begin + n <=> i <= n)
    BY <1>1, <1>3, <1>8
  <2>2. slots[begin + i] = IF i <= n THEN Hollow ELSE old[begin + i]
    BY <1>4, <2>1
  <2> QED
    BY <1>8, <1>9, <2>2
<1> QED
  BY <1>1, <1>4, <1>5, <1>7, <1>9, <1>10 DEF SlotsNow, SomeHollow, r, size, old

(* Elements that slide.                                                    *)
SlidTo(b, r, d) ==
  /\ KeepsElements(r, contents(b)) /\ Alike(b, r) /\ r.begin = b.begin + d /\ r.end = b.end + d
  /\ \A p \in 1 .. Len(b.slots) : b.begin < p /\ p <= b.end => r.slots[p] \in SplitValues
LEMMA SlideIs ==
  ASSUME NEW b, GoodBuffer(b), NEW d \in Int, b.begin + d >= 0, b.end + d <= Len(b.slots)
  PROVE  SlidTo(b, Slide(b, d), d)
<1> DEFINE r == Slide(b, d)
           begin == b.begin
           end == b.end
           was == b.slots
           size == Len(was)
           old == (begin + 1) .. end
           new == (begin + d + 1) .. (end + d)
           slid == b.slid \/ old # {}
           slots == [p \in DOMAIN was |-> IF p \in new THEN was[p - d] ELSE IF p \in old THEN Hollow ELSE was[p]]
           m == begin + d
           n == end + d
<1>1. /\ b \in SplitBuffers /\ was \in Seq(SlotValues) /\ begin \in Nat /\ end \in Nat /\ FitSlots(was, begin, end, b.slid)
      /\ FitBuffer(b) /\ size \in Nat /\ m \in Nat /\ slid \in BOOLEAN /\ begin <= end
  BY BufferHas DEF GoodBuffer, FitBuffer, FitSlots
<1>2. r = [b EXCEPT !.begin = m, !.end = n, !.slid = slid, !.slots = slots]
  BY DEF Slide
<1>3. /\ begin <= end /\ end <= size /\ m <= n /\ n <= size /\ n \in Nat
      /\ \A p \in 1 .. size : begin < p /\ p <= end => was[p] # Raw /\ was[p] \in SplitValues
      /\ \A p \in 1 .. size : (p <= begin \/ end < p) /\ ~ b.slid => was[p] = Raw
  BY <1>1 DEF FitSlots, SlotValues
<1>4. \A p \in 1 .. size : m < p /\ p <= n => p - d \in 1 .. size /\ begin < p - d /\ p - d <= end
  BY <1>1, <1>3
<1>5. /\ slots \in Seq(SlotValues) /\ Len(slots) = size
      /\ \A p \in 1 .. size : slots[p] = IF m < p /\ p <= n THEN was[p - d]
                                         ELSE IF begin < p /\ p <= end THEN Hollow ELSE was[p]
  <2> HIDE DEF size
  <2>1. \A p \in 1 .. size : (p \in new <=> m < p /\ p <= n) /\ (p \in old <=> begin < p /\ p <= end)
    BY <1>1
  <2>2. DOMAIN was = 1 .. size /\ \A p \in 1 .. size : was[p] \in SlotValues
    BY <1>1 DEF size
  <2> HIDE DEF new, old, m, n, was
  <2>3. \A p \in 1 .. size : slots[p] = IF m < p /\ p <= n THEN was[p - d]
                                        ELSE IF begin < p /\ p <= end THEN Hollow ELSE was[p]
    BY <2>1, <2>2
  <2>4. \A p \in 1 .. size : slots[p] \in SlotValues
    <3> SUFFICES ASSUME NEW p \in 1 .. size PROVE slots[p] \in SlotValues
      OBVIOUS
    <3>1. CASE m < p /\ p <= n
      BY <1>4, <2>2, <2>3, <3>1
    <3>2. CASE ~ (m < p /\ p <= n)
      BY <2>2, <2>3, <3>2 DEF SlotValues, SplitValues
    <3> QED
      BY <3>1, <3>2
  <2>5. slots = [p \in 1 .. size |-> slots[p]]
    BY <2>2
  <2> HIDE DEF slots
  <2>6. slots \in [1 .. size -> SlotValues]
    BY <2>4, <2>5
  <2> QED
    BY <1>1, <2>3, <2>6
<1>6. old = {} <=> begin = end
  BY <1>1
<1> HIDE DEF slots, r, slid, old, new
<1>7. SlotsNow(b, r, slots, m, n, slid)
  <2> HIDE DEF m, n
  <2> QED
    BY <1>1, <1>2, <1>3, <1>5 DEF SlotsNow, SplitBuffers
<1>8. slid <=> b.slid \/ begin # end
  BY <1>6 DEF slid
<1>9. FitSlots(slots, m, n, slid)
  <2> HIDE DEF was
  <2>1. ASSUME NEW p \in 1 .. size, m < p, p <= n PROVE slots[p] # Raw
    BY <1>3, <1>4, <1>5, <2>1
  <2>2. ASSUME NEW p \in 1 .. size, p <= m \/ n < p, ~ slid PROVE slots[p] = Raw
    BY <1>1, <1>3, <1>5, <1>8, <2>2
  <2> HIDE DEF m, n, size
  <2> QED
    BY <1>3, <1>5, <2>1, <2>2 DEF FitSlots
<1>10. GoodBuffer(r)
  BY <1>5, <1>7, <1>9, SlotsFit
<1>11. /\ contents(b) \in Seq(SplitValues) /\ Len(contents(b)) = end - begin
       /\ \A i \in 1 .. end - begin : contents(b)[i] = was[begin + i] /\ begin + i \in 1 .. size
  BY <1>1, ContentsAre
<1>12. contents(r) = contents(b)
  <2>1. Len(contents(b)) = r.end - r.begin
    BY <1>1, <1>7, <1>11 DEF SlotsNow
  <2>2. ASSUME NEW i \in 1 .. end - begin PROVE contents(b)[i] = r.slots[r.begin + i]
    <3> DEFINE p == m + i
    <3>1. p \in 1 .. size /\ m < p /\ p <= n /\ p - d = begin + i
      <4>1. begin \in Nat /\ end \in Nat /\ size \in Nat /\ end + d <= size /\ begin + d >= 0
        BY <1>1
      <4> HIDE DEF begin, end, size
      <4> QED
        BY <4>1
    <3>2. slots[p] = was[p - d]
      <4> HIDE DEF p
      <4> QED
        BY <1>5, <3>1
    <3> QED
      BY <1>7, <1>11, <3>1, <3>2 DEF SlotsNow
  <2> QED
    BY <1>10, <1>11, <2>1, <2>2, ContentsFrom DEF GoodBuffer
<1>13. ASSUME NEW p \in 1 .. size, begin < p, p <= end PROVE slots[p] \in SplitValues
  <2> HIDE DEF was, size
  <2>1. CASE m < p /\ p <= n
    BY <1>3, <1>4, <1>5, <2>1
  <2>2. CASE ~ (m < p /\ p <= n)
    BY <1>5, <1>13, <2>2 DEF SplitValues
  <2> QED
    BY <2>1, <2>2
<1> QED
  BY <1>5, <1>7, <1>10, <1>12, <1>13 DEF SlotsNow, SlidTo, KeepsElements, Alike, r

(* Elements destroyed at either end.                                       *)
LEMMA EmptiedIs ==
  ASSUME NEW b, GoodBuffer(b), NEW first \in Nat, NEW last \in Nat, last <= Len(b.slots)
  PROVE  /\ Emptied(b, first, last) \in Seq(SlotValues) /\ Len(Emptied(b, first, last)) = Len(b.slots)
         /\ \A p \in 1 .. Len(b.slots) : Emptied(b, first, last)[p] = IF first < p /\ p <= last THEN Raw ELSE b.slots[p]
<1> DEFINE f == Emptied(b, first, last)
           was == b.slots
           size == Len(was)
<1>1. was \in Seq(SlotValues) /\ size \in Nat
  BY BufferHas DEF GoodBuffer, FitBuffer
<1>2. f = [p \in 1 .. size |-> IF first < p /\ p <= last THEN Raw ELSE was[p]]
  BY <1>1 DEF Emptied
<1>3. \A p \in 1 .. size : was[p] \in SlotValues
  BY <1>1
<1> HIDE DEF f, was, size
<1>4. f \in [1 .. size -> SlotValues]
  BY <1>2, <1>3 DEF SlotValues
<1>5. \A p \in 1 .. size : f[p] = IF first < p /\ p <= last THEN Raw ELSE was[p]
  BY <1>2
<1>6. f \in Seq(SlotValues) /\ Len(f) = size
  BY <1>1, <1>4
<1> QED
  BY <1>5, <1>6 DEF f, was, size

SliceOf(b, r, m, n) == KeepsElements(r, SubSeq(contents(b), m - b.begin + 1, n - b.begin))
SlotsDestroyed(b, slots, m, n) ==
  /\ slots \in Seq(SlotValues) /\ Len(slots) = Len(b.slots)
  /\ \A p \in 1 .. Len(b.slots) :
       slots[p] = IF (b.begin < p /\ p <= m) \/ (n < p /\ p <= b.end) THEN Raw ELSE b.slots[p]
LEMMA DestructedIs ==
  ASSUME NEW b, GoodBuffer(b), NEW m \in Nat, NEW n \in Nat, b.begin <= m, m <= n, n <= b.end,
         NEW r, NEW slots, SlotsDestroyed(b, slots, m, n), SlotsNow(b, r, slots, m, n, b.slid)
  PROVE  SliceOf(b, r, m, n)
<1> DEFINE begin == b.begin
           end == b.end
           was == b.slots
           size == Len(was)
           slid == b.slid
           i0 == m - begin
           j0 == n - begin
           xs == contents(b)
           ys == SubSeq(xs, i0 + 1, j0)
<1>1. /\ was \in Seq(SlotValues) /\ begin \in Nat /\ end \in Nat /\ FitBuffer(b) /\ size \in Nat
      /\ begin <= end /\ end <= size
      /\ \A p \in 1 .. size : begin < p /\ p <= end => was[p] # Raw
      /\ \A p \in 1 .. size : (p <= begin \/ end < p) /\ ~ slid => was[p] = Raw
  BY BufferHas DEF GoodBuffer, FitBuffer, FitSlots
<1>2. /\ xs \in Seq(SplitValues) /\ Len(xs) = end - begin
      /\ \A i \in 1 .. end - begin : xs[i] = was[begin + i] /\ begin + i \in 1 .. size
  BY <1>1, ContentsAre
<1>3. \A p \in 1 .. size : slots[p] = IF (begin < p /\ p <= m) \/ (n < p /\ p <= end) THEN Raw ELSE was[p]
  BY DEF SlotsDestroyed
<1>4. begin <= m /\ m <= n /\ n <= end /\ Len(slots) = size /\ slots \in Seq(SlotValues)
  BY DEF SlotsDestroyed
<1> HIDE DEF was, size, begin, end, slid, xs
<1>5. FitSlots(slots, m, n, slid)
  <2>1. ASSUME NEW p \in 1 .. size, m < p, p <= n PROVE slots[p] # Raw
    BY <1>1, <1>3, <1>4, <2>1
  <2>2. ASSUME NEW p \in 1 .. size, p <= m \/ n < p, ~ slid PROVE slots[p] = Raw
    BY <1>1, <1>3, <1>4, <2>2
  <2> QED
    BY <1>1, <1>4, <2>1, <2>2 DEF FitSlots
<1>6. GoodBuffer(r)
  BY <1>4, <1>5, SlotsFit DEF slid, size, was
<1>7. i0 \in Nat /\ j0 \in Nat /\ i0 <= j0 /\ j0 <= end - begin
  BY <1>1, <1>4
<1>8. ys \in Seq(SplitValues) /\ Len(ys) = j0 - i0 /\ \A i \in 1 .. j0 - i0 : ys[i] = xs[i0 + i]
  <2> HIDE DEF i0, j0
  <2> QED
    BY <1>2, <1>7, SubSeqIs
<1> HIDE DEF ys
<1>9. ASSUME NEW i \in 1 .. j0 - i0 PROVE ys[i] = slots[m + i]
  <2> DEFINE p == m + i
  <2>1. i0 + i \in 1 .. end - begin /\ begin + (i0 + i) = p /\ p \in 1 .. size /\ m < p /\ p <= n
    BY <1>1, <1>4
  <2>2. ys[i] = was[p]
    BY <1>2, <1>8, <2>1
  <2> HIDE DEF p
  <2>3. slots[p] = was[p]
    BY <1>1, <1>3, <1>4, <2>1
  <2> QED
    BY <2>2, <2>3 DEF p
<1>10. Len(ys) = n - m
  BY <1>1, <1>8
<1>11. contents(r) = ys
  <2>1. FitBuffer(r) /\ r.begin = m /\ r.end = n /\ r.slots = slots
    BY <1>6 DEF GoodBuffer, SlotsNow
  <2>2. Len(ys) = r.end - r.begin /\ \A i \in 1 .. Len(ys) : ys[i] = r.slots[r.begin + i]
    <3> HIDE DEF i0, j0
    <3> QED
      BY <1>8, <1>9, <1>10, <2>1
  <2> HIDE DEF i0, j0
  <2> QED
    BY <1>8, <2>1, <2>2, ContentsFrom
<1> QED
  BY <1>6, <1>11 DEF SliceOf, KeepsElements, ys, xs, i0, j0, begin

LEMMA HalfFits ==
  ASSUME NEW n \in Nat, n > 0
  PROVE  Half(n) \in Nat /\ Half(n) > 0 /\ Half(n) <= n
  BY DEF Half

(* A block of twice the size has room before and after the elements.       *)
LEMMA Doubled ==
  ASSUME NEW n \in Nat, NEW t, t = Max({2 * n, 1})
  PROVE  /\ t \in Nat /\ t > n /\ (t + 3) \div 4 \in Nat /\ (t + 3) \div 4 > 0 /\ (t + 3) \div 4 + n <= t
         /\ t \div 4 \in Nat /\ t \div 4 + n < t
<1>1. t \in {2 * n, 1} /\ t >= 2 * n /\ t >= 1
  BY MaxTwo
<1>2. n = 0 => t = 1
  BY <1>1
<1>3. n > 0 => t = 2 * n
  BY <1>1
<1> QED
  BY <1>2, <1>3

(* Room made for one more.                                                 *)
Roomy(b, r) ==
  /\ KeepsElements(r, contents(b)) /\ (r = b => ~ Full(b))
  /\ ~ Full(b) => \A p \in 1 .. Len(b.slots) : b.begin < p /\ p <= b.end => r.slots[p] \in SplitValues

LEMMA StaysRoomy ==
  ASSUME NEW b, GoodBuffer(b), ~ Full(b)
  PROVE  Roomy(b, b)
<1>1. b.slots \in Seq(SlotValues) /\ FitSlots(b.slots, b.begin, b.end, b.slid)
  BY BufferHas DEF GoodBuffer, FitBuffer
<1> QED
  BY <1>1 DEF Roomy, KeepsElements, FitSlots, SlotValues

LEMMA SlidRoomy ==
  ASSUME NEW b, GoodBuffer(b), ~ Full(b), NEW d \in Int, b.begin + d >= 0, b.end + d <= Len(b.slots)
  PROVE  Roomy(b, Slide(b, d)) /\ SlidTo(b, Slide(b, d), d)
<1> DEFINE r == Slide(b, d)
<1>1. SlidTo(b, r, d)
  BY SlideIs
<1> HIDE DEF r
<1>2. Roomy(b, r)
  BY <1>1 DEF SlidTo, Roomy
<1> QED
  BY <1>1, <1>2 DEF r

LEMMA RegrownRoomy ==
  ASSUME NEW b, GoodBuffer(b), Full(b), NEW cap \in Nat, NEW start \in Nat, start + sizeOf(b) <= cap, cap > Len(b.slots)
  PROVE  Roomy(b, Regrown(b, cap, start)) /\ MovedInto(Regrown(b, cap, start), b.alloc, cap, start, contents(b))
<1> DEFINE r == Regrown(b, cap, start)
<1>1. MovedInto(r, b.alloc, cap, start, contents(b))
  BY RegrownIs DEF GoodBuffer
<1> HIDE DEF r
<1>2. Roomy(b, r)
  <2>1. Len(r.slots) # Len(b.slots)
    BY <1>1, BufferHas DEF MovedInto, GoodBuffer, FitBuffer
  <2> QED
    BY <1>1, <2>1 DEF MovedInto, Roomy
<1> QED
  BY <1>1, <1>2 DEF r

LEMMA RoomAtFrontIs ==
  ASSUME NEW b, GoodBuffer(b)
  PROVE  Roomy(b, RoomAtFront(b)) /\ RoomAtFront(b).begin > 0
<1> DEFINE size == Len(b.slots)
<1>1. /\ b.begin \in Nat /\ b.end \in Nat /\ size \in Nat /\ b.begin <= b.end /\ b.end <= size
      /\ FrontSpare(b) = b.begin /\ BackSpare(b) = size - b.end
      /\ (Full(b) <=> b.begin = 0 /\ b.end = size) /\ sizeOf(b) = b.end - b.begin
  BY BufferHas DEF GoodBuffer, FitBuffer, FitSlots, Full
<1>2. CASE b.begin > 0
  <2>1. RoomAtFront(b) = b
    BY <1>1, <1>2 DEF RoomAtFront
  <2> QED
    BY <1>1, <1>2, <2>1, StaysRoomy
<1>3. CASE b.begin = 0 /\ size - b.end > 0
  <2> DEFINE d == Half(size - b.end)
  <2>1. RoomAtFront(b) = Slide(b, d)
    BY <1>1, <1>3 DEF RoomAtFront
  <2>2. d \in Nat /\ d > 0 /\ d <= size - b.end
    BY <1>1, <1>3, HalfFits
  <2> HIDE DEF d
  <2>3. Roomy(b, Slide(b, d)) /\ SlidTo(b, Slide(b, d), d)
    BY <1>1, <1>3, <2>2, SlidRoomy
  <2> QED
    BY <1>3, <2>1, <2>2, <2>3 DEF SlidTo
<1>4. CASE b.begin = 0 /\ b.end = size
  <2> DEFINE t == Twice(b)
             start == (t + 3) \div 4
  <2>1. RoomAtFront(b) = Regrown(b, t, start)
    BY <1>1, <1>4 DEF RoomAtFront
  <2>2. t \in Nat /\ t > size /\ start \in Nat /\ start > 0 /\ start + size <= t
    BY <1>1, Doubled DEF Twice, capacity
  <2> HIDE DEF t, start
  <2>3. Roomy(b, Regrown(b, t, start)) /\ MovedInto(Regrown(b, t, start), b.alloc, t, start, contents(b))
    BY <1>1, <1>4, <2>2, RegrownRoomy
  <2> QED
    BY <2>1, <2>2, <2>3 DEF MovedInto
<1> QED
  BY <1>1, <1>2, <1>3, <1>4

LEMMA RoomAtBackIs ==
  ASSUME NEW b, GoodBuffer(b)
  PROVE  Roomy(b, RoomAtBack(b)) /\ RoomAtBack(b).end + 1 <= Len(RoomAtBack(b).slots)
<1> DEFINE size == Len(b.slots)
<1>1. /\ b.begin \in Nat /\ b.end \in Nat /\ size \in Nat /\ b.begin <= b.end /\ b.end <= size
      /\ FrontSpare(b) = b.begin /\ BackSpare(b) = size - b.end
      /\ (Full(b) <=> b.begin = 0 /\ b.end = size) /\ sizeOf(b) = b.end - b.begin
  BY BufferHas DEF GoodBuffer, FitBuffer, FitSlots, Full
<1>2. CASE size - b.end > 0
  <2>1. RoomAtBack(b) = b
    BY <1>1, <1>2 DEF RoomAtBack
  <2> QED
    BY <1>1, <1>2, <2>1, StaysRoomy
<1>3. CASE b.end = size /\ b.begin > 0
  <2> DEFINE d == -Half(b.begin)
  <2>1. RoomAtBack(b) = Slide(b, d)
    BY <1>1, <1>3 DEF RoomAtBack
  <2>2. d \in Int /\ d < 0 /\ b.begin + d >= 0
    BY <1>1, <1>3, HalfFits
  <2> HIDE DEF d
  <2>3. Roomy(b, Slide(b, d)) /\ SlidTo(b, Slide(b, d), d)
    BY <1>1, <1>3, <2>2, SlidRoomy
  <2> QED
    BY <1>1, <1>3, <2>1, <2>2, <2>3 DEF SlidTo, Alike
<1>4. CASE b.begin = 0 /\ b.end = size
  <2> DEFINE t == Twice(b)
             start == t \div 4
  <2>1. RoomAtBack(b) = Regrown(b, t, start)
    BY <1>1, <1>4 DEF RoomAtBack
  <2>2. t \in Nat /\ t > size /\ start \in Nat /\ start + size < t
    BY <1>1, Doubled DEF Twice, capacity
  <2> HIDE DEF t, start
  <2>3. Roomy(b, Regrown(b, t, start)) /\ MovedInto(Regrown(b, t, start), b.alloc, t, start, contents(b))
    BY <1>1, <1>4, <2>2, RegrownRoomy
  <2>4. Len(contents(b)) = size
    BY <1>1, <1>4, ContentsAre DEF GoodBuffer
  <2> QED
    BY <1>1, <2>1, <2>2, <2>3, <2>4 DEF MovedInto
<1> QED
  BY <1>1, <1>2, <1>3, <1>4

(* What is pushed, a value or an element of the buffer.                    *)
LEMMA GivenIs ==
  ASSUME NEW b, GoodBuffer(b), NEW r, Roomy(b, r), NEW x \in Int, x < 0 \/ x \in 1 .. sizeOf(b)
  PROVE  /\ Given(b, r, x) \in SplitValues
         /\ x < 0 \/ r = b => Given(b, r, x) = IF x < 0 THEN x ELSE contents(b)[x]
<1>1. CASE x < 0
  BY <1>1 DEF Given, SplitValues
<1>2. CASE ~ (x < 0)
  <2>1. x \in 1 .. b.end - b.begin
    BY <1>2 DEF sizeOf
  <2> DEFINE p == b.begin + x
  <2>2. p \in 1 .. Len(b.slots) /\ b.begin < p /\ p <= b.end /\ contents(b)[x] = b.slots[p]
    BY <2>1, ContentsAre, BufferHas DEF GoodBuffer, FitBuffer
  <2>3. Given(b, r, x) = IF Full(b) THEN Hollow ELSE r.slots[p]
    BY <1>2 DEF Given
  <2> HIDE DEF p
  <2>4. CASE Full(b)
    BY <1>2, <2>3, <2>4 DEF SplitValues, Roomy
  <2>5. CASE ~ Full(b)
    BY <1>2, <2>2, <2>3, <2>5 DEF Roomy
  <2> QED
    BY <2>4, <2>5
<1> QED
  BY <1>1, <1>2

PutBefore(b, v) == [b EXCEPT !.slots = [b.slots EXCEPT ![b.begin] = v], !.begin = @ - 1]
LEMMA PutBeforeIs ==
  ASSUME NEW b, GoodBuffer(b), b.begin > 0, NEW v \in SplitValues
  PROVE  KeepsElements(PutBefore(b, v), <<v>> \o contents(b))
<1> DEFINE r == PutBefore(b, v)
           was == b.slots
           begin == b.begin
           end == b.end
           size == Len(was)
           slots == [was EXCEPT ![begin] = v]
           m == begin - 1
<1>1. /\ was \in Seq(SlotValues) /\ begin \in Nat /\ end \in Nat /\ FitBuffer(b) /\ size \in Nat
      /\ begin <= end /\ end <= size /\ begin > 0 /\ begin \in 1 .. size /\ b \in SplitBuffers
      /\ \A p \in 1 .. size : begin < p /\ p <= end => was[p] # Raw
      /\ \A p \in 1 .. size : (p <= begin \/ end < p) /\ ~ b.slid => was[p] = Raw
  BY BufferHas DEF GoodBuffer, FitBuffer, FitSlots
<1>2. r = [b EXCEPT !.slots = slots, !.begin = m]
  BY DEF PutBefore
<1>3. v \in SlotValues /\ v # Raw
  BY SplitBufferAssumption DEF SlotValues, SplitValues
<1> HIDE DEF was, begin, end, size, r
<1>4. /\ slots \in Seq(SlotValues) /\ Len(slots) = size
      /\ \A p \in 1 .. size : slots[p] = IF p = begin THEN v ELSE was[p]
  BY <1>1, <1>3 DEF size
<1> HIDE DEF slots
<1>5. m \in Nat /\ m <= end
  BY <1>1
<1> HIDE DEF m
<1>6. SlotsNow(b, r, slots, m, end, b.slid)
  BY <1>1, <1>2, <1>4, <1>5 DEF SlotsNow, SplitBuffers, end
<1>7. FitSlots(slots, m, end, b.slid)
  <2>1. ASSUME NEW p \in 1 .. size, m < p, p <= end PROVE slots[p] # Raw
    BY <1>1, <1>3, <1>4, <2>1 DEF m
  <2>2. ASSUME NEW p \in 1 .. size, p <= m \/ end < p, ~ b.slid PROVE slots[p] = Raw
    BY <1>1, <1>4, <2>2 DEF m
  <2> QED
    BY <1>1, <1>4, <1>5, <2>1, <2>2 DEF FitSlots
<1>8. GoodBuffer(r)
  BY <1>4, <1>6, <1>7, SlotsFit DEF size, was
<1> DEFINE xs == contents(b)
           ys == <<v>> \o xs
<1>9. /\ xs \in Seq(SplitValues) /\ Len(xs) = end - begin
      /\ \A i \in 1 .. end - begin : xs[i] = was[begin + i] /\ begin + i \in 1 .. size
  BY <1>1, ContentsAre DEF was, begin, end, size
<1> HIDE DEF xs
<1>10. /\ ys \in Seq(SplitValues) /\ Len(ys) = Len(xs) + 1
       /\ \A i \in 1 .. Len(xs) + 1 : ys[i] = IF i = 1 THEN v ELSE xs[i - 1]
  BY <1>9
<1> HIDE DEF ys
<1>11. ASSUME NEW i \in 1 .. Len(ys) PROVE ys[i] = slots[m + i]
  <2>1. CASE i = 1
    BY <1>1, <1>4, <1>10, <2>1 DEF m
  <2>2. CASE i # 1
    <3>1. i - 1 \in 1 .. end - begin /\ begin + (i - 1) = m + i
      BY <1>1, <1>9, <1>10, <2>2 DEF m
    <3>2. ys[i] = xs[i - 1] /\ xs[i - 1] = was[m + i] /\ m + i \in 1 .. size
      BY <1>9, <1>10, <2>2, <3>1
    <3>3. m + i # begin
      BY <1>1, <3>1
    <3> QED
      BY <1>4, <3>2, <3>3
  <2> QED
    BY <2>1, <2>2
<1>12. Len(ys) = end - m
  BY <1>1, <1>9, <1>10 DEF m
<1>13. contents(r) = ys
  BY <1>6, <1>8, <1>10, <1>11, <1>12, ContentsFrom DEF GoodBuffer, SlotsNow
<1> QED
  BY <1>8, <1>13 DEF KeepsElements, r, ys, xs

(* Elements destroyed at one end.                                          *)
LEMMA DestructAtBeginIs ==
  ASSUME NEW b, GoodBuffer(b), NEW n \in 0 .. sizeOf(b)
  PROVE  KeepsElements(DestructAtBegin(b, b.begin + n), SubSeq(contents(b), n + 1, sizeOf(b)))
<1> DEFINE m == b.begin + n
           r == DestructAtBegin(b, m)
           slots == Emptied(b, b.begin, m)
<1>1. /\ b \in SplitBuffers /\ b.begin \in Nat /\ b.end \in Nat /\ m \in Nat /\ m <= b.end /\ b.begin <= m
      /\ b.end <= Len(b.slots) /\ sizeOf(b) = b.end - b.begin /\ m - b.begin = n /\ Len(b.slots) \in Nat
      /\ b.slots \in Seq(SlotValues)
  BY BufferHas DEF GoodBuffer, FitBuffer, FitSlots
<1>2. r = [b EXCEPT !.begin = m, !.slots = slots]
  BY DEF DestructAtBegin
<1> HIDE DEF m, slots, r
<1>3. /\ slots \in Seq(SlotValues) /\ Len(slots) = Len(b.slots)
      /\ \A p \in 1 .. Len(b.slots) : slots[p] = IF b.begin < p /\ p <= m THEN Raw ELSE b.slots[p]
  BY <1>1, EmptiedIs DEF slots
<1>4. SlotsNow(b, r, slots, m, b.end, b.slid)
  BY <1>1, <1>2, <1>3 DEF SlotsNow, SplitBuffers
<1>5. SlotsDestroyed(b, slots, m, b.end)
  <2>1. \A p \in 1 .. Len(b.slots) : ~ (b.end < p /\ p <= b.end)
    BY <1>1
  <2> QED
    BY <1>3, <2>1 DEF SlotsDestroyed
<1>6. SliceOf(b, r, m, b.end)
  BY <1>1, <1>4, <1>5, DestructedIs
<1> QED
  BY <1>1, <1>6 DEF SliceOf, r, m

LEMMA DestructAtEndIs ==
  ASSUME NEW b, GoodBuffer(b), NEW n \in 0 .. sizeOf(b)
  PROVE  KeepsElements(DestructAtEnd(b, b.end - n), SubSeq(contents(b), 1, sizeOf(b) - n))
<1> DEFINE m == b.end - n
           r == DestructAtEnd(b, m)
           slots == Emptied(b, m, b.end)
<1>1. /\ b \in SplitBuffers /\ b.begin \in Nat /\ b.end \in Nat /\ m \in Nat /\ m <= b.end /\ b.begin <= m
      /\ b.end <= Len(b.slots) /\ sizeOf(b) = b.end - b.begin /\ m - b.begin = sizeOf(b) - n
      /\ b.begin - b.begin + 1 = 1 /\ b.slots \in Seq(SlotValues)
  BY BufferHas DEF GoodBuffer, FitBuffer, FitSlots
<1>2. r = [b EXCEPT !.end = m, !.slots = slots]
  BY DEF DestructAtEnd
<1> HIDE DEF m, slots, r
<1>3. /\ slots \in Seq(SlotValues) /\ Len(slots) = Len(b.slots)
      /\ \A p \in 1 .. Len(b.slots) : slots[p] = IF m < p /\ p <= b.end THEN Raw ELSE b.slots[p]
  BY <1>1, EmptiedIs DEF slots
<1>4. SlotsNow(b, r, slots, b.begin, m, b.slid)
  BY <1>1, <1>2, <1>3 DEF SlotsNow, SplitBuffers
<1>5. SlotsDestroyed(b, slots, b.begin, m)
  <2>1. \A p \in 1 .. Len(b.slots) : ~ (b.begin < p /\ p <= b.begin)
    BY <1>1
  <2> QED
    BY <1>3, <2>1 DEF SlotsDestroyed
<1>6. SliceOf(b, r, b.begin, m)
  BY <1>1, <1>4, <1>5, DestructedIs
<1> QED
  BY <1>1, <1>6 DEF SliceOf, r, m

-------------------------------------------------------------------------------
(* Calls.                                                                  *)

(* What a call shows, given the elements before and after, those of the    *)
(* other buffer, and the capacity.                                         *)
AsTold(name, arg, was, ready, now, other, cap) ==
  LET n == Len(was)
      Pushed(x) == IF x < 0 THEN x ELSE was[x]
      exact == arg < 0 \/ ready
  IN CASE name = "push front" -> exact => now = <<Pushed(arg)>> \o was
       [] name = "push back" -> exact => now = Append(was, Pushed(arg))
       [] name = "pop front" -> now = SubSeq(was, arg + 1, n)
       [] name = "pop back" -> now = SubSeq(was, 1, n - arg)
       [] name = "shrink" -> now = was /\ cap = n
       [] name = "construct" -> now = was \o arg
       [] name = "move" -> now = was /\ other = <<>>
       [] name = "move elements" -> now = was /\ \A i \in DOMAIN other : other[i] = Hollow
       [] name = "swap" -> now = was /\ other = arg
       [] name = "threw" -> /\ Len(now) >= n
                            /\ \A i \in 1 .. n : now[i] \in {was[i], Hollow}
                            /\ ready => now = was
       [] OTHER -> now = <<>>

SplitArguments == Int \cup Seq(SlotValues)
SplitCallNames ==
  {"push front", "push back", "pop front", "pop back", "shrink", "construct", "move", "move elements", "swap", "threw",
   "create", "lost"}
SplitCallRecords ==
  [name : SplitCallNames, on : {1}, arg : SplitArguments, was : Seq(SlotValues), ready : BOOLEAN]
SplitStates ==
  [propagate : BOOLEAN, at : [1 .. 2 -> SplitBuffers], misplaced : BOOLEAN, calls : Nat, call : SplitCallRecords]

(* The inductive invariant of split buffers: both are fit, none has memory *)
(* of another allocator until it is misplaced, and the last call did as it *)
(* should.                                                                 *)
SplitInv ==
  /\ sb \in SplitStates
  /\ \A h \in 1 .. 2 : FitBuffer(sb.at[h]) /\ (~ sb.misplaced => GoodBuffer(sb.at[h]))
  /\ AsTold(sb.call.name, sb.call.arg, sb.call.was, sb.call.ready, contents(sb.at[1]), contents(sb.at[2]),
          capacity(sb.at[1]))

LEMMA SplitHas ==
  ASSUME SplitInv, ~ sb.misplaced
  PROVE  /\ sb \in SplitStates /\ GoodBuffer(sb.at[1]) /\ GoodBuffer(sb.at[2]) /\ FitBuffer(sb.at[1]) /\ FitBuffer(sb.at[2])
         /\ contents(sb.at[1]) \in Seq(SplitValues) /\ contents(sb.at[2]) \in Seq(SplitValues)
         /\ contents(sb.at[1]) \in Seq(SlotValues) /\ contents(sb.at[2]) \in Seq(SlotValues)
         /\ Len(contents(sb.at[1])) = sizeOf(sb.at[1]) /\ sizeOf(sb.at[1]) \in Nat
         /\ Len(contents(sb.at[2])) = sizeOf(sb.at[2]) /\ sizeOf(sb.at[2]) \in Nat
<1>1. sb \in SplitStates /\ \A h \in {1, 2} : GoodBuffer(sb.at[h])
  BY DEF SplitInv
<1>2. \A h \in {1, 2} : /\ FitBuffer(sb.at[h]) /\ contents(sb.at[h]) \in Seq(SplitValues)
                        /\ Len(contents(sb.at[h])) = sizeOf(sb.at[h])
  BY <1>1, ContentsAre DEF GoodBuffer, sizeOf
<1>3. \A xs \in Seq(SplitValues) : xs \in Seq(SlotValues) /\ Len(xs) \in Nat
  BY DEF SlotValues
<1> QED
  BY <1>1, <1>2, <1>3

(* A state by its fields, after a call.                                    *)
CallOf(name, x, was, ready) == [name |-> name, on |-> 1, arg |-> x, was |-> was, ready |-> ready]
LEMMA CallOfIs ==
  ASSUME NEW name \in SplitCallNames, NEW x \in SplitArguments, NEW was \in Seq(SlotValues), NEW ready \in BOOLEAN
  PROVE  /\ CallOf(name, x, was, ready) \in SplitCallRecords
         /\ CallOf(name, x, was, ready).name = name /\ CallOf(name, x, was, ready).arg = x
         /\ CallOf(name, x, was, ready).was = was /\ CallOf(name, x, was, ready).ready = ready
  BY DEF CallOf, SplitCallRecords

LEMMA StateThen ==
  ASSUME NEW at \in [1 .. 2 -> SplitBuffers], NEW misplaced \in BOOLEAN, NEW call \in SplitCallRecords,
         sb \in SplitStates,
         sb' = [sb EXCEPT !.calls = sb.calls + 1, !.at = at, !.misplaced = misplaced, !.call = call]
  PROVE  sb' \in SplitStates /\ sb'.at = at /\ sb'.misplaced = misplaced /\ sb'.call = call
<1> DEFINE n == sb.calls + 1
<1>1. n \in Nat
  BY DEF SplitStates
<1>2. sb' = [sb EXCEPT !.calls = n, !.at = at, !.misplaced = misplaced, !.call = call]
  OBVIOUS
<1> HIDE DEF n
<1> QED
  BY <1>1, <1>2 DEF SplitStates

CallRight(call, b, c) == AsTold(call.name, call.arg, call.was, call.ready, contents(b), contents(c), capacity(b))
LEMMA CallRightIs ==
  ASSUME NEW name \in SplitCallNames, NEW x \in SplitArguments, NEW was \in Seq(SlotValues), NEW ready \in BOOLEAN,
         NEW b, NEW c, AsTold(name, x, was, ready, contents(b), contents(c), capacity(b))
  PROVE  CallRight(CallOf(name, x, was, ready), b, c) /\ CallOf(name, x, was, ready) \in SplitCallRecords
  BY CallOfIs DEF CallRight

LEMMA AfterBoth ==
  ASSUME SplitInv, ~ sb.misplaced, NEW b, FitBuffer(b), NEW c, FitBuffer(c), NEW misplaced \in BOOLEAN,
         ~ misplaced => GoodBuffer(b) /\ GoodBuffer(c), NEW call \in SplitCallRecords, CallRight(call, b, c),
         NEW at, at = [sb.at EXCEPT ![1] = b, ![2] = c],
         sb' = [sb EXCEPT !.calls = sb.calls + 1, !.at = at, !.misplaced = misplaced, !.call = call]
  PROVE  SplitInv'
<1>3. sb.at \in [1 .. 2 -> SplitBuffers] /\ sb \in SplitStates
  BY DEF SplitInv, SplitStates
<1>4. at \in [1 .. 2 -> SplitBuffers] /\ at[1] = b /\ at[2] = c
  BY <1>3 DEF FitBuffer
<1>5. sb' \in SplitStates /\ sb'.at = at /\ sb'.misplaced = misplaced /\ sb'.call = call
  BY <1>3, <1>4, StateThen
<1>6. sb'.at[1] = b /\ sb'.at[2] = c
  BY <1>4, <1>5
<1>7. \A h \in 1 .. 2 : FitBuffer(sb'.at[h]) /\ (~ sb'.misplaced => GoodBuffer(sb'.at[h]))
  <2>1. \A h \in 1 .. 2 : h = 1 \/ h = 2
    OBVIOUS
  <2> QED
    BY <1>5, <1>6, <2>1
<1>8. AsTold(sb'.call.name, sb'.call.arg, sb'.call.was, sb'.call.ready, contents(sb'.at[1]), contents(sb'.at[2]),
           capacity(sb'.at[1]))
  BY <1>5, <1>6 DEF CallRight
<1> QED
  BY <1>5, <1>7, <1>8 DEF SplitInv, FitBuffer, GoodBuffer, FitSlots, AsTold, contents, capacity

(* A call that keeps the invariant if it does as it should.                *)
Right(b, name, x, ready) == AsTold(name, x, contents(sb.at[1]), ready, contents(b), contents(sb.at[2]), capacity(b))
LEMMA AfterInv ==
  ASSUME SplitInv, ~ sb.misplaced, NEW b, GoodBuffer(b), NEW name \in SplitCallNames, NEW x \in SplitArguments,
         NEW ready \in BOOLEAN, Right(b, name, x, ready), After(1, b, name, x, ready)
  PROVE  SplitInv'
<1> DEFINE was == contents(sb.at[1])
           c == sb.at[2]
           m == sb.misplaced
           at == [sb.at EXCEPT ![1] = b, ![2] = c]
           call == CallOf(name, x, was, ready)
<1>1. sb \in SplitStates /\ GoodBuffer(c) /\ FitBuffer(c) /\ was \in Seq(SlotValues) /\ FitBuffer(b)
  BY SplitHas DEF GoodBuffer
<1>2. sb.at \in [1 .. 2 -> SplitBuffers] /\ m \in BOOLEAN
  BY <1>1 DEF SplitStates
<1>3. at = [sb.at EXCEPT ![1] = b]
  BY <1>2
<1>4. sb' = [sb EXCEPT !.calls = sb.calls + 1, !.at = [sb.at EXCEPT ![1] = b], !.call = call]
  BY <1>1 DEF After, CallOf
<1>5. sb' = [sb EXCEPT !.calls = sb.calls + 1, !.at = at, !.misplaced = m, !.call = call]
  <2> HIDE DEF at, call
  <2>1. sb' = [sb EXCEPT !.calls = sb.calls + 1, !.at = at, !.call = call]
    BY <1>3, <1>4
  <2> QED
    BY <1>1, <1>2, <2>1 DEF SplitStates
<1>6. AsTold(name, x, was, ready, contents(b), contents(c), capacity(b))
  BY DEF Right
<1>7. at = [sb.at EXCEPT ![1] = b, ![2] = c]
  OBVIOUS
<1> HIDE DEF was, c, at, m
<1>8. CallRight(call, b, c) /\ call \in SplitCallRecords
  BY <1>1, <1>6, CallRightIs
<1> HIDE DEF call
<1> QED
  BY <1>1, <1>2, <1>5, <1>7, <1>8, AfterBoth

BothRight(b, c, name) == AsTold(name, contents(sb.at[1]), contents(sb.at[2]), TRUE, contents(b), contents(c), capacity(b))
LEMMA OnBothInv ==
  ASSUME SplitInv, ~ sb.misplaced, NEW b, FitBuffer(b), NEW c, FitBuffer(c), NEW misplaced \in BOOLEAN,
         ~ misplaced => GoodBuffer(b) /\ GoodBuffer(c), NEW name \in SplitCallNames, BothRight(b, c, name),
         OnBoth(1, b, c, name, misplaced)
  PROVE  SplitInv'
<1> DEFINE was == contents(sb.at[2])
           x == contents(sb.at[1])
           at == [sb.at EXCEPT ![1] = b, ![2] = c]
           call == CallOf(name, x, was, TRUE)
<1>1. sb \in SplitStates /\ was \in Seq(SlotValues) /\ x \in SplitArguments
  BY SplitHas DEF SplitArguments
<1>2. sb' = [sb EXCEPT !.calls = sb.calls + 1, !.at = at, !.misplaced = misplaced, !.call = call]
  BY <1>1 DEF OnBoth, CallOf
<1>3. AsTold(name, x, was, TRUE, contents(b), contents(c), capacity(b))
  BY DEF BothRight
<1>4. at = [sb.at EXCEPT ![1] = b, ![2] = c]
  OBVIOUS
<1> HIDE DEF was, x, at
<1>5. CallRight(call, b, c) /\ call \in SplitCallRecords
  BY <1>1, <1>3, CallRightIs
<1> HIDE DEF call
<1> QED
  BY <1>1, <1>2, <1>4, <1>5, AfterBoth

(* What each call shows.                                                   *)
LEMMA DidPush ==
  ASSUME NEW x \in Int, NEW was, NEW ready, NEW v, (x < 0 \/ ready) => v = IF x < 0 THEN x ELSE was[x], NEW other, NEW cap
  PROVE  /\ AsTold("push front", x, was, ready, <<v>> \o was, other, cap)
         /\ AsTold("push back", x, was, ready, Append(was, v), other, cap)
  BY DEF AsTold
LEMMA DidPop ==
  ASSUME NEW x, NEW was, NEW other, NEW cap
  PROVE  /\ AsTold("pop front", x, was, TRUE, SubSeq(was, x + 1, Len(was)), other, cap)
         /\ AsTold("pop back", x, was, TRUE, SubSeq(was, 1, Len(was) - x), other, cap)
  BY DEF AsTold
LEMMA DidShrink ==
  ASSUME NEW x, NEW was, NEW other
  PROVE  AsTold("shrink", x, was, TRUE, was, other, Len(was))
  BY DEF AsTold
LEMMA DidConstruct ==
  ASSUME NEW x, NEW was, NEW other, NEW cap
  PROVE  AsTold("construct", x, was, TRUE, was \o x, other, cap)
  BY DEF AsTold
LEMMA DidMove ==
  ASSUME NEW x, NEW was, NEW other, NEW cap
  PROVE  /\ AsTold("move", x, was, TRUE, was, <<>>, cap) /\ AsTold("swap", x, was, TRUE, was, x, cap)
         /\ (\A i \in DOMAIN other : other[i] = Hollow) => AsTold("move elements", x, was, TRUE, was, other, cap)
  BY DEF AsTold
LEMMA DidThrew ==
  ASSUME NEW x, NEW was \in Seq(SplitValues), NEW ready, NEW now, NEW other, NEW cap,
         Len(now) >= Len(was), \A i \in 1 .. Len(was) : now[i] = was[i] \/ now[i] = Hollow, ready => now = was
  PROVE  AsTold("threw", x, was, ready, now, other, cap)
  BY DEF AsTold
LEMMA DidCreate ==
  ASSUME NEW x, NEW was, NEW other, NEW cap
  PROVE  AsTold("create", x, was, TRUE, <<>>, other, cap) /\ AsTold("lost", x, was, TRUE, <<>>, other, cap)
  BY DEF AsTold

(* Each call keeps the invariant.                                          *)
LEMMA ThrowsIs ==
  ASSUME NEW b, GoodBuffer(b), NEW left \in MoveThrows(b)
  PROVE  \E n \in 0 .. sizeOf(b) : left = Hollowed(b, n) /\ SomeHollow(b, left, n)
<1> DEFINE top == Max({sizeOf(b) - 1, 0})
<1>1. sizeOf(b) \in Nat
  BY BufferHas DEF GoodBuffer, FitBuffer, FitSlots
<1>2. top \in {sizeOf(b) - 1, 0}
  <2> DEFINE k == sizeOf(b) - 1
             zero == 0
  <2>1. k \in Int /\ zero \in Int
    BY <1>1
  <2> HIDE DEF k, zero
  <2>2. Max({k, zero}) \in {k, zero}
    BY <2>1, MaxTwo
  <2> QED
    BY <2>2 DEF k, zero
<1>3. PICK n \in 0 .. top : left = Hollowed(b, n)
  BY DEF MoveThrows
<1> HIDE DEF top
<1>4. n \in 0 .. sizeOf(b)
  BY <1>1, <1>2
<1> QED
  BY <1>3, <1>4, HollowedIs

(* A call that threw and lost nothing, or only what it has moved.          *)
MayBeLeft(was, now, ready) ==
  /\ Len(now) >= Len(was) /\ (ready => now = was)
  /\ \A i \in 1 .. Len(was) : now[i] = was[i] \/ now[i] = Hollow

LEMMA ThrewInv ==
  ASSUME SplitInv, ~ sb.misplaced, NEW b, GoodBuffer(b), NEW x \in SplitArguments, NEW ready \in BOOLEAN,
         MayBeLeft(contents(sb.at[1]), contents(b), ready), After(1, b, "threw", x, ready)
  PROVE  SplitInv'
<1> DEFINE was == contents(sb.at[1])
<1>1. was \in Seq(SplitValues)
  BY SplitHas
<1>2. AsTold("threw", x, was, ready, contents(b), contents(sb.at[2]), capacity(b))
  <2>1. /\ Len(contents(b)) >= Len(was) /\ (ready => contents(b) = was)
        /\ \A i \in 1 .. Len(was) : contents(b)[i] = was[i] \/ contents(b)[i] = Hollow
    BY DEF MayBeLeft
  <2> HIDE DEF was
  <2> QED
    BY <1>1, <2>1, DidThrew
<1> DEFINE name == "threw"
<1>3. name \in SplitCallNames /\ Right(b, name, x, ready) /\ After(1, b, name, x, ready)
  BY <1>2 DEF Right, SplitCallNames
<1> HIDE DEF name
<1> QED
  BY <1>3, AfterInv

LEMMA MovesThrewInv ==
  ASSUME SplitInv, ~ sb.misplaced, NEW x \in SplitArguments, NEW left \in MoveThrows(sb.at[1]),
         After(1, left, "threw", x, FALSE)
  PROVE  SplitInv'
<1> DEFINE b == sb.at[1]
           was == contents(b)
<1>1. GoodBuffer(b) /\ Len(was) = sizeOf(b) /\ sizeOf(b) \in Nat
  BY SplitHas
<1>2. PICK n \in 0 .. sizeOf(b) : SomeHollow(b, left, n)
  BY <1>1, ThrowsIs
<1>3. GoodBuffer(left) /\ Len(contents(left)) >= Len(was)
  BY <1>1, <1>2 DEF SomeHollow
<1>4. \A i \in 1 .. Len(was) : contents(left)[i] = was[i] \/ contents(left)[i] = Hollow
  BY <1>1, <1>2 DEF SomeHollow
<1> DEFINE no == FALSE
<1>5. After(1, left, "threw", x, no) /\ no \in BOOLEAN /\ MayBeLeft(was, contents(left), no)
  BY <1>3, <1>4 DEF MayBeLeft
<1> HIDE DEF no
<1> QED
  BY <1>3, <1>5, ThrewInv

PushedRight(pushed, name, x, room) ==
  \A ready \in BOOLEAN : (ready <=> room = sb.at[1]) => Right(pushed, name, x, ready)

LEMMA PushInv ==
  ASSUME SplitInv, ~ sb.misplaced, NEW x \in Int, NEW name \in SplitCallNames, NEW room, Roomy(sb.at[1], room),
         NEW pushed, GoodBuffer(pushed),
         PushedRight(pushed, name, x, room), PushWith(1, name, x, room, pushed)
  PROVE  SplitInv'
<1> DEFINE b == sb.at[1]
           ready == room = b
           space == ~ Full(b)
<1>1. /\ ready \in BOOLEAN /\ space \in BOOLEAN /\ x \in SplitArguments
  BY DEF SplitArguments
<1>2. \/ After(1, pushed, name, x, ready)
      \/ After(1, room, "threw", x, space)
      \/ \E left \in MoveThrows(b) : After(1, left, "threw", x, FALSE)
  BY DEF PushWith
<1>3. Right(pushed, name, x, ready)
  BY DEF PushedRight
<1>4. GoodBuffer(room) /\ contents(room) = contents(b) /\ contents(b) \in Seq(SplitValues)
  BY SplitHas DEF Roomy, KeepsElements
<1> HIDE DEF ready, space
<1>5. CASE After(1, pushed, name, x, ready)
  BY <1>1, <1>3, <1>5, AfterInv
<1>6. CASE After(1, room, "threw", x, space)
  <2>1. MayBeLeft(contents(b), contents(room), space)
    BY <1>4 DEF MayBeLeft
  <2> QED
    BY <1>1, <1>4, <1>6, <2>1, ThrewInv
<1>7. ASSUME NEW left \in MoveThrows(b), After(1, left, "threw", x, FALSE) PROVE SplitInv'
  BY <1>1, <1>7, MovesThrewInv
<1> QED
  BY <1>2, <1>5, <1>6, <1>7

LEMMA PushFrontInv ==
  ASSUME SplitInv, ~ sb.misplaced, NEW x \in Int, x < 0 \/ x \in 1 .. sizeOf(sb.at[1]), SplitPushFront(1, x)
  PROVE  SplitInv'
<1> DEFINE b == sb.at[1]
           room == RoomAtFront(b)
           v == Given(b, room, x)
           pushed == PutBefore(room, v)
           was == contents(b)
<1>1. GoodBuffer(b) /\ Roomy(b, room) /\ room.begin > 0
  BY SplitHas, RoomAtFrontIs
<1>2. PushWith(1, "push front", x, room, pushed)
  BY DEF SplitPushFront, PutBefore
<1> HIDE DEF room
<1>3. v \in SplitValues /\ (x < 0 \/ room = b => v = IF x < 0 THEN x ELSE was[x])
  BY <1>1, GivenIs
<1> HIDE DEF v
<1>4. GoodBuffer(room) /\ contents(room) = was
  BY <1>1 DEF Roomy, KeepsElements
<1>5. KeepsElements(pushed, <<v>> \o contents(room))
  BY <1>1, <1>3, <1>4, PutBeforeIs
<1>6. GoodBuffer(pushed) /\ contents(pushed) = <<v>> \o was
  BY <1>4, <1>5 DEF KeepsElements
<1> HIDE DEF pushed
<1>7. ASSUME NEW ready \in BOOLEAN, ready <=> room = b PROVE Right(pushed, "push front", x, ready)
  <2>1. AsTold("push front", x, was, ready, <<v>> \o was, contents(sb.at[2]), capacity(pushed))
    <3> HIDE DEF was
    <3> QED
      BY <1>3, <1>7, DidPush
  <2> QED
    BY <1>6, <2>1 DEF Right
<1> DEFINE name == "push front"
<1>8. name \in SplitCallNames /\ PushedRight(pushed, name, x, room) /\ PushWith(1, name, x, room, pushed)
  BY <1>2, <1>7 DEF PushedRight, SplitCallNames
<1> HIDE DEF name
<1> QED
  BY <1>1, <1>6, <1>8, PushInv

LEMMA PushBackInv ==
  ASSUME SplitInv, ~ sb.misplaced, NEW x \in Int, x < 0 \/ x \in 1 .. sizeOf(sb.at[1]), SplitPushBack(1, x)
  PROVE  SplitInv'
<1> DEFINE b == sb.at[1]
           room == RoomAtBack(b)
           v == Given(b, room, x)
           pushed == ConstructAtEnd(room, <<v>>)
           was == contents(b)
<1>1. GoodBuffer(b) /\ Roomy(b, room) /\ room.end + 1 <= Len(room.slots) /\ was \in Seq(SplitValues)
  BY SplitHas, RoomAtBackIs
<1>2. PushWith(1, "push back", x, room, pushed)
  BY DEF SplitPushBack
<1> HIDE DEF room
<1>3. v \in SplitValues /\ (x < 0 \/ room = b => v = IF x < 0 THEN x ELSE was[x])
  BY <1>1, GivenIs
<1> HIDE DEF v
<1>4. GoodBuffer(room) /\ contents(room) = was
  BY <1>1 DEF Roomy, KeepsElements
<1>5. Longer(room, pushed, <<v>>)
  <2> DEFINE xs == <<v>>
  <2>1. xs \in Seq(SplitValues) /\ Len(xs) = 1
    BY <1>3
  <2> HIDE DEF xs
  <2>2. room.end + Len(xs) <= Len(room.slots)
    BY <1>1, <2>1
  <2>3. Longer(room, ConstructAtEnd(room, xs), xs)
    BY <1>4, <2>1, <2>2, ConstructAtEndIs
  <2> QED
    BY <2>3 DEF xs
<1>6. GoodBuffer(pushed) /\ contents(pushed) = Append(was, v)
  <2> HIDE DEF was
  <2>1. was \o <<v>> = Append(was, v)
    BY <1>1, <1>3
  <2> QED
    BY <1>4, <1>5, <2>1 DEF Longer, KeepsElements
<1> HIDE DEF pushed
<1>7. ASSUME NEW ready \in BOOLEAN, ready <=> room = b PROVE Right(pushed, "push back", x, ready)
  <2>1. AsTold("push back", x, was, ready, Append(was, v), contents(sb.at[2]), capacity(pushed))
    <3> HIDE DEF was
    <3> QED
      BY <1>3, <1>7, DidPush
  <2> QED
    BY <1>6, <2>1 DEF Right
<1> DEFINE name == "push back"
<1>8. name \in SplitCallNames /\ PushedRight(pushed, name, x, room) /\ PushWith(1, name, x, room, pushed)
  BY <1>2, <1>7 DEF PushedRight, SplitCallNames
<1> HIDE DEF name
<1> QED
  BY <1>1, <1>6, <1>8, PushInv

(* A call that had the room for what it did.                               *)
AfterReady(b, name, x) == After(1, b, name, x, TRUE)
RightReady(b, name, x) == Right(b, name, x, TRUE)
LEMMA ReadyInv ==
  ASSUME SplitInv, ~ sb.misplaced, NEW b, GoodBuffer(b), NEW name \in SplitCallNames, NEW x \in SplitArguments,
         RightReady(b, name, x), AfterReady(b, name, x)
  PROVE  SplitInv'
<1> DEFINE ready == TRUE
<1>1. ready \in BOOLEAN /\ Right(b, name, x, ready) /\ After(1, b, name, x, ready)
  BY DEF AfterReady, RightReady
<1> HIDE DEF ready
<1> QED
  BY <1>1, AfterInv

LEMMA PopInv ==
  ASSUME SplitInv, ~ sb.misplaced, Pop(1)
  PROVE  SplitInv'
<1> DEFINE b == sb.at[1]
           was == contents(b)
<1>1. GoodBuffer(b) /\ Len(was) = sizeOf(b) /\ sizeOf(b) \in Nat
  BY SplitHas
<1>2. PICK n \in 0 .. sizeOf(b) :
        \/ After(1, DestructAtBegin(b, b.begin + n), "pop front", n, TRUE)
        \/ After(1, DestructAtEnd(b, b.end - n), "pop back", n, TRUE)
  BY DEF Pop
<1>3. n \in SplitArguments
  BY DEF SplitArguments
<1>4. CASE After(1, DestructAtBegin(b, b.begin + n), "pop front", n, TRUE)
  <2> DEFINE r == DestructAtBegin(b, b.begin + n)
  <2>1. KeepsElements(r, SubSeq(was, n + 1, sizeOf(b)))
    BY <1>1, DestructAtBeginIs
  <2>2. AfterReady(r, "pop front", n)
    BY <1>4 DEF AfterReady
  <2> HIDE DEF r
  <2>3. GoodBuffer(r) /\ contents(r) = SubSeq(was, n + 1, Len(was))
    BY <1>1, <2>1 DEF KeepsElements
  <2> DEFINE name == "pop front"
  <2>4. name \in SplitCallNames /\ RightReady(r, name, n) /\ AfterReady(r, name, n)
    BY <2>2, <2>3, DidPop DEF Right, RightReady, SplitCallNames
  <2> HIDE DEF name
  <2> QED
    BY <1>3, <2>3, <2>4, ReadyInv
<1>5. CASE After(1, DestructAtEnd(b, b.end - n), "pop back", n, TRUE)
  <2> DEFINE r == DestructAtEnd(b, b.end - n)
  <2>1. KeepsElements(r, SubSeq(was, 1, sizeOf(b) - n))
    BY <1>1, DestructAtEndIs
  <2>2. AfterReady(r, "pop back", n)
    BY <1>5 DEF AfterReady
  <2> HIDE DEF r
  <2>3. GoodBuffer(r) /\ contents(r) = SubSeq(was, 1, Len(was) - n)
    BY <1>1, <2>1 DEF KeepsElements
  <2> DEFINE name == "pop back"
  <2>4. name \in SplitCallNames /\ RightReady(r, name, n) /\ AfterReady(r, name, n)
    BY <2>2, <2>3, DidPop DEF Right, RightReady, SplitCallNames
  <2> HIDE DEF name
  <2> QED
    BY <1>3, <2>3, <2>4, ReadyInv
<1> QED
  BY <1>2, <1>4, <1>5

LEMMA ShrinkInv ==
  ASSUME SplitInv, ~ sb.misplaced, ShrinkToFit(1)
  PROVE  SplitInv'
<1> DEFINE b == sb.at[1]
           n == sizeOf(b)
           was == contents(b)
           zero == 0
           name == "shrink"
<1>1. /\ GoodBuffer(b) /\ FitBuffer(b) /\ Len(was) = n /\ n \in Nat
      /\ name \in SplitCallNames /\ zero \in SplitArguments /\ zero \in Nat
  BY SplitHas DEF SplitArguments, SplitCallNames
<1>2. \/ Full(b) /\ After(1, b, name, zero, TRUE)
      \/ After(1, Regrown(b, n, zero), name, zero, TRUE)
      \/ \E left \in MoveThrows(b) : After(1, left, "threw", zero, FALSE)
  BY DEF ShrinkToFit
<1>3. zero = 0
  OBVIOUS
<1> HIDE DEF zero, was, n
<1>9. AsTold(name, zero, was, TRUE, was, contents(sb.at[2]), Len(was))
  BY DidShrink
<1> HIDE DEF name
<1>4. \A r : GoodBuffer(r) /\ contents(r) = was /\ capacity(r) = n => RightReady(r, name, zero)
  <2> TAKE r
  <2> HAVE GoodBuffer(r) /\ contents(r) = was /\ capacity(r) = n
  <2> QED
    BY <1>1, <1>9 DEF Right, RightReady, was
<1>5. CASE Full(b) /\ After(1, b, name, zero, TRUE)
  <2>1. RightReady(b, name, zero) /\ AfterReady(b, name, zero)
    BY <1>1, <1>4, <1>5 DEF Full, was, n, AfterReady
  <2> QED
    BY <1>1, <1>5, <2>1, ReadyInv
<1>6. CASE After(1, Regrown(b, n, zero), name, zero, TRUE)
  <2> DEFINE r == Regrown(b, n, zero)
  <2>1. zero + sizeOf(b) <= n
    BY <1>1, <1>3 DEF n
  <2>2. MovedInto(r, b.alloc, n, zero, was)
    BY <1>1, <2>1, RegrownIs DEF was
  <2>3. AfterReady(r, name, zero)
    BY <1>6 DEF AfterReady
  <2> HIDE DEF r
  <2>4. GoodBuffer(r) /\ contents(r) = was /\ capacity(r) = n
    BY <2>2 DEF MovedInto, KeepsElements, capacity
  <2> QED
    BY <1>1, <1>4, <2>3, <2>4, ReadyInv
<1>7. ASSUME NEW left \in MoveThrows(b), After(1, left, "threw", zero, FALSE) PROVE SplitInv'
  BY <1>1, <1>7, MovesThrewInv
<1> QED
  BY <1>2, <1>5, <1>6, <1>7

(* Elements constructed at the end.                                        *)
LEMMA PrefixIs ==
  ASSUME NEW xs \in Seq(Int), NEW n \in 0 .. Len(xs)
  PROVE  SubSeq(xs, 1, n) \in Seq(Int) /\ Len(SubSeq(xs, 1, n)) = n
  OBVIOUS

LEMMA ValuesAre ==
  ASSUME NEW xs \in Seq(Int)
  PROVE  xs \in Seq(SplitValues) /\ xs \in SplitArguments /\ Len(xs) \in Nat
<1>1. xs \in [1 .. Len(xs) -> SplitValues] /\ Len(xs) \in Nat
  BY DEF SplitValues
<1> QED
  BY <1>1 DEF SplitArguments, SlotValues, SplitValues

LEMMA AppendedRight ==
  ASSUME NEW r, NEW xs, contents(r) = contents(sb.at[1]) \o xs
  PROVE  RightReady(r, "construct", xs)
  BY DidConstruct DEF RightReady, Right

LEMMA ConstructedInv ==
  ASSUME SplitInv, ~ sb.misplaced, NEW r, NEW xs \in Seq(Int), KeepsElements(r, contents(sb.at[1]) \o xs),
         After(1, r, "construct", xs, TRUE)
  PROVE  SplitInv'
<1> DEFINE name == "construct"
<1>1. GoodBuffer(r) /\ contents(r) = contents(sb.at[1]) \o xs /\ xs \in SplitArguments
  BY ValuesAre DEF KeepsElements
<1>2. name \in SplitCallNames /\ RightReady(r, name, xs) /\ AfterReady(r, name, xs)
  BY <1>1, AppendedRight DEF SplitCallNames, AfterReady
<1> HIDE DEF name
<1> QED
  BY <1>1, <1>2, ReadyInv

LEMMA ConstructElementsInv ==
  ASSUME SplitInv, ~ sb.misplaced, NEW xs \in Seq(Int), ConstructElements(1, xs)
  PROVE  SplitInv'
<1> DEFINE b == sb.at[1]
<1>1. /\ GoodBuffer(b) /\ b.slots \in Seq(SlotValues) /\ b.end \in Nat /\ BackSpare(b) = Len(b.slots) - b.end
      /\ Len(b.slots) \in Nat
  BY SplitHas, BufferHas DEF GoodBuffer, FitBuffer
<1>2. PICK n \in 0 .. Len(xs) : After(1, ConstructAtEnd(b, SubSeq(xs, 1, n)), "construct", SubSeq(xs, 1, n), TRUE)
  BY DEF ConstructElements
<1> DEFINE ys == SubSeq(xs, 1, n)
           r == ConstructAtEnd(b, ys)
<1>3. ys \in Seq(Int) /\ ys \in Seq(SplitValues) /\ Len(ys) = n
  BY PrefixIs, ValuesAre
<1>4. Len(xs) <= Len(b.slots) - b.end /\ After(1, r, "construct", ys, TRUE)
  BY <1>1, <1>2 DEF ConstructElements
<1> HIDE DEF ys
<1>5. b.end + Len(ys) <= Len(b.slots)
  BY <1>1, <1>3, <1>4
<1>6. Longer(b, r, ys)
  BY <1>1, <1>3, <1>5, ConstructAtEndIs
<1> HIDE DEF r
<1> QED
  BY <1>3, <1>4, <1>6, ConstructedInv DEF Longer

(* Input beyond the room: what fits, then a larger block, then the rest.   *)
LEMMA ConcatIs ==
  ASSUME NEW S, NEW xs \in Seq(S), NEW ys \in Seq(S), NEW m, m = Len(xs), NEW n, n = Len(xs) + Len(ys)
  PROVE  /\ m \in Nat /\ n \in Nat /\ xs \o ys \in Seq(S) /\ Len(xs \o ys) = n
         /\ \A i \in 1 .. n : (xs \o ys)[i] = IF i <= m THEN xs[i] ELSE ys[i - m]
  OBVIOUS

LEMMA Joined ==
  ASSUME NEW was \in Seq(SplitValues), NEW xs \in Seq(Int), NEW s \in Nat, NEW n \in s .. Len(xs)
  PROVE  (was \o SubSeq(xs, 1, s)) \o SubSeq(xs, s + 1, n) = was \o SubSeq(xs, 1, n)
<1>1. xs \in Seq(SplitValues) /\ n \in Nat /\ s <= n /\ n <= Len(xs)
  BY ValuesAre
<1> DEFINE a == SubSeq(xs, 1, s)
           c == SubSeq(xs, s + 1, n)
           d == SubSeq(xs, 1, n)
           k == Len(was)
           j == k + s
           m == k + n
<1>2. a \in Seq(SplitValues) /\ Len(a) = s /\ \A i \in 1 .. s : a[i] = xs[i]
  BY <1>1
<1>3. c \in Seq(SplitValues) /\ Len(c) = n - s /\ \A i \in 1 .. n - s : c[i] = xs[s + i]
  BY <1>1, SubSeqIs
<1>4. d \in Seq(SplitValues) /\ Len(d) = n /\ \A i \in 1 .. n : d[i] = xs[i]
  BY <1>1
<1>5. k \in Nat /\ j \in Nat /\ m \in Nat /\ j = k + s /\ m = k + n /\ m = j + (n - s)
  BY <1>1
<1> HIDE DEF a, c, d
<1> DEFINE l == was \o a
<1>6. k = Len(was) /\ j = Len(was) + Len(a) /\ m = Len(was) + Len(d)
  BY <1>2, <1>4
<1> HIDE DEF k, j, m
<1>7. l \in Seq(SplitValues) /\ Len(l) = j /\ \A i \in 1 .. j : l[i] = IF i <= k THEN was[i] ELSE a[i - k]
  BY <1>2, <1>6, ConcatIs
<1> HIDE DEF l
<1> DEFINE left == l \o c
           right == was \o d
<1>8. m = Len(l) + Len(c) /\ j = Len(l)
  BY <1>3, <1>5, <1>7
<1>9. left \in Seq(SplitValues) /\ Len(left) = m /\ \A i \in 1 .. m : left[i] = IF i <= j THEN l[i] ELSE c[i - j]
  <2>1. l \in Seq(SplitValues) /\ c \in Seq(SplitValues)
    BY <1>3, <1>7
  <2>2. ASSUME NEW a1 \in Seq(SplitValues), NEW a2 \in Seq(SplitValues), j = Len(a1), m = Len(a1) + Len(a2)
        PROVE  /\ a1 \o a2 \in Seq(SplitValues) /\ Len(a1 \o a2) = m
               /\ \A i \in 1 .. m : (a1 \o a2)[i] = IF i <= j THEN a1[i] ELSE a2[i - j]
    BY <2>2, ConcatIs
  <2> QED
    BY <2>1, <2>2, <1>8
<1>10. right \in Seq(SplitValues) /\ Len(right) = m
       /\ \A i \in 1 .. m : right[i] = IF i <= k THEN was[i] ELSE d[i - k]
  BY <1>4, <1>6, ConcatIs
<1> HIDE DEF left, right
<1>11. \A i \in 1 .. m : left[i] = right[i]
  <2> TAKE i \in 1 .. m
  <2>1. CASE i <= k
    <3>1. i \in 1 .. j
      BY <2>1, <1>5
    <3>2. left[i] = l[i] /\ right[i] = was[i]
      BY <2>1, <3>1, <1>5, <1>9, <1>10
    <3>3. l[i] = was[i]
      BY <2>1, <3>1, <1>7
    <3> QED
      BY <3>2, <3>3
  <2>2. CASE k < i /\ i <= j
    <3>1. i - k \in 1 .. s /\ i - k \in 1 .. n
      BY <2>2, <1>1, <1>5
    <3>2. a[i - k] = d[i - k]
      BY <3>1, <1>2, <1>4
    <3>3. left[i] = l[i] /\ l[i] = a[i - k] /\ right[i] = d[i - k]
      BY <2>2, <1>5, <1>7, <1>9, <1>10
    <3> QED
      BY <3>2, <3>3
  <2>3. CASE j < i
    <3>1. i - k \in 1 .. n /\ i - j \in 1 .. n - s /\ s + (i - j) = i - k
      BY <2>3, <1>1, <1>5
    <3>2. c[i - j] = xs[i - k] /\ d[i - k] = xs[i - k]
      BY <3>1, <1>3, <1>4
    <3>3. ~ (i <= j) /\ ~ (i <= k)
      BY <2>3, <1>5
    <3>4. left[i] = c[i - j]
      BY <3>3, <1>9
    <3>5. right[i] = d[i - k]
      BY <3>3, <1>10
    <3> QED
      BY <3>2, <3>4, <3>5
  <2> QED
    BY <2>1, <2>2, <2>3, <1>5
<1>12. left = right
  BY <1>9, <1>10, <1>11, SeqSame
<1> QED
  BY <1>12 DEF left, right, l, a, c, d

(* The block that input grows to has room for all of it.                   *)
GrownInput(cap) == Max({2 * cap, FirstGrowth})
LEMMA InputFits ==
  ASSUME NEW cap \in Nat, NEW used \in Nat, used <= cap, NEW n \in Nat, n <= InputLength
  PROVE  GrownInput(cap) \in Nat /\ cap <= GrownInput(cap) /\ used + n <= GrownInput(cap)
<1> DEFINE k == 2 * cap
<1>1. k \in Nat /\ FirstGrowth \in Nat /\ 2 * InputLength <= FirstGrowth + 1 /\ InputLength \in Nat /\ k = cap + cap
  BY SplitBufferAssumption
<1> HIDE DEF k
<1>2. Max({k, FirstGrowth}) \in {k, FirstGrowth} /\ Max({k, FirstGrowth}) >= k /\ Max({k, FirstGrowth}) >= FirstGrowth
  BY <1>1, MaxTwo
<1> DEFINE m == Max({k, FirstGrowth})
<1>3. m \in Nat /\ m >= k /\ m >= FirstGrowth
  BY <1>1, <1>2
<1> HIDE DEF m
<1>4. cap <= m /\ used + n <= m
  BY <1>1, <1>3
<1> QED
  BY <1>3, <1>4 DEF m, k, GrownInput

LEMMA ConstructFromInputInv ==
  ASSUME SplitInv, ~ sb.misplaced, NEW xs \in Seq(Int), Len(xs) <= InputLength, ConstructFromInput(1, xs)
  PROVE  SplitInv'
<1> DEFINE b == sb.at[1]
           was == contents(b)
           s == BackSpare(b)
           a == SubSeq(xs, 1, s)
           full == ConstructAtEnd(b, a)
           cap == GrownInput(capacity(b))
           zero == 0
           grown == Regrown(full, cap, zero)
           Rest(n) == SubSeq(xs, s + 1, n)
           Result(n) == ConstructAtEnd(grown, Rest(n))
           size == Len(b.slots)
           begin == b.begin
           end == b.end
           count == Len(xs)
<1>1. GoodBuffer(b) /\ FitBuffer(b) /\ b \in SplitBuffers /\ was \in Seq(SplitValues) /\ Len(was) = end - begin
  BY SplitHas, ContentsAre DEF GoodBuffer, FitBuffer
<1>2. /\ begin \in Nat /\ end \in Nat /\ begin <= end /\ end <= size /\ s = size - end /\ size \in Nat
      /\ capacity(b) = size /\ s \in Nat /\ count \in Nat
  <2>1. b.begin \in Nat /\ b.end \in Nat /\ b.slots \in Seq(SlotValues) /\ capacity(b) = size /\ s = size - end
    BY <1>1, BufferHas
  <2>2. b.begin <= b.end /\ b.end <= Len(b.slots)
    BY <1>1 DEF FitBuffer, FitSlots
  <2>3. size \in Nat /\ count \in Nat
    BY <2>1
  <2> HIDE DEF s, size, count
  <2> QED
    BY <2>1, <2>2, <2>3 DEF size
<1>3. /\ s < count
      /\ \/ \E n \in s .. count : After(1, Result(n), "construct", SubSeq(xs, 1, n), TRUE)
         \/ \E left \in MoveThrows(full) : After(1, left, "threw", a, FALSE)
  <2>1. Len(xs) > s
    BY DEF ConstructFromInput
  <2>2. \/ \E n \in s .. count : After(1, Result(n), "construct", SubSeq(xs, 1, n), TRUE)
        \/ \E left \in MoveThrows(full) : After(1, left, "threw", a, FALSE)
    BY Zenon DEF ConstructFromInput, GrownInput
  <2> HIDE DEF s, count
  <2> QED
    BY <2>1, <2>2, <1>2 DEF count
<1>4. zero \in Nat /\ zero = 0
  OBVIOUS
<1> HIDE DEF s, zero, cap
<1>5. a \in Seq(Int) /\ a \in Seq(SplitValues) /\ a \in SplitArguments /\ Len(a) = s
  <2>1. s \in 0 .. Len(xs)
    BY <1>2, <1>3
  <2> QED
    BY <2>1, PrefixIs, ValuesAre
<1>6. count <= InputLength /\ \A n \in s .. count : (was \o a) \o Rest(n) = was \o SubSeq(xs, 1, n)
  BY <1>1, <1>2, Joined
<1>7. \A n \in s .. count : /\ Rest(n) \in Seq(SplitValues) /\ Len(Rest(n)) = n - s /\ SubSeq(xs, 1, n) \in Seq(Int)
  <2> TAKE n \in s .. count
  <2>1. n \in Nat /\ s <= n /\ n <= Len(xs) /\ n \in 0 .. Len(xs) /\ s \in Nat
    BY <1>2
  <2>2. xs \in Seq(SplitValues)
    BY ValuesAre
  <2> QED
    BY <2>1, <2>2, SubSeqIs, PrefixIs
<1> HIDE DEF a, Rest
<1>8. end + Len(a) <= size
  BY <1>2, <1>5
<1>9. Longer(b, full, a)
  BY <1>1, <1>5, <1>8, ConstructAtEndIs
<1> HIDE DEF full
<1>10. /\ GoodBuffer(full) /\ contents(full) = was \o a /\ FitBuffer(full) /\ full.end = end + Len(a)
       /\ full.begin = begin /\ Len(contents(full)) = full.end - full.begin /\ sizeOf(full) = full.end - full.begin
  BY <1>9, ContentsAre DEF Longer, KeepsElements, GoodBuffer, sizeOf
<1>11. sizeOf(full) = (end - begin) + s /\ Len(contents(full)) = (end - begin) + s
  BY <1>2, <1>5, <1>10
<1>12. cap \in Nat /\ size <= cap /\ (end - begin) + count <= cap
  <2> DEFINE used == end - begin
  <2>1. used \in Nat /\ used <= size /\ size \in Nat /\ count \in Nat /\ count <= InputLength /\ cap = GrownInput(size)
    BY <1>2, <1>6 DEF cap
  <2> HIDE DEF used, size, count
  <2> QED
    BY <2>1, InputFits DEF used
<1> HIDE DEF size, begin, end, count, was
<1>13. CASE \E n \in s .. count : After(1, Result(n), "construct", SubSeq(xs, 1, n), TRUE)
  <2>1. PICK n \in s .. count : After(1, Result(n), "construct", SubSeq(xs, 1, n), TRUE)
    BY <1>13
  <2> DEFINE r == Result(n)
             c == Rest(n)
             ys == SubSeq(xs, 1, n)
  <2>2. zero + sizeOf(full) <= cap
    BY <1>2, <1>4, <1>11, <1>12
  <2>3. MovedInto(grown, full.alloc, cap, zero, contents(full))
    BY <1>4, <1>10, <1>12, <2>2, RegrownIs
  <2> HIDE DEF grown
  <2>4. GoodBuffer(grown) /\ contents(grown) = was \o a /\ Len(grown.slots) = cap /\ grown.end = zero + ((end - begin) + s)
    BY <1>10, <1>11, <2>3 DEF MovedInto, KeepsElements
  <2>5. c \in Seq(SplitValues) /\ Len(c) = n - s /\ (was \o a) \o c = was \o ys /\ ys \in Seq(Int)
    BY <1>6, <1>7
  <2>6. n \in Nat /\ n <= count
    BY <1>2
  <2> HIDE DEF c, ys
  <2>7. grown.end + Len(c) <= Len(grown.slots)
    <3>1. grown.end + Len(c) = ((end - begin) + s) + (n - s)
      BY <1>2, <1>4, <2>4, <2>5
    <3>2. ((end - begin) + s) + (n - s) <= cap
      BY <1>2, <1>12, <2>6
    <3> QED
      BY <3>1, <3>2, <2>4
  <2>8. Longer(grown, r, c)
    BY <2>4, <2>5, <2>7, ConstructAtEndIs DEF c
  <2>9. After(1, r, "construct", ys, TRUE)
    BY <2>1 DEF ys
  <2> HIDE DEF r
  <2>10. KeepsElements(r, was \o ys)
    BY <2>4, <2>5, <2>8 DEF Longer
  <2> QED
    BY <2>5, <2>9, <2>10, ConstructedInv DEF was
<1>14. CASE \E left \in MoveThrows(full) : After(1, left, "threw", a, FALSE)
  <2>1. PICK left \in MoveThrows(full) : After(1, left, "threw", a, FALSE)
    BY <1>14
  <2>2. PICK n \in 0 .. sizeOf(full) : SomeHollow(full, left, n)
    BY <1>10, ThrowsIs
  <2>3. sizeOf(full) \in Nat /\ sizeOf(full) >= Len(was) /\ Len(was) \in Nat
    BY <1>1, <1>2, <1>11
  <2>4. \A i \in 1 .. Len(was) : contents(full)[i] = was[i]
    BY <1>1, <1>5, <1>10
  <2>5. GoodBuffer(left) /\ Len(contents(left)) >= Len(was)
    BY <2>2, <2>3 DEF SomeHollow
  <2>6. \A i \in 1 .. Len(was) : contents(left)[i] = was[i] \/ contents(left)[i] = Hollow
    BY <2>2, <2>3, <2>4 DEF SomeHollow
  <2> DEFINE no == FALSE
  <2>7. After(1, left, "threw", a, no) /\ no \in BOOLEAN /\ MayBeLeft(was, contents(left), no)
    BY <2>1, <2>5, <2>6 DEF MayBeLeft
  <2> HIDE DEF no
  <2> QED
    BY <1>5, <2>5, <2>7, ThrewInv DEF was
<1> QED
  BY <1>3, <1>13, <1>14

(* A buffer without elements.                                              *)
LEMMA EmptyInv ==
  ASSUME SplitInv, ~ sb.misplaced, NEW r, KeepsElements(r, <<>>), After(1, r, "create", 0, TRUE)
  PROVE  SplitInv'
<1> DEFINE name == "create"
           zero == 0
<1>1. GoodBuffer(r) /\ zero \in SplitArguments /\ name \in SplitCallNames
  BY DEF KeepsElements, SplitArguments, SplitCallNames
<1>2. RightReady(r, name, zero) /\ AfterReady(r, name, zero)
  BY DidCreate DEF KeepsElements, RightReady, Right, AfterReady
<1> HIDE DEF name, zero
<1> QED
  BY <1>1, <1>2, ReadyInv

LEMMA NullIs ==
  ASSUME NEW c, FitBuffer(c)
  PROVE  KeepsElements(NullBuffer(c), <<>>)
<1> DEFINE zero == 0
<1>1. c.alloc \in SplitAllocators /\ zero \in Nat /\ zero <= zero
  BY BufferHas DEF FitBuffer
<1>2. NullBuffer(c) = NewBuffer(c.alloc, zero, zero)
  BY DEF NullBuffer
<1> HIDE DEF zero
<1> QED
  BY <1>1, <1>2, NewIs DEF NewLike

LEMMA CreateInv ==
  ASSUME SplitInv, ~ sb.misplaced, NEW cap \in Nat, NEW start \in 0 .. cap, NEW alloc \in SplitAllocators,
         Create(1, cap, start, alloc)
  PROVE  SplitInv'
<1>1. start \in Nat /\ start <= cap
  OBVIOUS
<1>2. KeepsElements(NewBuffer(alloc, cap, start), <<>>)
  BY <1>1, NewIs DEF NewLike
<1> QED
  BY <1>2, EmptyInv DEF Create

LEMMA AssignItselfInv ==
  ASSUME SplitInv, ~ sb.misplaced, AssignItself(1)
  PROVE  SplitInv'
<1>1. KeepsElements(NullBuffer(sb.at[1]), <<>>)
  BY SplitHas, NullIs
<1> QED
  BY <1>1, EmptyInv DEF AssignItself

(* Calls on two buffers.                                                   *)
LEMMA MovedInv ==
  ASSUME SplitInv, ~ sb.misplaced, NEW c, FitBuffer(c), contents(c) = contents(sb.at[2]), NEW d, KeepsElements(d, <<>>),
         NEW misplaced \in BOOLEAN, ~ misplaced => GoodBuffer(c), OnBoth(1, c, d, "move", misplaced)
  PROVE  SplitInv'
<1> DEFINE name == "move"
<1>1. FitBuffer(d) /\ (~ misplaced => GoodBuffer(c) /\ GoodBuffer(d))
  BY DEF KeepsElements, GoodBuffer
<1>2. name \in SplitCallNames /\ BothRight(c, d, name) /\ OnBoth(1, c, d, name, misplaced)
  BY DidMove DEF SplitCallNames, BothRight, KeepsElements
<1> HIDE DEF name
<1> QED
  BY <1>1, <1>2, OnBothInv

LEMMA MoveBufferInv ==
  ASSUME SplitInv, ~ sb.misplaced, OnBoth(1, sb.at[2], NullBuffer(sb.at[2]), "move", FALSE)
  PROVE  SplitInv'
<1> DEFINE c == sb.at[2]
           d == NullBuffer(c)
           no == FALSE
<1>1. FitBuffer(c) /\ GoodBuffer(c) /\ KeepsElements(d, <<>>) /\ contents(c) = contents(sb.at[2])
  BY SplitHas, NullIs
<1>2. no \in BOOLEAN /\ OnBoth(1, c, d, "move", no)
  OBVIOUS
<1> HIDE DEF no, d
<1> QED
  BY <1>1, <1>2, MovedInv

(* A buffer with another allocator.                                        *)
LEMMA AnotherIs ==
  ASSUME NEW c, FitBuffer(c), NEW alloc \in SplitAllocators
  PROVE  /\ FitBuffer([c EXCEPT !.alloc = alloc]) /\ contents([c EXCEPT !.alloc = alloc]) = contents(c)
         /\ sizeOf([c EXCEPT !.alloc = alloc]) = sizeOf(c) /\ [c EXCEPT !.alloc = alloc].alloc = alloc
         /\ capacity(c) \in Nat /\ capacity(c) = Len(c.slots)
         /\ (GoodBuffer(c) /\ (capacity(c) = 0 \/ alloc = c.alloc) => GoodBuffer([c EXCEPT !.alloc = alloc]))
<1> DEFINE r == [c EXCEPT !.alloc = alloc]
<1>1. c \in SplitBuffers /\ FitSlots(c.slots, c.begin, c.end, c.slid)
  BY DEF FitBuffer
<1>2. /\ r \in SplitBuffers /\ r.alloc = alloc /\ r.from = c.from /\ r.slots = c.slots /\ r.begin = c.begin
      /\ r.end = c.end /\ r.slid = c.slid
  BY <1>1 DEF SplitBuffers
<1> HIDE DEF r
<1>3. FitBuffer(r) /\ contents(r) = contents(c) /\ sizeOf(r) = sizeOf(c)
  BY <1>1, <1>2 DEF FitBuffer, contents, sizeOf
<1>4. capacity(c) \in Nat /\ capacity(c) = Len(c.slots)
  BY <1>1, BufferHas
<1>5. GoodBuffer(c) /\ (capacity(c) = 0 \/ alloc = c.alloc) => GoodBuffer(r)
  BY <1>2, <1>3, <1>4 DEF GoodBuffer
<1> QED
  BY <1>2, <1>3, <1>4, <1>5 DEF r

LEMMA AssignBufferInv ==
  ASSUME SplitInv, ~ sb.misplaced, MoveAssignBuffer(1)
  PROVE  SplitInv'
<1> DEFINE c == sb.at[2]
           d == NullBuffer(c)
           alloc == IF sb.propagate THEN c.alloc ELSE sb.at[1].alloc
           r == [c EXCEPT !.alloc = alloc]
           misplaced == capacity(c) > 0 /\ alloc # c.alloc
<1>1. FitBuffer(c) /\ GoodBuffer(c) /\ KeepsElements(d, <<>>) /\ FitBuffer(sb.at[1])
  BY SplitHas, NullIs
<1>2. c.alloc \in SplitAllocators /\ sb.at[1].alloc \in SplitAllocators
  BY <1>1, BufferHas DEF FitBuffer
<1>3. alloc \in SplitAllocators
  BY <1>2
<1>4. OnBoth(1, r, d, "move", misplaced)
  BY DEF MoveAssignBuffer
<1> HIDE DEF alloc
<1>5. /\ FitBuffer(r) /\ contents(r) = contents(c) /\ capacity(c) \in Nat
      /\ (capacity(c) = 0 \/ alloc = c.alloc => GoodBuffer(r))
  BY <1>1, <1>3, AnotherIs
<1>6. misplaced \in BOOLEAN /\ (~ misplaced => GoodBuffer(r))
  BY <1>5
<1> HIDE DEF r, d, misplaced
<1> QED
  BY <1>1, <1>4, <1>5, <1>6, MovedInv

LEMMA SwapBuffersInv ==
  ASSUME SplitInv, ~ sb.misplaced, SwapBuffers(1)
  PROVE  SplitInv'
<1> DEFINE b == sb.at[1]
           c == sb.at[2]
           name == "swap"
           no == FALSE
<1>1. FitBuffer(b) /\ FitBuffer(c) /\ GoodBuffer(b) /\ GoodBuffer(c)
  BY SplitHas
<1>2. name \in SplitCallNames /\ BothRight(c, b, name) /\ OnBoth(1, c, b, name, no) /\ no \in BOOLEAN
  <2>1. name \in SplitCallNames /\ no \in BOOLEAN
    BY DEF SplitCallNames
  <2>2. BothRight(c, b, name)
    BY DidMove DEF BothRight
  <2>3. OnBoth(1, c, b, name, no)
    <3>1. 3 - 1 = 2
      OBVIOUS
    <3> QED
      BY <3>1 DEF SwapBuffers
  <2> QED
    BY <2>1, <2>2, <2>3
<1> HIDE DEF name, no
<1> QED
  BY <1>1, <1>2, OnBothInv

(* Elements moved one by one to a block of the other allocator, or lost.   *)
LEMMA MoveWithInv ==
  ASSUME SplitInv, ~ sb.misplaced, NEW alloc \in SplitAllocators, MoveConstructBufferWith(1, alloc)
  PROVE  SplitInv'
<1> DEFINE c == sb.at[2]
           d == [c EXCEPT !.alloc = alloc]
           zero == 0
           size == sizeOf(c)
           r == Regrown(d, size, zero)
           left == Hollowed(c, size)
           none == NewBuffer(alloc, zero, zero)
           no == FALSE
           moved == "move elements"
           lost == "lost"
<1>1. FitBuffer(c) /\ GoodBuffer(c) /\ size \in Nat
  BY SplitHas
<1>2. \/ OnBoth(1, c, NullBuffer(c), "move", FALSE)
      \/ OnBoth(1, r, left, moved, no)
      \/ \E rest \in MoveThrows(c) : OnBoth(1, none, rest, lost, no)
  <2>1. 3 - 1 = 2
    OBVIOUS
  <2>2. CASE alloc = c.alloc
    BY <2>1, <2>2 DEF MoveConstructBufferWith
  <2>3. CASE alloc # c.alloc
    BY <2>1, <2>3, Zenon DEF MoveConstructBufferWith
  <2> QED
    BY <2>2, <2>3
<1>3. zero \in Nat /\ zero = 0 /\ zero <= zero /\ no \in BOOLEAN /\ moved \in SplitCallNames /\ lost \in SplitCallNames
  BY DEF SplitCallNames
<1>4. FitBuffer(d) /\ contents(d) = contents(c) /\ sizeOf(d) = size
  BY <1>1, AnotherIs
<1>5. CASE OnBoth(1, c, NullBuffer(c), "move", FALSE)
  BY <1>5, MoveBufferInv
<1>6. CASE OnBoth(1, r, left, moved, no)
  <2>1. SomeHollow(c, left, size)
    BY <1>1, HollowedIs
  <2>2. FitBuffer(left) /\ GoodBuffer(left) /\ \A i \in DOMAIN contents(left) : contents(left)[i] = Hollow
    BY <1>1, <2>1 DEF SomeHollow, GoodBuffer
  <2> HIDE DEF left, zero, size, d
  <2>3. zero + sizeOf(d) <= size
    <3>1. sizeOf(d) = size /\ size \in Nat
      BY <1>1, <1>4
    <3>2. zero + size = size
      <4>1. zero = 0
        BY DEF zero
      <4> QED
        BY <3>1, <4>1
    <3>3. zero + sizeOf(d) = size
      BY <3>1, <3>2
    <3> QED
      BY <3>1, <3>3
  <2>4. MovedInto(r, d.alloc, size, zero, contents(d))
    BY <1>1, <1>3, <1>4, <2>3, RegrownIs
  <2> HIDE DEF r
  <2>5. FitBuffer(r) /\ GoodBuffer(r) /\ contents(r) = contents(c)
    BY <1>4, <2>4 DEF MovedInto, KeepsElements, GoodBuffer
  <2>6. BothRight(r, left, moved)
    BY <2>2, <2>5, DidMove DEF BothRight
  <2> HIDE DEF moved, no
  <2> QED
    BY <1>3, <1>6, <2>2, <2>5, <2>6, OnBothInv
<1>7. ASSUME NEW rest \in MoveThrows(c), OnBoth(1, none, rest, lost, no) PROVE SplitInv'
  <2>1. PICK n \in 0 .. sizeOf(c) : SomeHollow(c, rest, n)
    BY <1>1, ThrowsIs
  <2>2. FitBuffer(rest) /\ GoodBuffer(rest)
    BY <2>1 DEF SomeHollow, GoodBuffer
  <2> HIDE DEF zero
  <2>3. NewLike(none, alloc, zero, zero)
    BY <1>3, NewIs
  <2> HIDE DEF none
  <2>4. FitBuffer(none) /\ GoodBuffer(none) /\ contents(none) = <<>>
    BY <2>3 DEF NewLike, KeepsElements, GoodBuffer
  <2>5. BothRight(none, rest, lost)
    BY <2>4, DidCreate DEF BothRight
  <2> HIDE DEF lost, no
  <2> QED
    BY <1>3, <1>7, <2>2, <2>4, <2>5, OnBothInv
<1> QED
  BY <1>2, <1>5, <1>6, <1>7

-------------------------------------------------------------------------------
(* From the start, and on each step.                                       *)
LEMMA SplitBegin ==
  ASSUME SplitInit
  PROVE  SplitInv
<1> DEFINE zero == 0
           new(alloc) == NewBuffer(alloc, zero, zero)
<1>1. PICK propagate \in BOOLEAN, at \in [1 .. 2 -> {new(alloc) : alloc \in SplitAllocators}] :
        sb = [propagate |-> propagate, at |-> at, misplaced |-> FALSE, calls |-> 0,
              call |-> [name |-> "create", on |-> 1, arg |-> 0, was |-> <<>>, ready |-> TRUE]]
  BY DEF SplitInit
<1>2. \A alloc \in SplitAllocators : GoodBuffer(new(alloc)) /\ contents(new(alloc)) = <<>> /\ FitBuffer(new(alloc))
        /\ new(alloc) \in SplitBuffers
  <2> TAKE alloc \in SplitAllocators
  <2>1. zero \in Nat /\ zero <= zero
    OBVIOUS
  <2> HIDE DEF zero
  <2>2. NewLike(new(alloc), alloc, zero, zero)
    BY <2>1, NewIs
  <2> QED
    BY <2>2 DEF NewLike, KeepsElements, GoodBuffer, FitBuffer
<1> HIDE DEF new
<1>3. /\ at \in [1 .. 2 -> SplitBuffers] /\ contents(at[1]) = <<>>
      /\ \A h \in 1 .. 2 : GoodBuffer(at[h]) /\ FitBuffer(at[h])
  <2>1. \A h \in 1 .. 2 : \E alloc \in SplitAllocators : at[h] = new(alloc)
    BY <1>1
  <2> QED
    BY <1>1, <1>2, <2>1
<1>4. /\ sb.at = at /\ sb.call = CallOf("create", 0, <<>>, TRUE) /\ sb.misplaced = FALSE /\ sb.calls = 0
      /\ sb.propagate = propagate
  BY <1>1 DEF CallOf
<1>5. CallOf("create", 0, <<>>, TRUE) \in SplitCallRecords
  BY DEF CallOf, SplitCallRecords, SplitCallNames, SplitArguments
<1>6. sb \in SplitStates
  <2> DEFINE call == [name |-> "create", on |-> 1, arg |-> 0, was |-> <<>>, ready |-> TRUE]
  <2>1. call \in SplitCallRecords
    BY <1>5 DEF CallOf
  <2> HIDE DEF call
  <2>2. sb = [propagate |-> propagate, at |-> at, misplaced |-> FALSE, calls |-> 0, call |-> call]
    BY <1>1 DEF call
  <2> QED
    BY <1>3, <2>1, <2>2 DEF SplitStates
<1>7. AsTold("create", 0, <<>>, TRUE, <<>>, contents(at[2]), capacity(at[1]))
  BY DidCreate
<1>8. AsTold(sb.call.name, sb.call.arg, sb.call.was, sb.call.ready, contents(sb.at[1]), contents(sb.at[2]),
          capacity(sb.at[1]))
  <2>1. sb.call.name = "create" /\ sb.call.arg = 0 /\ sb.call.was = <<>> /\ sb.call.ready = TRUE
    BY <1>4 DEF CallOf
  <2> QED
    BY <1>3, <1>4, <1>7, <2>1
<1> QED
  BY <1>3, <1>4, <1>6, <1>8 DEF SplitInv

(* Values are negative, elements are positions.                            *)
NewValue(i) == -(InputLength * sb.calls + i)
NewInput(n) == [i \in 1 .. n |-> NewValue(i)]
LEMMA NewValuesAre ==
  ASSUME SplitInv
  PROVE  /\ \A i \in Nat \ {0} : NewValue(i) \in Int /\ NewValue(i) < 0
         /\ \A n \in 0 .. InputLength : NewInput(n) \in Seq(Int) /\ Len(NewInput(n)) = n /\ n <= InputLength
<1> DEFINE k == InputLength * sb.calls
<1>1. sb.calls \in Nat /\ InputLength \in Nat
  BY SplitBufferAssumption DEF SplitInv, SplitStates
<1>2. k \in Nat
  BY <1>1
<1>3. \A i : NewValue(i) = -(k + i)
  BY DEF NewValue
<1> HIDE DEF k
<1>4. \A i \in Nat \ {0} : NewValue(i) \in Int /\ NewValue(i) < 0
  BY <1>2, <1>3
<1>5. ASSUME NEW n \in 0 .. InputLength PROVE NewInput(n) \in Seq(Int) /\ Len(NewInput(n)) = n /\ n <= InputLength
  <2>1. n \in Nat /\ n <= InputLength /\ \A i \in 1 .. n : NewValue(i) \in Int
    BY <1>1, <1>4
  <2>2. NewInput(n) \in [1 .. n -> Int]
    BY <2>1 DEF NewInput
  <2> QED
    BY <2>1, <2>2
<1> QED
  BY <1>4, <1>5

LEMMA SplitMoves ==
  ASSUME SplitNext
  PROVE  /\ ~ sb.misplaced
         /\ \/ \E x \in {NewValue(1)} \cup 1 .. sizeOf(sb.at[1]) : SplitPushFront(1, x) \/ SplitPushBack(1, x)
            \/ \E n \in 0 .. InputLength : ConstructElements(1, NewInput(n)) \/ ConstructFromInput(1, NewInput(n))
            \/ \E cap \in 0 .. SplitRoom, alloc \in SplitAllocators : \E start \in 0 .. cap : Create(1, cap, start, alloc)
            \/ \E alloc \in SplitAllocators : MoveConstructBufferWith(1, alloc)
            \/ Pop(1) \/ ShrinkToFit(1) \/ MoveConstructBuffer(1) \/ MoveAssignBuffer(1) \/ AssignItself(1)
            \/ SwapBuffers(1)
  BY Zenon DEF SplitNext, NewInput, NewValue

LEMMA SplitStep ==
  ASSUME SplitInv, [SplitNext]_sb
  PROVE  SplitInv'
<1>1. CASE UNCHANGED sb
  BY <1>1 DEF SplitInv, FitBuffer, GoodBuffer, FitSlots, AsTold, contents, capacity
<1>2. ASSUME SplitNext PROVE SplitInv'
  <2>1. ~ sb.misplaced
    BY <1>2, SplitMoves
  <2>2. ASSUME NEW x \in {NewValue(1)} \cup 1 .. sizeOf(sb.at[1]), SplitPushFront(1, x) \/ SplitPushBack(1, x)
        PROVE  SplitInv'
    <3>1. x \in Int /\ (x < 0 \/ x \in 1 .. sizeOf(sb.at[1]))
      BY NewValuesAre
    <3> QED
      BY <2>1, <2>2, <3>1, PushFrontInv, PushBackInv
  <2>3. ASSUME NEW n \in 0 .. InputLength, ConstructElements(1, NewInput(n)) \/ ConstructFromInput(1, NewInput(n))
        PROVE  SplitInv'
    <3>1. NewInput(n) \in Seq(Int) /\ Len(NewInput(n)) <= InputLength
      BY NewValuesAre
    <3> DEFINE xs == NewInput(n)
    <3>2. ConstructElements(1, xs) \/ ConstructFromInput(1, xs)
      BY <2>3
    <3> HIDE DEF xs
    <3> QED
      BY <2>1, <3>1, <3>2, ConstructElementsInv, ConstructFromInputInv DEF xs
  <2>4. ASSUME NEW cap \in 0 .. SplitRoom, NEW alloc \in SplitAllocators, NEW start \in 0 .. cap,
               Create(1, cap, start, alloc)
        PROVE  SplitInv'
    <3>1. cap \in Nat
      BY SplitBufferAssumption
    <3> QED
      BY <2>1, <2>4, <3>1, CreateInv
  <2>5. ASSUME NEW alloc \in SplitAllocators, MoveConstructBufferWith(1, alloc) PROVE SplitInv'
    BY <2>1, <2>5, MoveWithInv
  <2>6. CASE Pop(1)
    BY <2>1, <2>6, PopInv
  <2>7. CASE ShrinkToFit(1)
    BY <2>1, <2>7, ShrinkInv
  <2>8. CASE MoveConstructBuffer(1)
    <3>1. 3 - 1 = 2
      OBVIOUS
    <3>2. OnBoth(1, sb.at[2], NullBuffer(sb.at[2]), "move", FALSE)
      BY <2>8, <3>1 DEF MoveConstructBuffer
    <3> QED
      BY <2>1, <3>2, MoveBufferInv
  <2>9. CASE MoveAssignBuffer(1)
    BY <2>1, <2>9, AssignBufferInv
  <2>10. CASE AssignItself(1)
    BY <2>1, <2>10, AssignItselfInv
  <2>11. CASE SwapBuffers(1)
    BY <2>1, <2>11, SwapBuffersInv
  <2> QED
    BY <1>2, SplitMoves, <2>2, <2>3, <2>4, <2>5, <2>6, <2>7, <2>8, <2>9, <2>10, <2>11
<1> QED
  BY <1>1, <1>2

(* What it comes to.                                                       *)
LEMMA SplitInvHolds ==
  ASSUME SplitInv
  PROVE  SplitBuffersHold
<1>1. sb.call.on = 1 /\ sb \in SplitStates
  BY DEF SplitInv, SplitStates, SplitCallRecords
<1>2. ASSUME NEW h \in 1 .. 2
      PROVE  LET b == sb.at[h] IN
             /\ 0 <= b.begin /\ b.begin <= b.end /\ b.end <= capacity(b)
             /\ ~ b.slid => \A p \in DOMAIN b.slots : b.slots[p] = Raw <=> p \notin (b.begin + 1) .. b.end
             /\ b.from = b.alloc \/ capacity(b) = 0 \/ sb.misplaced
  <2> DEFINE b == sb.at[h]
             slots == b.slots
             begin == b.begin
             end == b.end
  <2>1. FitBuffer(b) /\ b \in SplitBuffers /\ FitSlots(slots, begin, end, b.slid)
        /\ (~ sb.misplaced => b.from = b.alloc \/ Len(slots) = 0)
    BY DEF SplitInv, FitBuffer, GoodBuffer
  <2>2. begin \in Nat /\ end \in Nat /\ capacity(b) = Len(slots) /\ slots \in Seq(SlotValues)
    BY <2>1, BufferHas
  <2>3. 0 <= begin /\ begin <= end /\ end <= capacity(b) /\ DOMAIN slots = 1 .. Len(slots)
    BY <2>1, <2>2 DEF FitSlots
  <2>4. ASSUME ~ b.slid, NEW p \in 1 .. Len(slots) PROVE slots[p] = Raw <=> p \notin (begin + 1) .. end
    <3>1. p \in Int /\ (p \in (begin + 1) .. end <=> begin < p /\ p <= end)
      BY <2>2
    <3>2. /\ begin < p /\ p <= end => slots[p] # Raw
          /\ p <= begin \/ end < p => slots[p] = Raw
      BY <2>1, <2>4 DEF FitSlots
    <3>3. (p <= begin \/ end < p) <=> ~ (begin < p /\ p <= end)
      BY <2>2
    <3> QED
      BY <3>1, <3>2, <3>3
  <2> QED
    BY <2>1, <2>2, <2>3, <2>4
<1>3. 3 - sb.call.on = 2
  BY <1>1
<1>4. AsTold(sb.call.name, sb.call.arg, sb.call.was, sb.call.ready, contents(sb.at[1]), contents(sb.at[2]),
           capacity(sb.at[1]))
  BY DEF SplitInv
<1> QED
  BY <1>1, <1>2, <1>3, <1>4, Zenon DEF SplitBuffersHold, AsTold

-------------------------------------------------------------------------------
(* All together.                                                           *)

(* Tables of every kind. A perfect hash table and a bounded graph that are *)
(* not used need not be ones that could be.                                *)
TablesInv ==
  TableInv /\ OrderedInv /\ Of("perfect hash", PerfectInv) /\ Of("bounded graph", BoundedGraphInv)

LEMMA TablesBegin ==
  ASSUME StructuresInit
  PROVE  TablesInv
<1>1. TableInit /\ OrderedInit
  BY DEF StructuresInit
<1>2. part = "perfect hash" => PerfectInit
  BY DEF StructuresInit
<1>3. part = "bounded graph" => BoundedGraphInit
  BY DEF StructuresInit
<1> QED
  BY <1>1, <1>2, <1>3, TableBegin, OrderedBegin, PerfectBegin, BoundedGraphBegin DEF TablesInv, Of

(* A table takes its own step, or rests.                                   *)
LEMMA StepsOfTables ==
  ASSUME [StructuresNext]_structureVars
  PROVE  /\ part' = part
         /\ [TableNext]_tableVars /\ [OrderedNext]_orderedVars /\ [PerfectNext]_perfect /\ [BoundedGraphNext]_bg
  <1>1. CASE UNCHANGED structureVars
    BY <1>1 DEF structureVars, tableVars, orderedVars
  <1>2. CASE StructuresNext
    BY <1>2 DEF StructuresNext, OthersRest, Idle
  <1> QED BY <1>1, <1>2

LEMMA TablesStep ==
  ASSUME TablesInv, [StructuresNext]_structureVars
  PROVE  TablesInv'
<1>1. TableInv' /\ OrderedInv'
  BY StepsOfTables, TableStep, TableRest, OrderedStep, OrderedRest DEF TablesInv
<1>2. PerfectInv => PerfectInv'
  BY StepsOfTables, PerfectStep, PerfectRest
<1>3. BoundedGraphInv => BoundedGraphInv'
  BY StepsOfTables, BoundedGraphStep, BoundedGraphRest
<1>4. part' = part
  BY StepsOfTables
<1> QED
  BY <1>1, <1>2, <1>3, <1>4 DEF TablesInv, Of

(* What it comes to.                                                       *)
LEMMA TablesKeep ==
  ASSUME TablesInv
  PROVE  TablesHold
  BY TableHoldsIt, OrderedHoldsIt, PerfectFindsIt, BoundedGraphHoldsIt DEF TablesInv, TablesHold, Of

(* The invariants of the parts, side by side.                              *)
StructuresInv ==
  /\ OwnersInv /\ RingInv /\ PointersInv
  /\ BoundedInv /\ HoldersInv /\ OptionalsInv /\ VectorsInv /\ SplitInv /\ BitsInv /\ TablesInv

(* Every part begins as it says it does.                                   *)
LEMMA StructuresBegin == StructuresInit => StructuresInv
  BY OwnersBegin, RingBegin, CheckedBegin, BoundedBegin, HoldersBegin, OptionalsBegin, VectorsBegin, SplitBegin,
     BitsBegin, TablesBegin
  DEF StructuresInit, StructuresInv

(* A step of the program is a step of a part or leaves the part alone.     *)
LEMMA StepsOfParts ==
  ASSUME [StructuresNext]_structureVars
  PROVE  /\ [OwnersNext]_ownersVars /\ [RingNext]_ringVars /\ [CheckedNext]_ptrs
         /\ [BoundedNext]_boundedVars /\ [HoldersNext]_holders /\ [OptionalsNext]_opts
         /\ [VectorsNext]_vs /\ [SplitNext]_sb /\ [BitsNext]_bitVars
  <1>1. CASE UNCHANGED structureVars
    BY <1>1 DEF structureVars, ownersVars, ringVars, boundedVars, bitVars
  <1>2. CASE StructuresNext
    BY <1>2 DEF StructuresNext, OthersRest, Idle
  <1> QED BY <1>1, <1>2

(* So the invariants are inductive together.                               *)
LEMMA StructuresStep ==
  ASSUME StructuresInv, [StructuresNext]_structureVars
  PROVE  StructuresInv'
  BY StepsOfParts, OwnersStep, RingStep, CheckedStep, BoundedStep, HoldersStep, OptionalsStep, VectorsStep, SplitStep,
     BitsStep, BitsRest, TablesStep
  DEF StructuresInv

(* They always hold.                                                       *)
THEOREM StructuresInvariant == StructuresSpec => []StructuresInv
  BY StructuresBegin, StructuresStep, PTL DEF StructuresSpec

(* PointersSound: an object is deleted once, never while a handle that     *)
(* owns it points to it, and is not lost; the count of an rc_ptr is that   *)
(* of its sharers. A safe_pointer never reads outside its array.           *)
THEOREM PointersAlwaysSound == StructuresSpec => []PointersSound
  <1>1. StructuresInv => PointersSound
    BY OwnersKeep, CheckedKeeps DEF StructuresInv, PointersSound, Of
  <1> QED BY <1>1, StructuresInvariant, PTL

(* QueuesInOrder: the ring and the queue of bits give back what was put    *)
(* in, in its order, the ring for all capacities that divide the numbers   *)
(* its counters go through, the queue of bits for all widths of itself and *)
(* of a value.                                                             *)
THEOREM QueuesAlwaysInOrder == StructuresSpec => []QueuesInOrder
  <1>1. StructuresInv => RingIsQueue /\ BitsInOrder
    BY RingKeeps DEF StructuresInv, BitsInv, BitsInOrder
  <1>2. StructuresInv => QueuesInOrder
    BY <1>1 DEF QueuesInOrder, Of
  <1> QED BY <1>2, StructuresInvariant, PTL

(* A fixed-size vector, or string, shows the items it was given.           *)
THEOREM BoundedAlwaysHolds == StructuresSpec => []BoundedHolds
  <1>1. StructuresInv => BoundedHolds
    BY BoundedKeeps DEF StructuresInv
  <1> QED BY <1>1, StructuresInvariant, PTL

(* HoldersSound: never a value and an exception at once, and optionals are *)
(* ordered as what they hold, nothing first.                               *)
THEOREM HoldersAlwaysSound == StructuresSpec => []HoldersSound
  <1>1. HoldersInv => ValueOrException
    <2> SUFFICES ASSUME HoldersInv, ~holders.both, NEW h \in 1..2
                 PROVE  /\ held(h).first = Nil \/ held(h).second = Nil
                        /\ kindIs({"checked void"}) => held(h).second \in Expected \cup {Nil}
      BY DEF ValueOrException
    <2>1. Proper(held(h), holders.kind)
      BY DEF HoldersInv
    <2> QED BY <2>1 DEF Proper, kindIs
  <1>2. StructuresInv => HoldersSound
    BY <1>1, OptionalsKeep DEF StructuresInv, HoldersSound, Of
  <1> QED BY <1>2, StructuresInvariant, PTL

(* StorageOwned: each block of memory belongs to one vector, with the      *)
(* allocator it has to go back to and as many elements alive as m_end      *)
(* says, and the vectors hold what was put or moved into them, whatever    *)
(* was copied, moved, swapped, thrown and destroyed. The storage they grow *)
(* into has its elements between its ends, in the order of the calls, and  *)
(* is of its own allocator until an assignment misplaces it.               *)
THEOREM StorageAlwaysOwned == StructuresSpec => []StorageOwned
  <1>1. StructuresInv => StorageOwned
    BY VectorsKeep, SplitInvHolds DEF StructuresInv, StorageOwned, Of
  <1> QED BY <1>1, StructuresInvariant, PTL

(* TablesHold: a table with open addressing holds what was put in until a  *)
(* key is erased, and finds what was put or erased last even then, however *)
(* its hashes meet; it is iterated over from end to end. The ordered map   *)
(* has a pair for each key that was put, in their order. A perfect hash    *)
(* table that is built finds what it was given and nothing else, and is    *)
(* built if its slots suffice. A bounded graph is the graph the calls made *)
(* until its tables are skewed.                                            *)
THEOREM TablesAlwaysHold == StructuresSpec => []TablesHold
  <1>1. StructuresInv => TablesHold
    BY TablesKeep DEF StructuresInv
  <1> QED BY <1>1, StructuresInvariant, PTL
================================================================================
