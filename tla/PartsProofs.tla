------------------------------ MODULE PartsProofs -----------------------------
(***************************************************************************)
(* Proofs about the parts of Structures one by one: owners, checked        *)
(* pointers, the ring, the memory mapped file, the queue of bits and the   *)
(* tables. StructuresProofs has the other parts and puts all together.     *)
(*                                                                         *)
(* Of owned objects, each is deleted once and never lost. Checked pointers *)
(* stay in their range. A ring is a queue, whose counters wrap. On POSIX   *)
(* systems a memory_mapped_file_t is an RAII object; its operations are    *)
(* built from functions on states, so the invariant is stated of a state   *)
(* s, and a lemma says what each of them does to it.                       *)
(*                                                                         *)
(* A queue of bits, of any width, gives back the bits that were pushed in  *)
(* their order. It keeps them as one number; what carries the proof is how *)
(* that number grows and is cut in two (NumberJoins, BitsAre), which rests *)
(* on division by powers of 2.                                             *)
(*                                                                         *)
(* A table with open addressing finds a key if every cell from the home of *)
(* the key to its own is taken (Reached); filling a cell keeps that, and   *)
(* so does the bounded graph, which is made of such tables, until it       *)
(* erases. An ordered map is compared with the calls that made it. A       *)
(* perfect hash table is followed bucket by bucket: what was placed so far *)
(* has its own slots, and if no salt is left, counting shows that the      *)
(* slots do not suffice.                                                   *)
(*                                                                         *)
(* What is defined by recursive functions is proved with LeastNatural,     *)
(* which stands for the induction on them.                                 *)
(***************************************************************************)
EXTENDS Owners, RingAdaptor, CheckedPointers, MappedFile, BitQueue, HashTables, OrderedMap, BoundedGraph,
  FiniteSetTheorems, SequenceTheorems, TLAPS

-------------------------------------------------------------------------------
(* Owners.                                                                 *)

(* A state of the handles and the objects, by its parts.                   *)
World(a, p, q, c, d, m, k, x) ==
  [alive |-> a, ptr |-> p, owned |-> q, count |-> c, deletes |-> d, made |-> m, kept |-> k, misused |-> x]
Bump(d, o) == [y \in Objects |-> IF y = o THEN d[y] + 1 ELSE d[y]]

(* The handles with a pointer to o.                                        *)
HandlesTo(p, o) == {h \in Handles : p[h] = o}

(* An object that all its handles know of: until it is deleted, either the *)
(* program keeps it or all that point to it own it.                        *)
Fine(t, p, q, c, d, k, o) ==
  /\ d[o] = 0 \/ d[o] = 1
  /\ \A h \in Handles : p[h] = o => d[o] = 0
  /\ \A h \in Handles : p[h] = o /\ q[h] = TRUE => o \notin k
  /\ \A h \in Handles : p[h] = o /\ o \notin k => q[h] = TRUE
  /\ (\A h \in Handles : p[h] # o) /\ d[o] = 1 => o \notin k
  /\ (\A h \in Handles : p[h] # o) /\ o \notin k => d[o] = 1
  /\ t \in Rc => c[o] = Cardinality(HandlesTo(p, o)) /\ o \notin k
  /\ t \notin Rc => \A g, h \in Handles : p[g] = o /\ p[h] = o => g = h

(* The values the parts take.                                              *)
Typed(a, p, q, c, d, m, k, x) ==
  /\ a \subseteq Handles /\ p \in [Handles -> Objects \cup {None}] /\ q \in [Handles -> BOOLEAN]
  /\ c \in [Objects -> Int] /\ d \in [Objects -> Nat]
  /\ m \subseteq Objects /\ k \subseteq Objects /\ x \subseteq Objects

(* A handle that is not alive has nothing, handles point to objects that   *)
(* were made, and only a maybe_unique_ptr may not own what it points to.   *)
Shaped(t, a, p, q, d, m, k) ==
  /\ \A h \in Handles : h \notin a => p[h] = None /\ q[h] = TRUE
  /\ \A h \in Handles : p[h] \in m \cup {None}
  /\ t # "maybe_unique_ptr" => \A h \in Handles : q[h] = TRUE
  /\ k \subseteq m /\ \A o \in Objects : o \notin m => d[o] = 0

(* The inductive invariant of the handles, for a kind t of them.           *)
Sane(t, a, p, q, c, d, m, k, x) ==
  /\ Typed(a, p, q, c, d, m, k, x) /\ Shaped(t, a, p, q, d, m, k)
  /\ \A o \in m \ x : Fine(t, p, q, c, d, k, o)

(* As it is for the state of Owners.                                       *)
OwnersInv ==
  /\ kind \in Kinds
  /\ w = World(w.alive, w.ptr, w.owned, w.count, w.deletes, w.made, w.kept, w.misused)
  /\ Sane(kind, w.alive, w.ptr, w.owned, w.count, w.deletes, w.made, w.kept, w.misused)

(* What happens to other objects does not matter to an object.             *)
LEMMA FineAs ==
  ASSUME NEW t, NEW p, NEW q, NEW c, NEW d, NEW k, NEW o, Fine(t, p, q, c, d, k, o),
         NEW p2, NEW q2, NEW c2, NEW d2, NEW k2,
         \A h \in Handles : p2[h] = o <=> p[h] = o, \A h \in Handles : p[h] = o => q2[h] = q[h],
         c2[o] = c[o], d2[o] = d[o], o \in k2 <=> o \in k
  PROVE  Fine(t, p2, q2, c2, d2, k2, o)
  <1>1. HandlesTo(p2, o) = HandlesTo(p, o)
    BY DEF HandlesTo
  <1>2. t \in Rc => c2[o] = Cardinality(HandlesTo(p2, o)) /\ o \notin k2
    BY <1>1 DEF Fine
  <1>3. /\ \A h \in Handles : p2[h] = o /\ q2[h] = TRUE => o \notin k2
        /\ \A h \in Handles : p2[h] = o /\ o \notin k2 => q2[h] = TRUE
    BY DEF Fine
  <1>4. /\ (\A h \in Handles : p2[h] # o) /\ d2[o] = 1 => o \notin k2
        /\ (\A h \in Handles : p2[h] # o) /\ o \notin k2 => d2[o] = 1
    BY DEF Fine
  <1>5. t \notin Rc => \A g, h \in Handles : p2[g] = o /\ p2[h] = o => g = h
    BY DEF Fine
  <1> QED BY <1>2, <1>3, <1>4, <1>5 DEF Fine

(* The number of the handles that point to an object.                      *)
LEMMA HandlesToIs ==
  ASSUME NEW p, NEW o
  PROVE  /\ IsFiniteSet(HandlesTo(p, o)) /\ Cardinality(HandlesTo(p, o)) \in Nat
         /\ Cardinality(HandlesTo(p, o)) = 0 <=> \A h \in Handles : p[h] # o
  <1>1. IsFiniteSet(HandlesTo(p, o))
    BY OwnersAssumption, FS_Subset DEF HandlesTo
  <1>2. Cardinality(HandlesTo(p, o)) \in Nat
    BY <1>1, FS_CardinalityType
  <1>3. Cardinality(HandlesTo(p, o)) = 0 <=> HandlesTo(p, o) = {}
    BY <1>1, FS_EmptySet
  <1> QED BY <1>1, <1>2, <1>3 DEF HandlesTo

(* A handle less, or more, that points to an object.                       *)
LEMMA HandlesLess ==
  ASSUME NEW p \in [Handles -> Objects \cup {None}], NEW h \in Handles, NEW o, p[h] = o, NEW r, r # o
  PROVE  Cardinality(HandlesTo([p EXCEPT ![h] = r], o)) = Cardinality(HandlesTo(p, o)) - 1
  <1>1. HandlesTo([p EXCEPT ![h] = r], o) = HandlesTo(p, o) \ {h} /\ h \in HandlesTo(p, o)
    BY DEF HandlesTo
  <1> QED BY <1>1, HandlesToIs, FS_RemoveElement

(* One handle more.                                                        *)
LEMMA HandlesMore ==
  ASSUME NEW p \in [Handles -> Objects \cup {None}], NEW h \in Handles, NEW o, p[h] # o
  PROVE  Cardinality(HandlesTo([p EXCEPT ![h] = o], o)) = Cardinality(HandlesTo(p, o)) + 1
  <1>1. HandlesTo([p EXCEPT ![h] = o], o) = HandlesTo(p, o) \cup {h} /\ h \notin HandlesTo(p, o)
    BY DEF HandlesTo
  <1> QED BY <1>1, HandlesToIs, FS_AddElement

(* A handle lets go of what it has, and is then empty.                     *)
LEMMA SaneDrop ==
  ASSUME NEW t, t \notin Rc, NEW a, NEW p, NEW q, NEW c, NEW d, NEW m, NEW k, NEW x,
         Sane(t, a, p, q, c, d, m, k, x), NEW h \in Handles
  PROVE  Sane(t, a, [p EXCEPT ![h] = None], [q EXCEPT ![h] = TRUE], c,
              IF q[h] THEN Bump(d, p[h]) ELSE d, m, k, x)
  <1> DEFINE p2 == [p EXCEPT ![h] = None]
             q2 == [q EXCEPT ![h] = TRUE]
             d2 == IF q[h] THEN Bump(d, p[h]) ELSE d
  <1>1. Typed(a, p, q, c, d, m, k, x) /\ Shaped(t, a, p, q, d, m, k)
    BY DEF Sane
  <1>2. /\ \A i \in Handles : p2[i] = IF i = h THEN None ELSE p[i]
        /\ \A i \in Handles : q2[i] = IF i = h THEN TRUE ELSE q[i]
        /\ p2 \in [Handles -> Objects \cup {None}] /\ q2 \in [Handles -> BOOLEAN]
    BY <1>1 DEF Typed
  <1>3. /\ d2 \in [Objects -> Nat]
        /\ \A o \in Objects : p[h] # o => d2[o] = d[o]
        /\ \A o \in Objects : p[h] = o => d2[o] = IF q[h] THEN d[o] + 1 ELSE d[o]
    BY <1>1 DEF Typed, Bump
  <1> HIDE DEF p2, q2, d2
  <1>4. Typed(a, p2, q2, c, d2, m, k, x)
    BY <1>1, <1>2, <1>3 DEF Typed
  <1>5. Shaped(t, a, p2, q2, d2, m, k)
    <2>1. \A o \in Objects : o \notin m => p[h] # o
      BY <1>1, OwnersAssumption DEF Shaped
    <2>2. \A o \in Objects : o \notin m => d2[o] = 0
      BY <1>1, <1>3, <2>1 DEF Shaped
    <2> QED BY <1>1, <1>2, <2>2 DEF Shaped
  <1>6. ASSUME NEW o \in m \ x PROVE Fine(t, p2, q2, c, d2, k, o)
    <2>1. Fine(t, p, q, c, d, k, o) /\ o \in Objects /\ o # None /\ d[o] \in Nat
      BY <1>1, OwnersAssumption DEF Sane, Typed
    <2>2. CASE p[h] = o
      <3>1. \A i \in Handles : p2[i] # o
        BY <1>2, <2>1, <2>2 DEF Fine
      <3>2. d[o] = 0 /\ (q[h] = TRUE <=> o \notin k)
        BY <2>1, <2>2 DEF Fine
      <3>3. d2[o] = IF q[h] THEN 1 ELSE 0
        BY <1>3, <2>1, <2>2, <3>2
      <3> QED BY <3>1, <3>2, <3>3 DEF Fine
    <2>3. CASE p[h] # o
      <3>1. /\ \A i \in Handles : p2[i] = o <=> p[i] = o
            /\ \A i \in Handles : p[i] = o => q2[i] = q[i]
            /\ d2[o] = d[o]
        BY <1>2, <1>3, <2>1, <2>3
      <3> QED BY <2>1, <3>1, FineAs
    <2> QED BY <2>2, <2>3
  <1> QED BY <1>4, <1>5, <1>6 DEF Sane, p2, q2, d2

(* So does a counted handle: the last one deletes the object.              *)
LEMMA SaneDropShared ==
  ASSUME NEW t, t \in Rc, NEW a, NEW p, NEW q, NEW c, NEW d, NEW m, NEW k, NEW x,
         Sane(t, a, p, q, c, d, m, k, x), NEW h \in Handles, p[h] # None
  PROVE  Sane(t, a, [p EXCEPT ![h] = None], q, [c EXCEPT ![p[h]] = @ - 1],
              IF c[p[h]] - 1 = 0 THEN Bump(d, p[h]) ELSE d, m, k, x)
  <1> DEFINE p2 == [p EXCEPT ![h] = None]
             c2 == [c EXCEPT ![p[h]] = @ - 1]
             d2 == IF c[p[h]] - 1 = 0 THEN Bump(d, p[h]) ELSE d
  <1>1. Typed(a, p, q, c, d, m, k, x) /\ Shaped(t, a, p, q, d, m, k)
    BY DEF Sane
  <1>2. /\ \A i \in Handles : p2[i] = IF i = h THEN None ELSE p[i]
        /\ p2 \in [Handles -> Objects \cup {None}] /\ p[h] \in Objects /\ p[h] \in m
    BY <1>1 DEF Typed, Shaped
  <1>3. /\ d2 \in [Objects -> Nat] /\ c2 \in [Objects -> Int]
        /\ \A o \in Objects : p[h] # o => d2[o] = d[o] /\ c2[o] = c[o]
        /\ \A o \in Objects : p[h] = o => c2[o] = c[o] - 1 /\ d2[o] = IF c[o] - 1 = 0 THEN d[o] + 1 ELSE d[o]
    BY <1>1, <1>2 DEF Typed, Bump
  <1> HIDE DEF c2, d2
  <1>4. Typed(a, p2, q, c2, d2, m, k, x)
    BY <1>1, <1>2, <1>3 DEF Typed
  <1>5. Shaped(t, a, p2, q, d2, m, k)
    <2>1. \A o \in Objects : o \notin m => d2[o] = 0
      BY <1>1, <1>2, <1>3 DEF Shaped
    <2> HIDE DEF p2
    <2> QED BY <1>1, <1>2, <2>1 DEF Shaped
  <1>6. ASSUME NEW o \in m \ x PROVE Fine(t, p2, q, c2, d2, k, o)
    <2>1. Fine(t, p, q, c, d, k, o) /\ o \in Objects /\ o # None /\ d[o] \in Nat /\ c[o] \in Int
      BY <1>1, OwnersAssumption DEF Sane, Typed
    <2>2. CASE p[h] = o
      <3>1. c[o] = Cardinality(HandlesTo(p, o)) /\ Cardinality(HandlesTo(p2, o)) = c[o] - 1 /\ o \notin k
        <4>1. c[o] = Cardinality(HandlesTo(p, o)) /\ o \notin k
          BY <2>1 DEF Fine
        <4>2. p \in [Handles -> Objects \cup {None}] /\ None # o
          BY <1>1, <2>1 DEF Typed
        <4>3. Cardinality(HandlesTo(p2, o)) = Cardinality(HandlesTo(p, o)) - 1
          BY <2>2, <4>2, HandlesLess, Zenon
        <4> QED BY <4>1, <4>3
      <3>2. d[o] = 0 /\ c2[o] = c[o] - 1 /\ d2[o] = IF c[o] - 1 = 0 THEN 1 ELSE 0
        BY <1>3, <2>1, <2>2 DEF Fine
      <3>3. c2[o] = 0 <=> \A i \in Handles : p2[i] # o
        <4>1. Cardinality(HandlesTo(p2, o)) = 0 <=> \A i \in Handles : p2[i] # o
          BY HandlesToIs
        <4>2. c2[o] = Cardinality(HandlesTo(p2, o))
          BY <3>1, <3>2
        <4> QED BY <4>1, <4>2
      <3>4. \A i \in Handles : p2[i] = o => p[i] = o
        BY <1>2, <2>1
      <3>5. t # "maybe_unique_ptr"
        BY DEF Rc
      <3>6. \A i \in Handles : q[i] = TRUE
        BY <1>1, <3>5 DEF Shaped
      <3> HIDE DEF p2
      <3>7. (d2[o] = 0 \/ d2[o] = 1) /\ (d2[o] = 1 <=> c2[o] = 0)
        BY <3>2
      <3> QED BY <3>1, <3>2, <3>3, <3>6, <3>7 DEF Fine
    <2>3. CASE p[h] # o
      <3>1. /\ \A i \in Handles : p2[i] = o <=> p[i] = o
            /\ d2[o] = d[o] /\ c2[o] = c[o]
        BY <1>2, <1>3, <2>1, <2>3
      <3> HIDE DEF p2
      <3> QED BY <2>1, <3>1, FineAs
    <2> QED BY <2>2, <2>3
  <1> QED BY <1>4, <1>5, <1>6 DEF Sane, p2, c2, d2

(* An empty handle takes what another has: the count of those that point   *)
(* to it is the same.                                                      *)
LEMMA HandlesMoved ==
  ASSUME NEW p, NEW p2, NEW o, NEW h \in Handles, NEW g \in Handles,
         p[g] = o, p2[g] # o, p[h] # o, p2[h] = o,
         \A i \in Handles : i # h /\ i # g => p2[i] = p[i]
  PROVE  Cardinality(HandlesTo(p2, o)) = Cardinality(HandlesTo(p, o))
  <1>1. HandlesTo(p2, o) = (HandlesTo(p, o) \ {g}) \cup {h}
    BY DEF HandlesTo
  <1>2. g \in HandlesTo(p, o) /\ h \notin HandlesTo(p, o)
    BY DEF HandlesTo
  <1> DEFINE S == HandlesTo(p, o)
             T == S \ {g}
  <1>3. IsFiniteSet(S) /\ Cardinality(S) \in Nat
    BY HandlesToIs
  <1>4. IsFiniteSet(T) /\ Cardinality(T) = Cardinality(S) - 1 /\ h \notin T
    BY <1>2, <1>3, FS_RemoveElement
  <1> HIDE DEF T
  <1>5. Cardinality(T \cup {h}) = Cardinality(T) + 1
    BY <1>4, FS_AddElement
  <1> HIDE DEF S
  <1>6. Cardinality(T \cup {h}) = Cardinality(S)
    BY <1>3, <1>4, <1>5
  <1> QED BY <1>1, <1>6 DEF S, T

(* An empty handle takes what another has; if whether it owns it is not    *)
(* taken over too, the object is misused.                                  *)
LEMMA SaneHand ==
  ASSUME NEW t, NEW a, NEW p, NEW q, NEW c, NEW d, NEW m, NEW k, NEW x,
         Sane(t, a, p, q, c, d, m, k, x), NEW h \in Handles, NEW g \in Handles, h # g,
         h \in a, p[h] = None, NEW b \in BOOLEAN, NEW y, y \subseteq Objects,
         t # "maybe_unique_ptr" => b = TRUE, b # q[g] => p[g] \in y \cup {None}
  PROVE  Sane(t, a, [p EXCEPT ![h] = p[g], ![g] = None], [q EXCEPT ![h] = b, ![g] = TRUE], c, d, m, k, x \cup y)
  <1> DEFINE p2 == [p EXCEPT ![h] = p[g], ![g] = None]
             q2 == [q EXCEPT ![h] = b, ![g] = TRUE]
  <1>1. Typed(a, p, q, c, d, m, k, x) /\ Shaped(t, a, p, q, d, m, k)
    BY DEF Sane
  <1>2. /\ \A i \in Handles : p2[i] = IF i = g THEN None ELSE IF i = h THEN p[g] ELSE p[i]
        /\ \A i \in Handles : q2[i] = IF i = g THEN TRUE ELSE IF i = h THEN b ELSE q[i]
        /\ p2 \in [Handles -> Objects \cup {None}] /\ q2 \in [Handles -> BOOLEAN]
    BY <1>1 DEF Typed
  <1> HIDE DEF p2, q2
  <1>3. \A o \in Objects : p[g] = o => Cardinality(HandlesTo(p2, o)) = Cardinality(HandlesTo(p, o))
    <2> SUFFICES ASSUME NEW o \in Objects, p[g] = o PROVE Cardinality(HandlesTo(p2, o)) = Cardinality(HandlesTo(p, o))
      OBVIOUS
    <2>1. p2[g] # o /\ p[h] # o /\ p2[h] = o /\ \A i \in Handles : i # h /\ i # g => p2[i] = p[i]
      BY <1>2, OwnersAssumption
    <2> QED BY <2>1, HandlesMoved
  <1>4. Typed(a, p2, q2, c, d, m, k, x \cup y)
    BY <1>1, <1>2 DEF Typed
  <1>5. Shaped(t, a, p2, q2, d, m, k)
    BY <1>1, <1>2 DEF Shaped
  <1>6. ASSUME NEW o \in m \ (x \cup y) PROVE Fine(t, p2, q2, c, d, k, o)
    <2>1. Fine(t, p, q, c, d, k, o) /\ o \in Objects /\ o # None /\ d[o] \in Nat
      BY <1>1, OwnersAssumption DEF Sane, Typed
    <2>2. CASE p[g] = o
      <3>1. b = q[g]
        BY <2>1, <2>2
      <3>2. \A i \in Handles : p2[i] = o <=> i = h \/ (p[i] = o /\ i # g)
        BY <1>2, <2>1, <2>2
      <3>3. t \in Rc => c[o] = Cardinality(HandlesTo(p2, o)) /\ o \notin k
        BY <1>3, <2>1, <2>2 DEF Fine
      <3>4. d[o] = 0
        BY <2>1, <2>2 DEF Fine
      <3>5. ASSUME NEW i \in Handles, p2[i] = o PROVE /\ q2[i] = TRUE => o \notin k
                                                      /\ o \notin k => q2[i] = TRUE
        <4>1. CASE i = h
          BY <1>2, <2>1, <2>2, <3>1, <4>1 DEF Fine
        <4>2. CASE i # h
          BY <1>2, <2>1, <2>2, <3>2, <3>5, <4>2 DEF Fine
        <4> QED BY <4>1, <4>2
      <3>6. t \notin Rc => \A i, j \in Handles : p2[i] = o /\ p2[j] = o => i = j
        <4>1. t \notin Rc => \A i \in Handles : p[i] = o => i = g
          BY <2>1, <2>2 DEF Fine
        <4> QED BY <3>2, <4>1
      <3>7. p2[h] = o
        BY <3>2
      <3> QED BY <2>1, <3>3, <3>4, <3>5, <3>6, <3>7 DEF Fine
    <2>3. CASE p[g] # o
      <3>1. /\ \A i \in Handles : p2[i] = o <=> p[i] = o
            /\ \A i \in Handles : p[i] = o => q2[i] = q[i]
        BY <1>2, <2>1, <2>3
      <3> QED BY <2>1, <3>1, FineAs
    <2> QED BY <2>2, <2>3
  <1> QED BY <1>4, <1>5, <1>6 DEF Sane, p2, q2

(* A new object for an empty handle.                                       *)
LEMMA SaneGive ==
  ASSUME NEW t, NEW a, NEW p, NEW q, NEW c, NEW d, NEW m, NEW k, NEW x,
         Sane(t, a, p, q, c, d, m, k, x), NEW h \in Handles, h \in a, p[h] = None,
         NEW o \in Objects, o \notin m, NEW b \in BOOLEAN, t # "maybe_unique_ptr" => b = TRUE
  PROVE  Sane(t, a, [p EXCEPT ![h] = o], [q EXCEPT ![h] = b], [c EXCEPT ![o] = IF t \in Rc THEN 1 ELSE 0], d,
              m \cup {o}, IF b THEN k ELSE k \cup {o}, x)
  <1> DEFINE p2 == [p EXCEPT ![h] = o]
             q2 == [q EXCEPT ![h] = b]
             c2 == [c EXCEPT ![o] = IF t \in Rc THEN 1 ELSE 0]
             k2 == IF b THEN k ELSE k \cup {o}
  <1>1. Typed(a, p, q, c, d, m, k, x) /\ Shaped(t, a, p, q, d, m, k)
    BY DEF Sane
  <1>2. /\ \A i \in Handles : p2[i] = IF i = h THEN o ELSE p[i]
        /\ \A i \in Handles : q2[i] = IF i = h THEN b ELSE q[i]
        /\ p2 \in [Handles -> Objects \cup {None}] /\ q2 \in [Handles -> BOOLEAN]
        /\ c2 \in [Objects -> Int] /\ (\A z \in Objects : z # o => c2[z] = c[z])
        /\ (t \in Rc => c2[o] = 1) /\ k2 \subseteq Objects
    BY <1>1 DEF Typed
  <1>3. \A i \in Handles : p[i] # o
    BY <1>1, OwnersAssumption DEF Shaped
  <1>4. o \notin k /\ d[o] = 0
    BY <1>1 DEF Shaped
  <1>5. t \in Rc => b = TRUE
    BY DEF Rc
  <1>6. Cardinality(HandlesTo(p2, o)) = 1
    <2>1. HandlesTo(p2, o) = {h}
      BY <1>2, <1>3 DEF HandlesTo
    <2> QED BY <2>1, FS_Singleton
  <1> HIDE DEF p2, q2, c2
  <1>7. Typed(a, p2, q2, c2, d, m \cup {o}, k2, x)
    BY <1>1, <1>2 DEF Typed
  <1>8. Shaped(t, a, p2, q2, d, m \cup {o}, k2)
    BY <1>1, <1>2 DEF Shaped
  <1>9. ASSUME NEW z \in (m \cup {o}) \ x PROVE Fine(t, p2, q2, c2, d, k2, z)
    <2>1. CASE z = o
      <3>1. \A i \in Handles : p2[i] = o <=> i = h
        BY <1>2, <1>3
      <3>2. b = TRUE <=> o \notin k2
        BY <1>4
      <3>3. t \in Rc => c2[o] = Cardinality(HandlesTo(p2, o)) /\ o \notin k2
        BY <1>2, <1>5, <1>6, <3>2
      <3> HIDE DEF k2
      <3> QED BY <1>2, <1>4, <2>1, <3>1, <3>2, <3>3 DEF Fine
    <2>2. CASE z # o
      <3>1. Fine(t, p, q, c, d, k, z) /\ z \in Objects /\ z # None
        BY <1>1, <2>2, OwnersAssumption DEF Sane, Typed
      <3>2. /\ \A i \in Handles : p2[i] = z <=> p[i] = z
            /\ \A i \in Handles : p[i] = z => q2[i] = q[i]
            /\ c2[z] = c[z] /\ (z \in k2 <=> z \in k)
        BY <1>2, <2>2, <3>1
      <3> HIDE DEF k2
      <3> QED BY <3>1, <3>2, FineAs
    <2> QED BY <2>1, <2>2
  <1> QED BY <1>7, <1>8, <1>9 DEF Sane, p2, q2, c2

(* An empty handle shares what another has.                                *)
LEMMA SaneShare ==
  ASSUME NEW t, t \in Rc, NEW a, NEW p, NEW q, NEW c, NEW d, NEW m, NEW k, NEW x,
         Sane(t, a, p, q, c, d, m, k, x), NEW h \in Handles, h \in a, p[h] = None,
         NEW g \in Handles, NEW o \in Objects, p[g] = o
  PROVE  Sane(t, a, [p EXCEPT ![h] = o], q, [c EXCEPT ![o] = @ + 1], d, m, k, x)
  <1> DEFINE p2 == [p EXCEPT ![h] = o]
             c2 == [c EXCEPT ![o] = @ + 1]
  <1>1. Typed(a, p, q, c, d, m, k, x) /\ Shaped(t, a, p, q, d, m, k)
    BY DEF Sane
  <1>2. /\ \A i \in Handles : p2[i] = IF i = h THEN o ELSE p[i]
        /\ p2 \in [Handles -> Objects \cup {None}] /\ c2 \in [Objects -> Int]
        /\ c2[o] = c[o] + 1 /\ \A z \in Objects : z # o => c2[z] = c[z]
    BY <1>1 DEF Typed
  <1>3. Cardinality(HandlesTo(p2, o)) = Cardinality(HandlesTo(p, o)) + 1
    <2>1. p \in [Handles -> Objects \cup {None}] /\ p[h] # o
      BY <1>1, OwnersAssumption DEF Typed
    <2> QED BY <2>1, HandlesMore, Zenon
  <1> HIDE DEF p2, c2
  <1>4. Typed(a, p2, q, c2, d, m, k, x)
    BY <1>1, <1>2 DEF Typed
  <1>5. o \in m
    BY <1>1, OwnersAssumption DEF Shaped
  <1>6. Shaped(t, a, p2, q, d, m, k)
    BY <1>1, <1>2, <1>5 DEF Shaped
  <1>7. ASSUME NEW z \in m \ x PROVE Fine(t, p2, q, c2, d, k, z)
    <2>1. Fine(t, p, q, c, d, k, z) /\ z \in Objects /\ z # None
      BY <1>1, OwnersAssumption DEF Sane, Typed
    <2>2. CASE z = o
      <3>1. \A i \in Handles : p2[i] = z <=> p[i] = z \/ i = h
        BY <1>2, <2>2
      <3>2. c2[z] = Cardinality(HandlesTo(p2, z)) /\ z \notin k
        BY <1>2, <1>3, <2>1, <2>2 DEF Fine
      <3>3. t # "maybe_unique_ptr"
        BY DEF Rc
      <3>4. \A i \in Handles : q[i] = TRUE
        BY <1>1, <3>3 DEF Shaped
      <3>5. d[z] = 0 /\ p2[h] = z
        BY <1>2, <2>1, <2>2 DEF Fine
      <3> QED BY <3>1, <3>2, <3>4, <3>5 DEF Fine
    <2>3. CASE z # o
      <3>1. (\A i \in Handles : p2[i] = z <=> p[i] = z) /\ c2[z] = c[z]
        BY <1>2, <2>1, <2>3
      <3> QED BY <2>1, <3>1, FineAs
    <2> QED BY <2>2, <2>3
  <1> QED BY <1>4, <1>6, <1>7 DEF Sane, p2, c2

(* The program takes back what a handle has.                               *)
LEMMA SaneKeep ==
  ASSUME NEW t, t \notin Rc, NEW a, NEW p, NEW q, NEW c, NEW d, NEW m, NEW k, NEW x,
         Sane(t, a, p, q, c, d, m, k, x), NEW h \in Handles
  PROVE  Sane(t, a, [p EXCEPT ![h] = None], [q EXCEPT ![h] = TRUE], c, d, m, k \cup ({p[h]} \ {None}), x)
  <1> DEFINE p2 == [p EXCEPT ![h] = None]
             q2 == [q EXCEPT ![h] = TRUE]
             k2 == k \cup ({p[h]} \ {None})
  <1>1. Typed(a, p, q, c, d, m, k, x) /\ Shaped(t, a, p, q, d, m, k)
    BY DEF Sane
  <1>2. /\ \A i \in Handles : p2[i] = IF i = h THEN None ELSE p[i]
        /\ \A i \in Handles : q2[i] = IF i = h THEN TRUE ELSE q[i]
        /\ p2 \in [Handles -> Objects \cup {None}] /\ q2 \in [Handles -> BOOLEAN]
        /\ k2 \subseteq Objects
    BY <1>1 DEF Typed
  <1>3. \A o \in Objects : o \in k2 <=> o \in k \/ o = p[h]
    BY OwnersAssumption
  <1>4. k2 \subseteq m
    BY <1>1 DEF Shaped
  <1> HIDE DEF p2, q2, k2
  <1>5. Typed(a, p2, q2, c, d, m, k2, x)
    BY <1>1, <1>2 DEF Typed
  <1>6. Shaped(t, a, p2, q2, d, m, k2)
    BY <1>1, <1>2, <1>4 DEF Shaped
  <1>7. ASSUME NEW o \in m \ x PROVE Fine(t, p2, q2, c, d, k2, o)
    <2>1. Fine(t, p, q, c, d, k, o) /\ o \in Objects /\ o # None
      BY <1>1, OwnersAssumption DEF Sane, Typed
    <2>2. CASE p[h] = o
      <3>1. \A i \in Handles : p2[i] # o
        BY <1>2, <2>1, <2>2 DEF Fine
      <3>2. d[o] = 0 /\ o \in k2
        BY <1>3, <2>1, <2>2 DEF Fine
      <3> QED BY <3>1, <3>2 DEF Fine
    <2>3. CASE p[h] # o
      <3>1. /\ \A i \in Handles : p2[i] = o <=> p[i] = o
            /\ \A i \in Handles : p[i] = o => q2[i] = q[i]
            /\ (o \in k2 <=> o \in k)
        BY <1>2, <1>3, <2>1, <2>3
      <3> QED BY <2>1, <3>1, FineAs
    <2> QED BY <2>2, <2>3
  <1> QED BY <1>5, <1>6, <1>7 DEF Sane, p2, q2, k2

(* Two handles trade places.                                               *)
LEMMA SaneSwap ==
  ASSUME NEW t, NEW a, NEW p, NEW q, NEW c, NEW d, NEW m, NEW k, NEW x,
         Sane(t, a, p, q, c, d, m, k, x), NEW h \in Handles, NEW g \in Handles, h \in a, g \in a
  PROVE  Sane(t, a, [p EXCEPT ![h] = p[g], ![g] = p[h]], [q EXCEPT ![h] = q[g], ![g] = q[h]], c, d, m, k, x)
  <1> DEFINE p2 == [p EXCEPT ![h] = p[g], ![g] = p[h]]
             q2 == [q EXCEPT ![h] = q[g], ![g] = q[h]]
             Other(i) == IF i = h THEN g ELSE IF i = g THEN h ELSE i
  <1>1. Typed(a, p, q, c, d, m, k, x) /\ Shaped(t, a, p, q, d, m, k)
    BY DEF Sane
  <1>2. /\ \A i \in Handles : p2[i] = p[Other(i)] /\ q2[i] = q[Other(i)]
        /\ \A i \in Handles : Other(i) \in Handles /\ Other(Other(i)) = i
        /\ p2 \in [Handles -> Objects \cup {None}] /\ q2 \in [Handles -> BOOLEAN]
    BY <1>1 DEF Typed
  <1> HIDE DEF p2, q2
  <1>3. \A o \in Objects : Cardinality(HandlesTo(p2, o)) = Cardinality(HandlesTo(p, o))
    <2> SUFFICES ASSUME NEW o \in Objects PROVE Cardinality(HandlesTo(p2, o)) = Cardinality(HandlesTo(p, o))
      OBVIOUS
    <2>1. CASE p[h] = o /\ p[g] # o
      <3>1. p2[h] # o /\ p2[g] = o /\ \A i \in Handles : i # h /\ i # g => p2[i] = p[i]
        BY <1>2, <2>1
      <3> QED BY <2>1, <3>1, HandlesMoved
    <2>2. CASE p[g] = o /\ p[h] # o
      <3>1. p2[g] # o /\ p2[h] = o /\ \A i \in Handles : i # h /\ i # g => p2[i] = p[i]
        BY <1>2, <2>2
      <3> QED BY <2>2, <3>1, HandlesMoved
    <2>3. CASE p[g] = o <=> p[h] = o
      <3>1. HandlesTo(p2, o) = HandlesTo(p, o)
        BY <1>2, <2>3 DEF HandlesTo
      <3> QED BY <3>1
    <2> QED BY <2>1, <2>2, <2>3
  <1>4. Typed(a, p2, q2, c, d, m, k, x)
    BY <1>1, <1>2 DEF Typed
  <1>5. Shaped(t, a, p2, q2, d, m, k)
    BY <1>1, <1>2 DEF Shaped
  <1>6. ASSUME NEW o \in m \ x PROVE Fine(t, p2, q2, c, d, k, o)
    <2>1. Fine(t, p, q, c, d, k, o) /\ o \in Objects
      BY <1>1 DEF Sane, Typed
    <2>2. t \in Rc => c[o] = Cardinality(HandlesTo(p2, o)) /\ o \notin k
      BY <1>3, <2>1 DEF Fine
    <2> HIDE DEF Other
    <2>3. /\ \A i \in Handles : p2[i] = o => d[o] = 0
          /\ \A i \in Handles : p2[i] = o /\ q2[i] = TRUE => o \notin k
          /\ \A i \in Handles : p2[i] = o /\ o \notin k => q2[i] = TRUE
      BY <1>2, <2>1 DEF Fine
    <2>4. (\A i \in Handles : p2[i] # o) => \A i \in Handles : p[i] # o
      BY <1>2
    <2>5. t \notin Rc => \A i, j \in Handles : p2[i] = o /\ p2[j] = o => i = j
      <3> SUFFICES ASSUME t \notin Rc, NEW i \in Handles, NEW j \in Handles, p2[i] = o, p2[j] = o PROVE i = j
        OBVIOUS
      <3>1. Other(i) = Other(j)
        BY <1>2, <2>1 DEF Fine
      <3> QED BY <1>2, <3>1
    <2> QED BY <2>1, <2>2, <2>3, <2>4, <2>5 DEF Fine
  <1> QED BY <1>4, <1>5, <1>6 DEF Sane, p2, q2

(* Whatever happens to objects that are misused, the others do not notice. *)
LEMMA SaneBlame ==
  ASSUME NEW t, NEW a, NEW p, NEW q, NEW c, NEW d, NEW m, NEW k, NEW x,
         Sane(t, a, p, q, c, d, m, k, x), NEW p2, NEW q2, NEW c2, NEW d2, NEW x2,
         Typed(a, p2, q2, c2, d2, m, k, x2), Shaped(t, a, p2, q2, d2, m, k),
         \A o \in m \ x2 : /\ o \notin x /\ c2[o] = c[o] /\ d2[o] = d[o]
                           /\ \A h \in Handles : p2[h] = o <=> p[h] = o
                           /\ \A h \in Handles : p[h] = o => q2[h] = q[h]
  PROVE  Sane(t, a, p2, q2, c2, d2, m, k, x2)
  <1>1. ASSUME NEW o \in m \ x2 PROVE Fine(t, p2, q2, c2, d2, k, o)
    <2>1. Fine(t, p, q, c, d, k, o)
      BY DEF Sane
    <2> QED BY <2>1, FineAs
  <1> QED BY <1>1 DEF Sane

(* A handle comes to be, or ceases to be, with nothing.                    *)
LEMMA SaneAlive ==
  ASSUME NEW t, NEW a, NEW p, NEW q, NEW c, NEW d, NEW m, NEW k, NEW x,
         Sane(t, a, p, q, c, d, m, k, x), NEW a2, a2 \subseteq Handles,
         \A h \in Handles : h \notin a2 => p[h] = None /\ q[h] = TRUE
  PROVE  Sane(t, a2, p, q, c, d, m, k, x)
  BY DEF Sane, Typed, Shaped

(* Misuse leaves the other parts as they are.                              *)
LEMMA Blamed ==
  ASSUME NEW a, NEW p, NEW q, NEW c, NEW d, NEW m, NEW k, NEW x, NEW S, NEW y, y = x \cup (S \ {None})
  PROVE  Blame(World(a, p, q, c, d, m, k, x), S) = World(a, p, q, c, d, m, k, y)
  BY DEF Blame, World

(* A step to a state that is given by its parts.                           *)
LEMMA OwnersBecome ==
  ASSUME NEW a, NEW p, NEW q, NEW c, NEW d, NEW m, NEW k, NEW x, kind \in Kinds, UNCHANGED kind,
         w' = World(a, p, q, c, d, m, k, x), Sane(kind, a, p, q, c, d, m, k, x)
  PROVE  OwnersInv'
  <1>1. /\ w'.alive = a /\ w'.ptr = p /\ w'.owned = q /\ w'.count = c
        /\ w'.deletes = d /\ w'.made = m /\ w'.kept = k /\ w'.misused = x
    BY DEF World
  <1> QED BY <1>1 DEF OwnersInv

(* What Reset leaves of a handle: rc_ptr, unique_resource and ScopeGuard   *)
(* may still point to what is not theirs any more. With the pointer gone   *)
(* too, or what it points to misused, all is well.                         *)
LeftBy(a, p, q, m, k, x, h, pr, q2, c2, d2) ==
  /\ Reset(w, h) = World(a, pr, q2, c2, d2, m, k, x)
  /\ Sane(kind, a, [p EXCEPT ![h] = None], q2, c2, d2, m, k, x)
  /\ Sane(kind, a, pr, q2, c2, d2, m, k, x \cup ({pr[h]} \ {None}))
  /\ pr = p \/ pr = [p EXCEPT ![h] = None]
  /\ kind = "ScopeGuard" => pr = p
  /\ kind \in {"unique_ptr", "unique_array", "maybe_unique_ptr"} => pr = [p EXCEPT ![h] = None]
  /\ q2 = [q EXCEPT ![h] = TRUE]

(* There are such parts for every handle of every kind.                    *)
LEMMA LetsGo ==
  ASSUME NEW a, NEW p, NEW q, NEW c, NEW d, NEW m, NEW k, NEW x, NEW h \in Handles, kind \in Kinds,
         Sane(kind, a, p, q, c, d, m, k, x), w = World(a, p, q, c, d, m, k, x)
  PROVE  \E pr, q2, c2, d2 : LeftBy(a, p, q, m, k, x, h, pr, q2, c2, d2)
  <1> DEFINE p2 == [p EXCEPT ![h] = None]
             q2 == [q EXCEPT ![h] = TRUE]
  <1>1. Typed(a, p, q, c, d, m, k, x) /\ Shaped(kind, a, p, q, d, m, k)
    BY DEF Sane
  <1>2. /\ p \in [Handles -> Objects \cup {None}] /\ p2 \in [Handles -> Objects \cup {None}]
        /\ p2[h] = None /\ (\A i \in Handles : i # h => p2[i] = p[i]) /\ p[h] \in m \cup {None}
        /\ m \subseteq Objects /\ q \in [Handles -> BOOLEAN] /\ d \in [Objects -> Nat]
    BY <1>1 DEF Typed, Shaped
  <1>3. kind # "maybe_unique_ptr" => q[h] = TRUE /\ q2 = q
    <2>1. kind # "maybe_unique_ptr" => q[h] = TRUE
      BY <1>1 DEF Shaped
    <2> QED BY <1>2, <2>1
  <1>4. ASSUME NEW qs, NEW cs, NEW ds, Sane(kind, a, p2, qs, cs, ds, m, k, x)
        PROVE  /\ Sane(kind, a, p, qs, cs, ds, m, k, x \cup ({p[h]} \ {None}))
               /\ Sane(kind, a, p2, qs, cs, ds, m, k, x \cup ({p2[h]} \ {None}))
    <2>1. Typed(a, p2, qs, cs, ds, m, k, x) /\ Shaped(kind, a, p2, qs, ds, m, k)
      BY <1>4 DEF Sane
    <2>2. x \cup ({p2[h]} \ {None}) = x
      BY <1>2
    <2> DEFINE y == x \cup ({p[h]} \ {None})
    <2>3. y \subseteq Objects
      BY <1>2, <2>1 DEF Typed
    <2>4. \A o \in m \ y : o \notin x /\ \A i \in Handles : p[i] = o <=> p2[i] = o
      BY <1>2, OwnersAssumption
    <2> HIDE DEF p2, y
    <2>5. Typed(a, p, qs, cs, ds, m, k, y)
      BY <1>2, <2>1, <2>3 DEF Typed
    <2>6. Shaped(kind, a, p, qs, ds, m, k)
      BY <1>1, <2>1 DEF Shaped
    <2>7. Sane(kind, a, p, qs, cs, ds, m, k, y)
      BY <1>4, <2>4, <2>5, <2>6, SaneBlame
    <2> QED BY <1>4, <2>2, <2>7 DEF y
  <1>5. CASE kind \in Rc
    <2>0. q2 = q /\ kind # "ScopeGuard" /\ kind \notin {"unique_ptr", "unique_array", "maybe_unique_ptr"}
      BY <1>3, <1>5 DEF Rc
    <2>1. CASE p[h] = None
      <3>1. Reset(w, h) = World(a, p, q, c, d, m, k, x)
        <4>1. Reset(w, h) = RcReset(w, h)
          BY <1>5 DEF Reset, Rc
        <4>2. w.ptr[h] = p[h]
          BY DEF World
        <4> QED BY <2>1, <4>1, <4>2 DEF RcReset
      <3>2. p2 = p
        BY <1>2, <2>1
      <3> QED BY <1>4, <2>0, <3>1, <3>2 DEF LeftBy
    <2>2. CASE p[h] # None
      <3> DEFINE c2 == [c EXCEPT ![p[h]] = @ - 1]
                 d2 == IF c[p[h]] - 1 = 0 THEN Bump(d, p[h]) ELSE d
                 pr == IF c[p[h]] - 1 = 0 THEN p2 ELSE p
      <3>1. Sane(kind, a, p2, q, c2, d2, m, k, x)
        BY <1>5, <2>2, SaneDropShared
      <3>2. c2[p[h]] = c[p[h]] - 1 /\ p[h] \in Objects
        BY <1>1, <1>2, <2>2 DEF Typed
      <3>3. Bump(d, p[h]) = [d EXCEPT ![p[h]] = @ + 1]
        BY <1>2, <3>2 DEF Bump
      <3>4. Reset(w, h) = World(a, pr, q, c2, d2, m, k, x)
        <4>1. Reset(w, h) = RcReset(w, h)
          BY <1>5 DEF Reset, Rc
        <4>2. [w EXCEPT !.count[p[h]] = @ - 1] = World(a, p, q, c2, d, m, k, x)
          BY DEF World
        <4>3. w.ptr[h] = p[h]
          BY DEF World
        <4>4. World(a, p, q, c2, d, m, k, x).count[p[h]] = c[p[h]] - 1
          BY <3>2 DEF World
        <4>5. Point(Deleted(World(a, p, q, c2, d, m, k, x), p[h]), h, None)
                = World(a, p2, q, c2, Bump(d, p[h]), m, k, x)
          <5>1. Deleted(World(a, p, q, c2, d, m, k, x), p[h]) = World(a, p, q, c2, Bump(d, p[h]), m, k, x)
            BY <2>2, <3>3 DEF Deleted, World
          <5>2. Point(World(a, p, q, c2, Bump(d, p[h]), m, k, x), h, None)
                  = World(a, p2, q, c2, Bump(d, p[h]), m, k, x)
            BY DEF Point, World
          <5> QED BY <5>1, <5>2
        <4>6. CASE c[p[h]] - 1 = 0
          <5>1. RcReset(w, h) = Point(Deleted(World(a, p, q, c2, d, m, k, x), p[h]), h, None)
            <6> HIDE DEF c2
            <6> QED BY <2>2, <4>2, <4>3, <4>4, <4>6 DEF RcReset
          <5>2. pr = p2 /\ d2 = Bump(d, p[h])
            BY <4>6
          <5> QED BY <4>1, <4>5, <5>1, <5>2
        <4>7. CASE c[p[h]] - 1 # 0
          <5>1. RcReset(w, h) = World(a, p, q, c2, d, m, k, x)
            <6> HIDE DEF c2
            <6> QED BY <2>2, <4>2, <4>3, <4>4, <4>7 DEF RcReset
          <5>2. pr = p /\ d2 = d
            BY <4>7
          <5> QED BY <4>1, <5>1, <5>2
        <4> QED BY <4>6, <4>7
      <3>5. pr = p \/ pr = p2
        OBVIOUS
      <3>6. Sane(kind, a, pr, q, c2, d2, m, k, x \cup ({pr[h]} \ {None}))
        <4> HIDE DEF c2, d2, p2
        <4> QED BY <1>4, <3>1
      <3> HIDE DEF pr, c2, d2
      <3> QED BY <2>0, <3>1, <3>4, <3>5, <3>6 DEF LeftBy
    <2> QED BY <2>1, <2>2
  <1>6. CASE kind \notin Rc
    <2> DEFINE d2 == IF q[h] THEN Bump(d, p[h]) ELSE d
    <2>1. Sane(kind, a, p2, q2, c, d2, m, k, x)
      BY <1>6, SaneDrop
    <2>2. Bump(d, p[h]) = IF p[h] = None THEN d ELSE [d EXCEPT ![p[h]] = @ + 1]
      <3>1. d \in [Objects -> Nat] /\ None \notin Objects /\ (p[h] = None \/ p[h] \in Objects)
        BY <1>2, OwnersAssumption
      <3>2. CASE p[h] = None
        <4> DEFINE o == p[h]
        <4>1. \A y \in Objects : y # o
          BY <3>1, <3>2
        <4> HIDE DEF o
        <4>2. Bump(d, o) = d
          BY <3>1, <4>1 DEF Bump
        <4> QED BY <3>2, <4>2 DEF o
      <3>3. CASE p[h] # None
        <4> DEFINE o == p[h]
        <4>1. Bump(d, o) = [d EXCEPT ![o] = @ + 1]
          <5> HIDE DEF o
          <5> QED BY <3>1 DEF Bump
        <4> QED BY <3>3, <4>1
      <3> QED BY <3>2, <3>3
    <2>3. Deleted(w, w.ptr[h]) = World(a, p, q, c, Bump(d, p[h]), m, k, x)
      BY <2>2 DEF Deleted, World
    <2>4. Point(World(a, p, q, c, Bump(d, p[h]), m, k, x), h, None)
            = World(a, p2, q, c, Bump(d, p[h]), m, k, x)
      BY DEF Point, World
    <2>5. CASE kind = "maybe_unique_ptr"
      <3>1. Reset(w, h) = World(a, p2, q2, c, d2, m, k, x)
        <4>1. Reset(w, h) = Forget(w, h) /\ w.owned = q
          BY <1>6, <2>5 DEF Reset, World
        <4>2. CASE q[h] = TRUE
          <5>1. q2 = q
            BY <1>2, <4>2
          <5> QED BY <2>3, <2>4, <4>1, <4>2, <5>1 DEF Forget
        <4>3. CASE q[h] = FALSE
          <5>1. [Point(w, h, None) EXCEPT !.owned[h] = TRUE] = World(a, p2, q2, c, d, m, k, x)
            <6>1. Point(w, h, None) = World(a, p2, q, c, d, m, k, x)
              BY DEF Point, World
            <6>2. [World(a, p2, q, c, d, m, k, x) EXCEPT !.owned[h] = TRUE] = World(a, p2, q2, c, d, m, k, x)
              <7>1. \A b : [World(a, p2, q, c, d, m, k, x) EXCEPT !.owned[h] = b]
                            = World(a, p2, [q EXCEPT ![h] = b], c, d, m, k, x)
                BY DEF World
              <7> QED BY <7>1, Zenon
            <6> QED BY <6>1, <6>2
          <5> QED BY <4>1, <4>3, <5>1 DEF Forget
        <4> QED BY <1>2, <4>2, <4>3
      <3> HIDE DEF d2
      <3> QED BY <1>4, <2>1, <2>5, <3>1 DEF LeftBy
    <2>6. CASE kind \in {"unique_resource", "ScopeGuard"}
      <3>1. Reset(w, h) = World(a, p, q2, c, d2, m, k, x)
        <4>1. Reset(w, h) = Deleted(w, w.ptr[h])
          BY <1>6, <2>6 DEF Reset
        <4> QED BY <1>3, <2>3, <2>6, <4>1
      <3> HIDE DEF d2
      <3> QED BY <1>4, <2>1, <2>6, <3>1 DEF LeftBy
    <2>7. CASE kind \in {"unique_ptr", "unique_array"}
      <3>1. Reset(w, h) = World(a, p2, q2, c, d2, m, k, x)
        <4>1. Reset(w, h) = Point(Deleted(w, w.ptr[h]), h, None)
          BY <1>6, <2>7 DEF Reset
        <4> QED BY <1>3, <2>3, <2>4, <2>7, <4>1
      <3> HIDE DEF d2
      <3> QED BY <1>4, <2>1, <2>7, <3>1 DEF LeftBy
    <2> QED BY <1>6, <2>5, <2>6, <2>7 DEF Kinds
  <1> QED BY <1>5, <1>6

(* The handles that are made of others.                                    *)
LEMMA HandleMade ==
  ASSUME NEW a, NEW p, NEW q, NEW c, NEW d, NEW m, NEW k, NEW x, kind \in Kinds, UNCHANGED kind,
         Sane(kind, a, p, q, c, d, m, k, x), w = World(a, p, q, c, d, m, k, x), NEW h \in Handles,
         \/ Construct(h)
         \/ \E o \in Objects, owned \in BOOLEAN : ConstructWith(h, o, owned)
         \/ \E g \in Handles : MoveConstruct(h, g) \/ CopyConstruct(h, g)
  PROVE  OwnersInv'
  <1>1. Typed(a, p, q, c, d, m, k, x) /\ Shaped(kind, a, p, q, d, m, k)
    BY DEF Sane
  <1>2. /\ w.alive = a /\ w.ptr = p /\ w.owned = q /\ w.count = c /\ w.deletes = d /\ w.made = m
        /\ w.kept = k /\ w.misused = x
    BY DEF World
  <1>3. p \in [Handles -> Objects \cup {None}] /\ q \in [Handles -> BOOLEAN] /\ m \subseteq Objects /\ a \subseteq Handles
        /\ (kind # "maybe_unique_ptr" => \A i \in Handles : q[i] = TRUE) /\ \A i \in Handles : p[i] \in m \cup {None}
    BY <1>1 DEF Typed, Shaped
  <1> DEFINE b == a \cup {h}
             s == World(b, p, q, c, d, m, k, x)
  <1>4. h \notin a
    BY <1>2 DEF Construct, ConstructWith, MoveConstruct, CopyConstruct
  <1>5. p[h] = None /\ q[h] = TRUE
    BY <1>1, <1>4 DEF Shaped
  <1>6. [w EXCEPT !.alive = @ \cup {h}] = s
    BY DEF World
  <1>7. Sane(kind, b, p, q, c, d, m, k, x)
    <2>1. b \subseteq Handles /\ \A i \in Handles : i \notin b => p[i] = None /\ q[i] = TRUE
      BY <1>1 DEF Typed, Shaped
    <2> HIDE DEF b
    <2> QED BY <2>1, SaneAlive
  <1>8. h \in b /\ b \subseteq Handles
    BY <1>3
  <1>9. CASE Construct(h)
    <2>1. w' = s
      BY <1>6, <1>9 DEF Construct
    <2> QED BY <1>7, <2>1, OwnersBecome
  <1>10. ASSUME NEW o \in Objects, NEW owned \in BOOLEAN, ConstructWith(h, o, owned) PROVE OwnersInv'
    <2>1. o \notin m /\ (kind # "maybe_unique_ptr" => owned = TRUE)
      BY <1>2, <1>10 DEF ConstructWith, Fresh, MayNotOwn
    <2> DEFINE p2 == [p EXCEPT ![h] = o]
               q2 == [q EXCEPT ![h] = owned]
               c2 == [c EXCEPT ![o] = IF kind \in Rc THEN 1 ELSE 0]
               k2 == IF owned THEN k ELSE k \cup {o}
    <2>2. {o} \ {None} = {o}
      BY OwnersAssumption
    <2>3. w' = World(b, p2, q2, c2, d, m \cup {o}, k2, x)
      <3>1. (IF owned THEN w ELSE Keep(w, o)) = World(a, p, q, c, d, m, k2, x)
        BY <2>2 DEF Keep, World
      <3> HIDE DEF k2
      <3>2. w' = [[World(a, p, q, c, d, m, k2, x) EXCEPT
                     !.made = @ \cup {o}, !.ptr[h] = o, !.owned[h] = owned, !.count[o] = IF kind \in Rc THEN 1 ELSE 0]
                  EXCEPT !.alive = @ \cup {h}]
        BY <1>10, <3>1 DEF ConstructWith, Give
      <3> QED BY <3>2 DEF World
    <2>4. Sane(kind, b, p2, q2, c2, d, m \cup {o}, k2, x)
      <3> HIDE DEF b
      <3> QED BY <1>5, <1>7, <1>8, <2>1, SaneGive
    <2> HIDE DEF b, p2, q2, c2, k2
    <2> QED BY <2>3, <2>4, OwnersBecome
  <1>11. ASSUME NEW g \in Handles, MoveConstruct(h, g) PROVE OwnersInv'
    <2>1. g \in a /\ h # g
      BY <1>2, <1>4, <1>11 DEF MoveConstruct, Alive
    <2> DEFINE p2 == [p EXCEPT ![h] = p[g], ![g] = None]
               q2 == [q EXCEPT ![h] = TRUE, ![g] = TRUE]
    <2>2. ASSUME NEW y, y \subseteq Objects, TRUE # q[g] => p[g] \in y \cup {None}
          PROVE  Sane(kind, b, p2, q2, c, d, m, k, x \cup y)
      <3> DEFINE tt == TRUE
      <3>1. tt \in BOOLEAN /\ (tt # q[g] => p[g] \in y \cup {None}) /\ (kind # "maybe_unique_ptr" => tt = TRUE)
        BY <2>2
      <3>2. Sane(kind, b, [p EXCEPT ![h] = p[g], ![g] = None], [q EXCEPT ![h] = tt, ![g] = TRUE], c, d, m, k, x \cup y)
        <4> HIDE DEF b, tt
        <4> QED BY <1>5, <1>7, <1>8, <2>1, <2>2, <3>1, SaneHand
      <3> QED BY <3>2
    <2>3. Hand(s, h, g) = World(b, p2, q, c, d, m, k, x)
      BY DEF Hand, World
    <2>4. CASE kind = "maybe_unique_ptr"
      <3> DEFINE y == IF q[g] THEN {} ELSE {p[g]} \ {None}
      <3>1. w' = HandMaybe(s, h, g)
        BY <1>6, <1>11, <2>4 DEF MoveConstruct
      <3>2. [Hand(s, h, g) EXCEPT !.owned = [@ EXCEPT ![h] = TRUE, ![g] = TRUE]] = World(b, p2, q2, c, d, m, k, x)
        <4>1. \A u, v : [World(b, p2, q, c, d, m, k, x) EXCEPT !.owned = [@ EXCEPT ![h] = u, ![g] = v]]
                         = World(b, p2, [q EXCEPT ![h] = u, ![g] = v], c, d, m, k, x)
          BY DEF World
        <4>2. [World(b, p2, q, c, d, m, k, x) EXCEPT !.owned = [@ EXCEPT ![h] = TRUE, ![g] = TRUE]]
                = World(b, p2, q2, c, d, m, k, x)
          BY <4>1, Zenon
        <4> QED BY <2>3, <4>2
      <3>3. s.owned = q /\ s.ptr = p
        BY DEF World
      <3>4. w' = World(b, p2, q2, c, d, m, k, x \cup y)
        <4>1. CASE q[g] = TRUE
          <5>1. x \cup y = x
            BY <4>1
          <5> QED BY <3>1, <3>2, <3>3, <4>1, <5>1 DEF HandMaybe
        <4>2. CASE q[g] = FALSE
          <5>1. w' = Blame(World(b, p2, q2, c, d, m, k, x), {p[g]})
            BY <3>1, <3>2, <3>3, <4>2 DEF HandMaybe
          <5> QED BY <4>2, <5>1 DEF Blame, World
        <4> QED BY <1>3, <4>1, <4>2
      <3>5. y \subseteq Objects /\ (TRUE # q[g] => p[g] \in y \cup {None})
        BY <1>3
      <3>6. Sane(kind, b, p2, q2, c, d, m, k, x \cup y)
        <4> HIDE DEF y, p2, q2, b
        <4> QED BY <2>2, <3>5
      <3> HIDE DEF y, p2, q2, b
      <3> QED BY <3>4, <3>6, OwnersBecome
    <2>5. CASE kind = "ScopeGuard"
      <3> DEFINE pr == [p EXCEPT ![h] = p[g]]
                 y == x \cup ({p[g]} \ {None})
      <3>1. w' = Blame(Point(s, h, p[g]), {p[g]})
        BY <1>2, <1>6, <1>11, <2>5 DEF MoveConstruct
      <3>2. Point(s, h, p[g]) = World(b, pr, q, c, d, m, k, x)
        BY DEF Point, World
      <3>3. w' = World(b, pr, q, c, d, m, k, y)
        <4>1. w' = Blame(World(b, pr, q, c, d, m, k, x), {p[g]})
          BY <3>1, <3>2
        <4> HIDE DEF pr, b
        <4> QED BY <4>1, Blamed
      <3>4. /\ \A i \in Handles : pr[i] = IF i = h THEN p[g] ELSE p[i]
            /\ pr \in [Handles -> Objects \cup {None}] /\ y \subseteq Objects
        BY <1>1, <1>3 DEF Typed
      <3>5. \A o \in m \ y : o \notin x /\ \A i \in Handles : pr[i] = o <=> p[i] = o
        BY <1>5, <3>4, <1>3, OwnersAssumption
      <3> HIDE DEF pr, y, b
      <3>6. Typed(b, pr, q, c, d, m, k, y)
        BY <1>1, <1>8, <3>4 DEF Typed
      <3>7. Shaped(kind, b, pr, q, d, m, k)
        BY <1>7, <1>8, <3>4 DEF Shaped, Sane
      <3>8. Sane(kind, b, pr, q, c, d, m, k, y)
        BY <1>7, <3>5, <3>6, <3>7, SaneBlame
      <3> QED BY <3>3, <3>8, OwnersBecome
    <2>6. CASE kind \notin {"maybe_unique_ptr", "ScopeGuard"}
      <3>1. w' = World(b, p2, q, c, d, m, k, x)
        BY <1>6, <1>11, <2>3, <2>6 DEF MoveConstruct
      <3>2. q2 = q /\ x \cup {} = x
        BY <1>3, <2>6
      <3>3. Sane(kind, b, p2, q2, c, d, m, k, x \cup {})
        <4>1. {} \subseteq Objects /\ (TRUE # q[g] => p[g] \in {} \cup {None})
          BY <1>3, <2>6
        <4> HIDE DEF p2, q2, b
        <4> QED BY <2>2, <4>1
      <3> HIDE DEF p2, q2, b
      <3> QED BY <3>1, <3>2, <3>3, OwnersBecome
    <2> QED BY <2>4, <2>5, <2>6
  <1>12. ASSUME NEW g \in Handles, CopyConstruct(h, g) PROVE OwnersInv'
    <2>1. w' = Shared(s, h, p[g]) /\ kind \in Rc
      BY <1>2, <1>6, <1>12 DEF CopyConstruct
    <2>2. CASE p[g] = None
      <3>1. Point(s, h, p[g]) = World(b, [p EXCEPT ![h] = None], q, c, d, m, k, x)
        BY <2>2 DEF Point, World
      <3>2. [p EXCEPT ![h] = None] = p
        BY <1>3, <1>5
      <3>3. w' = World(b, p, q, c, d, m, k, x)
        BY <2>1, <2>2, <3>1, <3>2 DEF Shared
      <3> QED BY <1>7, <3>3, OwnersBecome
    <2>3. CASE p[g] # None
      <3> DEFINE o == p[g]
                 p2 == [p EXCEPT ![h] = o]
                 c2 == [c EXCEPT ![o] = @ + 1]
      <3>1. Point(s, h, p[g]) = World(b, p2, q, c, d, m, k, x)
        BY DEF Point, World
      <3>2. w' = World(b, p2, q, c2, d, m, k, x)
        <4>1. w' = [World(b, p2, q, c, d, m, k, x) EXCEPT !.count[o] = @ + 1]
          BY <2>1, <2>3, <3>1 DEF Shared
        <4> QED BY <4>1 DEF World
      <3>3. Sane(kind, b, p2, q, c2, d, m, k, x)
        <4>1. o \in Objects /\ p[g] = o
          BY <1>3, <2>3
        <4> HIDE DEF o, b
        <4> QED BY <1>5, <1>7, <1>8, <2>1, <4>1, SaneShare
      <3> HIDE DEF p2, c2, b
      <3> QED BY <3>2, <3>3, OwnersBecome
    <2> QED BY <2>2, <2>3
  <1> QED BY <1>9, <1>10, <1>11, <1>12

(* The handles that let go of what they have, and those that get another.  *)
LEMMA HandleLeaves ==
  ASSUME NEW a, NEW p, NEW q, NEW c, NEW d, NEW m, NEW k, NEW x, kind \in Kinds, UNCHANGED kind,
         Sane(kind, a, p, q, c, d, m, k, x), w = World(a, p, q, c, d, m, k, x), NEW h \in Handles,
         \/ ResetNow(h) \/ RunThrows(h) \/ Release(h) \/ Destroy(h)
         \/ \E o \in Objects, owned \in BOOLEAN : ResetTo(h, o, owned)
  PROVE  OwnersInv'
  <1>1. Typed(a, p, q, c, d, m, k, x) /\ Shaped(kind, a, p, q, d, m, k)
    BY DEF Sane
  <1>2. /\ w.alive = a /\ w.ptr = p /\ w.owned = q /\ w.count = c /\ w.deletes = d /\ w.made = m
        /\ w.kept = k /\ w.misused = x
    BY DEF World
  <1>3. p \in [Handles -> Objects \cup {None}] /\ q \in [Handles -> BOOLEAN] /\ m \subseteq Objects /\ a \subseteq Handles
        /\ (kind # "maybe_unique_ptr" => \A i \in Handles : q[i] = TRUE) /\ \A i \in Handles : p[i] \in m \cup {None}
    BY <1>1 DEF Typed, Shaped
  <1> DEFINE p2 == [p EXCEPT ![h] = None]
  <1>4. PICK pr, q2, c2, d2 : LeftBy(a, p, q, m, k, x, h, pr, q2, c2, d2)
    BY LetsGo
  <1>4a. /\ Reset(w, h) = World(a, pr, q2, c2, d2, m, k, x)
         /\ Sane(kind, a, p2, q2, c2, d2, m, k, x)
         /\ Sane(kind, a, pr, q2, c2, d2, m, k, x \cup ({pr[h]} \ {None}))
         /\ pr = p \/ pr = p2
         /\ kind = "ScopeGuard" => pr = p
         /\ kind \in {"unique_ptr", "unique_array", "maybe_unique_ptr"} => pr = p2
         /\ q2 = [q EXCEPT ![h] = TRUE]
    BY <1>4 DEF LeftBy
  <1>5. [pr EXCEPT ![h] = None] = p2 /\ p2[h] = None
    BY <1>3, <1>4a
  <1>6. Point(Reset(w, h), h, None) = World(a, p2, q2, c2, d2, m, k, x)
    <2>1. Point(World(a, pr, q2, c2, d2, m, k, x), h, None) = World(a, [pr EXCEPT ![h] = None], q2, c2, d2, m, k, x)
      BY DEF Point, World
    <2> QED BY <1>4a, <1>5, <2>1
  <1>7. CASE ResetNow(h)
    <2>1. CASE kind = "ScopeGuard"
      <3>1. w' = World(a, p2, q2, c2, d2, m, k, x)
        BY <1>6, <1>7, <2>1 DEF ResetNow
      <3> HIDE DEF p2
      <3> QED BY <1>4a, <3>1, OwnersBecome
    <2>2. CASE kind # "ScopeGuard"
      <3>1. w' = Blame(World(a, pr, q2, c2, d2, m, k, x), {pr[h]})
        <4>1. World(a, pr, q2, c2, d2, m, k, x).ptr = pr
          BY DEF World
        <4> QED BY <1>4a, <1>7, <2>2, <4>1 DEF ResetNow
      <3>2. w' = World(a, pr, q2, c2, d2, m, k, x \cup ({pr[h]} \ {None}))
        BY <3>1 DEF Blame, World
      <3> QED BY <1>4a, <3>2, OwnersBecome
    <2> QED BY <2>1, <2>2
  <1>8. CASE RunThrows(h)
    <2>1. pr = p /\ w.ptr[h] = p[h]
      BY <1>2, <1>4a, <1>8 DEF RunThrows
    <2>2. w' = Blame(World(a, pr, q2, c2, d2, m, k, x), {pr[h]})
      BY <1>4a, <1>8, <2>1 DEF RunThrows
    <2>3. w' = World(a, pr, q2, c2, d2, m, k, x \cup ({pr[h]} \ {None}))
      BY <2>2 DEF Blame, World
    <2> QED BY <1>4a, <2>3, OwnersBecome
  <1>9. CASE Release(h)
    <2> DEFINE k2 == k \cup ({p[h]} \ {None})
               q3 == [q EXCEPT ![h] = TRUE]
    <2>1. Keep(Point(w, h, None), p[h]) = World(a, p2, q, c, d, m, k2, x)
      <3>1. Point(w, h, None) = World(a, p2, q, c, d, m, k, x)
        BY DEF Point, World
      <3> QED BY <3>1 DEF Keep, World
    <2> HIDE DEF k2, p2
    <2>2. \A b : [World(a, p2, q, c, d, m, k2, x) EXCEPT !.owned[h] = b]
                    = World(a, p2, [q EXCEPT ![h] = b], c, d, m, k2, x)
      BY DEF World
    <2>3. [World(a, p2, q, c, d, m, k2, x) EXCEPT !.owned[h] = TRUE] = World(a, p2, q3, c, d, m, k2, x)
      BY <2>2, Zenon
    <2>4. w' = World(a, p2, q3, c, d, m, k2, x)
      BY <1>2, <1>9, <2>1, <2>3 DEF Release
    <2>5. Sane(kind, a, p2, q3, c, d, m, k2, x)
      <3>1. kind \notin Rc
        BY <1>9 DEF Release
      <3> QED BY <3>1, SaneKeep DEF p2, k2
    <2> HIDE DEF q3
    <2> QED BY <2>4, <2>5, OwnersBecome
  <1>10. CASE Destroy(h)
    <2> DEFINE b == a \ {h}
    <2> HIDE DEF p2
    <2>1. w' = World(b, p2, [q2 EXCEPT ![h] = TRUE], c2, d2, m, k, x)
      <3>1. \A r, u : r = [World(a, p2, q2, c2, d2, m, k, x) EXCEPT !.owned[h] = u, !.alive = b]
                         => r = World(b, p2, [q2 EXCEPT ![h] = u], c2, d2, m, k, x)
        <4> HIDE DEF b
        <4> SUFFICES ASSUME NEW r, NEW u, r = [World(a, p2, q2, c2, d2, m, k, x) EXCEPT !.owned[h] = u, !.alive = b]
                     PROVE  r = World(b, p2, [q2 EXCEPT ![h] = u], c2, d2, m, k, x)
          OBVIOUS
        <4> QED BY DEF World
      <3>2. World(a, p2, q2, c2, d2, m, k, x).alive \ {h} = b
        BY DEF World
      <3>3. w' = [World(a, p2, q2, c2, d2, m, k, x) EXCEPT !.owned[h] = TRUE, !.alive = @ \ {h}]
        BY <1>6, <1>10 DEF Destroy
      <3> HIDE DEF b
      <3>4. w' = [World(a, p2, q2, c2, d2, m, k, x) EXCEPT !.owned[h] = TRUE, !.alive = b]
        BY <3>2, <3>3
      <3> QED BY <3>1, <3>4, Zenon
    <2>2. [q2 EXCEPT ![h] = TRUE] = q2 /\ q2[h] = TRUE
      BY <1>3, <1>4a
    <2>3. \A i \in Handles : i \notin b => p2[i] = None /\ q2[i] = TRUE
      <3>1. Shaped(kind, a, p2, q2, d2, m, k)
        BY <1>4a DEF Sane
      <3> QED BY <1>5, <2>2, <3>1 DEF Shaped
    <2>4. Sane(kind, b, p2, q2, c2, d2, m, k, x)
      <3>1. b \subseteq Handles
        BY <1>3
      <3> HIDE DEF b
      <3> QED BY <1>4a, <2>3, <3>1, SaneAlive
    <2> HIDE DEF b
    <2> QED BY <2>1, <2>2, <2>4, OwnersBecome
  <1>11. ASSUME NEW o \in Objects, NEW owned \in BOOLEAN, ResetTo(h, o, owned) PROVE OwnersInv'
    <2>1. /\ o \notin m /\ (kind # "maybe_unique_ptr" => owned = TRUE) /\ h \in a
          /\ kind \in {"unique_ptr", "maybe_unique_ptr", "unique_resource"} /\ kind \notin Rc
      BY <1>2, <1>11 DEF ResetTo, Fresh, MayNotOwn, Alive, Rc
    <2> DEFINE p3 == [p2 EXCEPT ![h] = o]
               q3 == [q2 EXCEPT ![h] = owned]
               c3 == [c2 EXCEPT ![o] = IF kind \in Rc THEN 1 ELSE 0]
               k3 == IF owned THEN k ELSE k \cup {o}
               s == Give(Reset(w, h), h, o, owned)
    <2>2. {o} \ {None} = {o}
      BY OwnersAssumption
    <2>3. [pr EXCEPT ![h] = o] = p3
      BY <1>3, <1>4a
    <2>4. s = World(a, p3, q3, c3, d2, m \cup {o}, k3, x)
      <3>1. (IF owned THEN Reset(w, h) ELSE Keep(Reset(w, h), o)) = World(a, pr, q2, c2, d2, m, k3, x)
        <4>1. CASE owned = TRUE
          BY <1>4a, <4>1
        <4>2. CASE owned = FALSE
          <5>1. Keep(World(a, pr, q2, c2, d2, m, k, x), o) = World(a, pr, q2, c2, d2, m, k \cup {o}, x)
            BY <2>2 DEF Keep, World
          <5> QED BY <1>4a, <4>2, <5>1
        <4> QED BY <4>1, <4>2
      <3> HIDE DEF k3, p3
      <3>2. s = [World(a, pr, q2, c2, d2, m, k3, x) EXCEPT
                   !.made = @ \cup {o}, !.ptr[h] = o, !.owned[h] = owned, !.count[o] = IF kind \in Rc THEN 1 ELSE 0]
        BY <3>1 DEF Give
      <3>3. s = World(a, [pr EXCEPT ![h] = o], q3, c3, d2, m \cup {o}, k3, x)
        BY <3>2 DEF World
      <3> QED BY <2>3, <3>3
    <2>5. Sane(kind, a, p3, q3, c3, d2, m \cup {o}, k3, x)
      <3> HIDE DEF p2
      <3> QED BY <1>4a, <1>5, <2>1, SaneGive
    <2> HIDE DEF p3, q3, c3, k3, s
    <2>6. CASE kind = "maybe_unique_ptr" /\ w.owned[h]
      <3> DEFINE d3 == [d2 EXCEPT ![o] = @ + 1]
                 x3 == x \cup {o}
      <3>1. w' = Blame(Deleted(s, o), {o})
        BY <1>11, <2>6 DEF ResetTo, s
      <3>2. w' = World(a, p3, q3, c3, d3, m \cup {o}, k3, x3)
        <4>1. Deleted(s, o) = World(a, p3, q3, c3, d3, m \cup {o}, k3, x)
          BY <2>2, <2>4 DEF Deleted, World
        <4> HIDE DEF d3
        <4>2. Blame(World(a, p3, q3, c3, d3, m \cup {o}, k3, x), {o}) = World(a, p3, q3, c3, d3, m \cup {o}, k3, x3)
          <5>1. x3 = x \cup ({o} \ {None})
            BY OwnersAssumption
          <5> QED BY <5>1, Blamed
        <4> QED BY <3>1, <4>1, <4>2
      <3>3. Typed(a, p3, q3, c3, d2, m \cup {o}, k3, x) /\ Shaped(kind, a, p3, q3, d2, m \cup {o}, k3)
        BY <2>5 DEF Sane
      <3>4. d3 \in [Objects -> Nat] /\ x3 \subseteq Objects /\ \A z \in Objects : z # o => d3[z] = d2[z]
        BY <3>3 DEF Typed
      <3>5. \A z \in (m \cup {o}) \ x3 : z \notin x /\ d3[z] = d2[z]
        BY <1>3, <3>4
      <3> DEFINE m3 == m \cup {o}
      <3> HIDE DEF d3, x3
      <3>6. Typed(a, p3, q3, c3, d3, m3, k3, x3)
        BY <3>3, <3>4 DEF Typed
      <3>7. Shaped(kind, a, p3, q3, d3, m3, k3)
        BY <3>3, <3>4 DEF Shaped
      <3> HIDE DEF m3
      <3>8. Sane(kind, a, p3, q3, c3, d3, m3, k3, x3)
        BY <2>5, <3>5, <3>6, <3>7, SaneBlame DEF m3
      <3>9. w' = World(a, p3, q3, c3, d3, m3, k3, x3)
        BY <3>2 DEF m3
      <3> QED BY <3>8, <3>9, OwnersBecome
    <2>7. CASE ~(kind = "maybe_unique_ptr" /\ w.owned[h])
      <3>1. w' = World(a, p3, q3, c3, d2, m \cup {o}, k3, x)
        BY <1>11, <2>4, <2>7 DEF ResetTo, s
      <3> QED BY <2>5, <3>1, OwnersBecome
    <2> QED BY <2>6, <2>7
  <1> QED BY <1>7, <1>8, <1>9, <1>10, <1>11

(* The handles that are assigned another, and those that are swapped.      *)
LEMMA HandleAssigned ==
  ASSUME NEW a, NEW p, NEW q, NEW c, NEW d, NEW m, NEW k, NEW x, kind \in Kinds, UNCHANGED kind,
         Sane(kind, a, p, q, c, d, m, k, x), w = World(a, p, q, c, d, m, k, x),
         NEW h \in Handles, NEW g \in Handles,
         CopyAssign(h, g) \/ MoveAssign(h, g) \/ MoveAssignConverted(h, g) \/ Swap(h, g)
  PROVE  OwnersInv'
  <1>1. Typed(a, p, q, c, d, m, k, x) /\ Shaped(kind, a, p, q, d, m, k)
    BY DEF Sane
  <1>2. /\ w.alive = a /\ w.ptr = p /\ w.owned = q /\ w.count = c /\ w.deletes = d /\ w.made = m
        /\ w.kept = k /\ w.misused = x
    BY DEF World
  <1>3. p \in [Handles -> Objects \cup {None}] /\ q \in [Handles -> BOOLEAN] /\ m \subseteq Objects /\ a \subseteq Handles
        /\ (kind # "maybe_unique_ptr" => \A i \in Handles : q[i] = TRUE) /\ \A i \in Handles : p[i] \in m \cup {None}
    BY <1>1 DEF Typed, Shaped
  <1>4. h \in a /\ g \in a
    BY <1>2 DEF CopyAssign, MoveAssign, MoveAssignConverted, Swap, Alive
  <1>5. w' = w => OwnersInv'
    BY OwnersBecome
  <1>6. CASE Swap(h, g)
    <2> DEFINE p2 == [p EXCEPT ![h] = p[g], ![g] = p[h]]
               q2 == [q EXCEPT ![h] = q[g], ![g] = q[h]]
    <2>1. w' = World(a, p2, q2, c, d, m, k, x)
      BY <1>2, <1>6 DEF Swap, World
    <2>2. Sane(kind, a, p2, q2, c, d, m, k, x)
      BY <1>4, SaneSwap
    <2> HIDE DEF p2, q2
    <2> QED BY <2>1, <2>2, OwnersBecome
  <1>7. CASE h # g /\ ~Swap(h, g)
    <2> DEFINE p2 == [p EXCEPT ![h] = None]
    <2>1. PICK pr, q2, c2, d2 : LeftBy(a, p, q, m, k, x, h, pr, q2, c2, d2)
      BY LetsGo
    <2>1a. /\ Reset(w, h) = World(a, pr, q2, c2, d2, m, k, x)
           /\ Sane(kind, a, p2, q2, c2, d2, m, k, x)
           /\ Sane(kind, a, pr, q2, c2, d2, m, k, x \cup ({pr[h]} \ {None}))
           /\ pr = p \/ pr = p2
           /\ kind = "ScopeGuard" => pr = p
           /\ kind \in {"unique_ptr", "unique_array", "maybe_unique_ptr"} => pr = p2
           /\ q2 = [q EXCEPT ![h] = TRUE]
      BY <2>1 DEF LeftBy
    <2> DEFINE p3 == [p EXCEPT ![h] = p[g], ![g] = None]
    <2>2. /\ p2[h] = None /\ p2[g] = p[g] /\ pr[g] = p[g] /\ q2[g] = q[g] /\ q2[h] = TRUE
          /\ p2 \in [Handles -> Objects \cup {None}] /\ q2 \in [Handles -> BOOLEAN]
          /\ [p2 EXCEPT ![h] = p[g], ![g] = None] = p3 /\ [pr EXCEPT ![h] = p[g], ![g] = None] = p3
          /\ [p2 EXCEPT ![h] = p[g]] = [p EXCEPT ![h] = p[g]] /\ [pr EXCEPT ![h] = p[g]] = [p EXCEPT ![h] = p[g]]
      BY <1>3, <1>7, <2>1a
    <2>3. ASSUME NEW b \in BOOLEAN, NEW qs, NEW cs, NEW ds, NEW xs, NEW y, y \subseteq Objects,
                 kind # "maybe_unique_ptr" => b = TRUE, b # qs[g] => p[g] \in y \cup {None},
                 Sane(kind, a, p2, qs, cs, ds, m, k, xs)
          PROVE  Sane(kind, a, p3, [qs EXCEPT ![h] = b, ![g] = TRUE], cs, ds, m, k, xs \cup y)
      <3>0. p2[h] = None /\ (b # qs[g] => p2[g] \in y \cup {None}) /\ p2[g] = p[g] /\ [p2 EXCEPT ![h] = p[g], ![g] = None] = p3
        BY <2>2, <2>3
      <3> HIDE DEF p2, p3
      <3>1. Sane(kind, a, [p2 EXCEPT ![h] = p2[g], ![g] = None], [qs EXCEPT ![h] = b, ![g] = TRUE], cs, ds, m, k, xs \cup y)
        BY <1>4, <1>7, <2>3, <3>0, SaneHand
      <3> QED BY <3>0, <3>1
    <2>4. kind # "maybe_unique_ptr" => /\ q2 = q /\ [q2 EXCEPT ![h] = TRUE, ![g] = TRUE] = q2
                                       /\ Sane(kind, a, p3, q2, c2, d2, m, k, x)
      <3> SUFFICES ASSUME kind # "maybe_unique_ptr"
                   PROVE  /\ q2 = q /\ [q2 EXCEPT ![h] = TRUE, ![g] = TRUE] = q2
                          /\ Sane(kind, a, p3, q2, c2, d2, m, k, x)
        OBVIOUS
      <3>1. q2 = q /\ [q2 EXCEPT ![h] = TRUE, ![g] = TRUE] = q2 /\ q2[g] = TRUE
        BY <1>3, <2>1a
      <3> DEFINE tt == TRUE
      <3>2. tt \in BOOLEAN /\ (tt # q2[g] => p[g] \in {} \cup {None}) /\ {} \subseteq Objects /\ tt = TRUE
        BY <3>1
      <3>3. Sane(kind, a, p3, [q2 EXCEPT ![h] = tt, ![g] = TRUE], c2, d2, m, k, x \cup {})
        <4> HIDE DEF tt, p3, p2
        <4> QED BY <2>1a, <2>3, <3>2
      <3>4. x \cup {} = x
        OBVIOUS
      <3> HIDE DEF p3
      <3> QED BY <3>1, <3>3, <3>4
    <2>5. CASE CopyAssign(h, g)
      <3>1. kind \in Rc /\ World(a, pr, q2, c2, d2, m, k, x).ptr = pr
        BY <2>5 DEF CopyAssign, World
      <3>2. CASE kind = "rc_ptr" /\ p[g] = None
        <4>1. w' = Blame(World(a, pr, q2, c2, d2, m, k, x), {pr[h]})
          BY <1>7, <2>1a, <2>2, <2>5, <3>1, <3>2 DEF CopyAssign
        <4>2. w' = World(a, pr, q2, c2, d2, m, k, x \cup ({pr[h]} \ {None}))
          BY <4>1, Blamed
        <4> QED BY <2>1a, <4>2, OwnersBecome
      <3>3. CASE ~(kind = "rc_ptr" /\ p[g] = None)
        <4>1. w' = Shared(World(a, pr, q2, c2, d2, m, k, x), h, p[g])
          <5> DEFINE v == World(a, pr, q2, c2, d2, m, k, x)
          <5>1. h # g /\ Reset(w, h) = v
            BY <1>7, <2>1a, <2>5
          <5>2. v.ptr[g] = p[g]
            BY <2>2, <3>1
          <5> HIDE DEF v
          <5>3. w' = Shared(v, h, v.ptr[g])
            BY <2>5, <3>3, <5>1, <5>2 DEF CopyAssign
          <5> QED BY <5>2, <5>3 DEF v
        <4>2. Point(World(a, pr, q2, c2, d2, m, k, x), h, p[g]) = World(a, [p2 EXCEPT ![h] = p[g]], q2, c2, d2, m, k, x)
          <5>1. Point(World(a, pr, q2, c2, d2, m, k, x), h, p[g]) = World(a, [pr EXCEPT ![h] = p[g]], q2, c2, d2, m, k, x)
            BY DEF Point, World
          <5> QED BY <2>2, <5>1
        <4>3. CASE p[g] = None
          <5>1. [p2 EXCEPT ![h] = p[g]] = p2
            BY <2>2, <4>3
          <5>2. w' = World(a, p2, q2, c2, d2, m, k, x)
            BY <4>1, <4>2, <4>3, <5>1 DEF Shared
          <5> HIDE DEF p2
          <5> QED BY <2>1a, <5>2, OwnersBecome
        <4>4. CASE p[g] # None
          <5> DEFINE o == p[g]
                     p4 == [p2 EXCEPT ![h] = o]
                     c4 == [c2 EXCEPT ![o] = @ + 1]
          <5>1. w' = World(a, p4, q2, c4, d2, m, k, x)
            <6>1. w' = [World(a, p4, q2, c2, d2, m, k, x) EXCEPT !.count[o] = @ + 1]
              BY <4>1, <4>2, <4>4 DEF Shared
            <6> QED BY <6>1 DEF World
          <5>2. Sane(kind, a, p4, q2, c4, d2, m, k, x)
            <6>1. o \in Objects /\ p2[g] = o
              BY <1>3, <2>2, <4>4
            <6> HIDE DEF o, p2
            <6> QED BY <1>4, <2>1a, <2>2, <3>1, <6>1, SaneShare
          <5> HIDE DEF p4, c4
          <5> QED BY <5>1, <5>2, OwnersBecome
        <4> QED BY <4>3, <4>4
      <3> QED BY <3>2, <3>3
    <2>6. CASE MoveAssign(h, g) /\ kind \notin {"unique_resource", "ScopeGuard", "maybe_unique_ptr"}
      <3>1. w' = Hand(World(a, pr, q2, c2, d2, m, k, x), h, g)
        BY <1>7, <2>1a, <2>6 DEF MoveAssign, Rc, Kinds
      <3>2. w' = World(a, [pr EXCEPT ![h] = pr[g], ![g] = None], q2, c2, d2, m, k, x)
        BY <3>1 DEF Hand, World
      <3>3. w' = World(a, p3, q2, c2, d2, m, k, x)
        BY <2>2, <3>2
      <3> HIDE DEF p3
      <3> QED BY <2>4, <2>6, <3>3, OwnersBecome
    <2>7. CASE MoveAssign(h, g) /\ kind = "unique_resource"
      <3>1. w' = TakeOver(w, h, g)
        BY <1>7, <2>7 DEF MoveAssign, Rc
      <3> DEFINE p4 == [p EXCEPT ![g] = None]
                 dd == Bump(d, p[h])
      <3>2. Point(w, g, None) = World(a, p4, q, c, d, m, k, x)
        BY DEF Point, World
      <3>3. p4[h] = p[h] /\ World(a, p4, q, c, d, m, k, x).ptr = p4
        BY <1>3, <1>7 DEF World
      <3>4. dd = IF p[h] = None THEN d ELSE [d EXCEPT ![p[h]] = @ + 1]
        BY <1>1, OwnersAssumption DEF Bump, Typed
      <3>5. Deleted(World(a, p4, q, c, d, m, k, x), p[h]) = World(a, p4, q, c, dd, m, k, x)
        BY <3>4 DEF Deleted, World
      <3>6. Point(World(a, p4, q, c, dd, m, k, x), h, p[g]) = World(a, [p4 EXCEPT ![h] = p[g]], q, c, dd, m, k, x)
        BY DEF Point, World
      <3>7. [p4 EXCEPT ![h] = p[g]] = p3
        BY <1>3, <1>7
      <3>8. w' = World(a, p3, q, c, dd, m, k, x)
        BY <1>2, <3>1, <3>2, <3>3, <3>5, <3>6, <3>7 DEF TakeOver
      <3>9. Reset(w, h) = World(a, p, q, c, dd, m, k, x)
        <4>1. Deleted(w, p[h]) = World(a, p, q, c, dd, m, k, x)
          BY <3>4 DEF Deleted, World
        <4> QED BY <1>2, <2>7, <4>1 DEF Reset, Rc
      <3>10. c2 = c /\ d2 = dd
        <4>1. World(a, pr, q2, c2, d2, m, k, x) = World(a, p, q, c, dd, m, k, x)
          BY <2>1a, <3>9
        <4> HIDE DEF dd
        <4> QED BY <4>1 DEF World
      <3> HIDE DEF p3, dd
      <3> QED BY <2>4, <2>7, <3>8, <3>10, OwnersBecome
    <2>8. CASE MoveAssign(h, g) /\ kind = "ScopeGuard"
      <3> DEFINE p4 == [p EXCEPT ![h] = p[g]]
                 y == x \cup ({p[h], p[g]} \ {None})
      <3>1. w' = Blame(Point(w, h, p[g]), {p[h], p[g]})
        BY <1>2, <1>7, <2>8 DEF MoveAssign, Rc
      <3>2. Point(w, h, p[g]) = World(a, p4, q, c, d, m, k, x)
        BY DEF Point, World
      <3>3. w' = World(a, p4, q, c, d, m, k, y)
        BY <3>1, <3>2 DEF Blame, World
      <3>4. /\ \A i \in Handles : p4[i] = IF i = h THEN p[g] ELSE p[i]
            /\ p4 \in [Handles -> Objects \cup {None}] /\ y \subseteq Objects
        BY <1>1, <1>3 DEF Typed
      <3>5. \A o \in m \ y : o \notin x /\ \A i \in Handles : p4[i] = o <=> p[i] = o
        BY <1>3, <3>4, OwnersAssumption
      <3> HIDE DEF p4, y
      <3>6. Typed(a, p4, q, c, d, m, k, y)
        BY <1>1, <3>4 DEF Typed
      <3>7. Shaped(kind, a, p4, q, d, m, k)
        BY <1>1, <1>4, <3>4 DEF Shaped
      <3>8. Sane(kind, a, p4, q, c, d, m, k, y)
        BY <3>5, <3>6, <3>7, SaneBlame
      <3> QED BY <3>3, <3>8, OwnersBecome
    <2>9. CASE MoveAssign(h, g) /\ kind = "maybe_unique_ptr"
      <3> DEFINE s == World(a, pr, q2, c2, d2, m, k, x)
                 y == IF q[g] THEN {} ELSE {p[g]} \ {None}
                 q3 == [q2 EXCEPT ![h] = TRUE, ![g] = TRUE]
      <3>1. w' = HandMaybe(s, h, g)
        BY <1>7, <2>1a, <2>9 DEF MoveAssign, Rc
      <3>2. Hand(s, h, g) = World(a, p3, q2, c2, d2, m, k, x)
        <4>1. Hand(s, h, g) = World(a, [pr EXCEPT ![h] = pr[g], ![g] = None], q2, c2, d2, m, k, x)
          BY DEF Hand, World
        <4> QED BY <2>2, <4>1
      <3>3. [World(a, p3, q2, c2, d2, m, k, x) EXCEPT !.owned = [@ EXCEPT ![h] = TRUE, ![g] = TRUE]]
              = World(a, p3, q3, c2, d2, m, k, x)
        <4>1. \A u, v : [World(a, p3, q2, c2, d2, m, k, x) EXCEPT !.owned = [@ EXCEPT ![h] = u, ![g] = v]]
                         = World(a, p3, [q2 EXCEPT ![h] = u, ![g] = v], c2, d2, m, k, x)
          BY DEF World
        <4> QED BY <4>1, Zenon
      <3>4. s.owned = q2 /\ s.ptr = pr
        BY DEF World
      <3>5. w' = World(a, p3, q3, c2, d2, m, k, x \cup y)
        <4> HIDE DEF p3, q3, s
        <4>1. CASE q[g] = TRUE
          <5>1. x \cup y = x
            BY <4>1
          <5> QED BY <2>2, <3>1, <3>2, <3>3, <3>4, <4>1, <5>1 DEF HandMaybe
        <4>2. CASE q[g] = FALSE
          <5>1. w' = Blame(World(a, p3, q3, c2, d2, m, k, x), {p[g]})
            BY <2>2, <3>1, <3>2, <3>3, <3>4, <4>2 DEF HandMaybe
          <5> QED BY <4>2, <5>1 DEF Blame, World
        <4> QED BY <1>3, <4>1, <4>2
      <3>6. Sane(kind, a, p3, q3, c2, d2, m, k, x \cup y)
        <4> DEFINE tt == TRUE
        <4>1. tt \in BOOLEAN /\ y \subseteq Objects /\ (tt # q2[g] => p[g] \in y \cup {None}) /\ tt = TRUE
          BY <1>3, <2>2
        <4>2. Sane(kind, a, p3, [q2 EXCEPT ![h] = tt, ![g] = TRUE], c2, d2, m, k, x \cup y)
          <5> HIDE DEF tt, y, p3, p2
          <5> QED BY <2>1a, <2>3, <4>1
        <4> QED BY <4>2
      <3> HIDE DEF p3, q3, y
      <3> QED BY <3>5, <3>6, OwnersBecome
    <2>10. CASE MoveAssignConverted(h, g)
      <3> DEFINE qd == [q EXCEPT ![h] = TRUE]
                 dd == Bump(d, p[h])
                 y == IF q[h] THEN {} ELSE {p[h]} \ {None}
                 q3 == [q EXCEPT ![h] = q[g], ![g] = TRUE]
      <3>0. kind = "maybe_unique_ptr" /\ kind \notin Rc
        BY <2>10 DEF MoveAssignConverted, Rc
      <3>1. dd = IF p[h] = None THEN d ELSE [d EXCEPT ![p[h]] = @ + 1]
        BY <1>1, OwnersAssumption DEF Bump, Typed
      <3>2. Hand(Deleted(w, p[h]), h, g) = World(a, p3, q, c, dd, m, k, x)
        <4>1. Deleted(w, p[h]) = World(a, p, q, c, dd, m, k, x)
          BY <3>1 DEF Deleted, World
        <4> HIDE DEF dd
        <4> QED BY <4>1 DEF Hand, World
      <3>3. [World(a, p3, q, c, dd, m, k, x) EXCEPT !.owned = [@ EXCEPT ![h] = q[g], ![g] = TRUE]]
              = World(a, p3, q3, c, dd, m, k, x)
        <4> HIDE DEF p3, dd
        <4>1. \A u, v : [World(a, p3, q, c, dd, m, k, x) EXCEPT !.owned = [@ EXCEPT ![h] = u, ![g] = v]]
                         = World(a, p3, [q EXCEPT ![h] = u, ![g] = v], c, dd, m, k, x)
          BY DEF World
        <4> QED BY <4>1, Zenon
      <3>4. w' = World(a, p3, q3, c, dd, m, k, x \cup y)
        <4> DEFINE e == IF q[h] THEN {} ELSE {p[h]}
        <4>1. w' = Blame([Hand(Deleted(w, p[h]), h, g) EXCEPT !.owned = [@ EXCEPT ![h] = q[g], ![g] = TRUE]], e)
          BY <1>2, <2>10 DEF MoveAssignConverted
        <4>2. w' = Blame(World(a, p3, q3, c, dd, m, k, x), e)
          <5> HIDE DEF e, p3, q3, dd
          <5> QED BY <3>2, <3>3, <4>1
        <4>3. e \ {None} = y
          OBVIOUS
        <4> HIDE DEF e, p3, q3, dd, y
        <4> QED BY <4>2, <4>3 DEF Blame, World
      <3>5. Sane(kind, a, p2, qd, c, dd, m, k, x \cup y)
        <4>1. Sane(kind, a, p2, qd, c, IF q[h] THEN dd ELSE d, m, k, x)
          BY <3>0, SaneDrop
        <4>2. CASE q[h] = TRUE
          <5>1. x \cup y = x
            BY <4>2
          <5> HIDE DEF p2, qd, dd, y
          <5> QED BY <4>1, <4>2, <5>1
        <4>3. CASE q[h] = FALSE
          <5> DEFINE z == x \cup y
          <5>1. Sane(kind, a, p2, qd, c, d, m, k, x)
            BY <4>1, <4>3
          <5>2. Typed(a, p2, qd, c, d, m, k, x) /\ Shaped(kind, a, p2, qd, d, m, k)
            BY <5>1 DEF Sane
          <5>3. dd \in [Objects -> Nat] /\ \A o \in Objects : o # p[h] => dd[o] = d[o]
            BY <1>1 DEF Bump, Typed
          <5>4. z \subseteq Objects /\ \A o \in m \ z : o \notin x /\ o # p[h]
            BY <1>1, <1>3, <4>3, OwnersAssumption DEF Typed
          <5>5. \A o \in m \ z : o \notin x /\ dd[o] = d[o]
            BY <1>3, <5>3, <5>4
          <5> HIDE DEF z, dd, p2, qd
          <5>6. Typed(a, p2, qd, c, dd, m, k, z)
            BY <5>2, <5>3, <5>4 DEF Typed
          <5>7. Shaped(kind, a, p2, qd, dd, m, k)
            <6>1. \A o \in Objects : o \notin m => o # p[h]
              BY <1>3, OwnersAssumption
            <6> QED BY <5>2, <5>3, <6>1 DEF Shaped
          <5>8. Sane(kind, a, p2, qd, c, dd, m, k, z)
            BY <5>1, <5>5, <5>6, <5>7, SaneBlame
          <5> QED BY <5>8 DEF z
        <4> QED BY <1>3, <4>2, <4>3
      <3>6. Sane(kind, a, p3, q3, c, dd, m, k, x \cup y)
        <4>1. /\ q[g] \in BOOLEAN /\ qd[g] = q[g] /\ {} \subseteq Objects
              /\ [qd EXCEPT ![h] = q[g], ![g] = TRUE] = q3
          BY <1>3, <1>7
        <4>2. (x \cup y) \cup {} = x \cup y
          OBVIOUS
        <4> HIDE DEF p3, p2, q3, qd, dd, y
        <4>3. Sane(kind, a, p3, [qd EXCEPT ![h] = q[g], ![g] = TRUE], c, dd, m, k, (x \cup y) \cup {})
          BY <2>3, <3>0, <3>5, <4>1
        <4> QED BY <4>1, <4>2, <4>3
      <3> HIDE DEF p3, q3, dd, y
      <3> QED BY <3>4, <3>6, OwnersBecome
    <2> QED BY <1>7, <2>5, <2>6, <2>7, <2>8, <2>9, <2>10
  <1>8. CASE h = g /\ ~Swap(h, g)
    <2>0. CopyAssign(h, g) \/ MoveAssign(h, g)
      BY <1>8 DEF MoveAssignConverted
    <2>1. CASE kind # "unique_resource" \/ CopyAssign(h, g)
      <3>1. CopyAssign(h, g) => w' = w
        BY <1>8 DEF CopyAssign
      <3>2. MoveAssign(h, g) /\ kind # "unique_resource" => w' = w
        BY <1>8 DEF MoveAssign
      <3> QED BY <1>5, <2>0, <2>1, <3>1, <3>2
    <2>2. CASE kind = "unique_resource" /\ ~CopyAssign(h, g)
      <3> DEFINE p2 == [p EXCEPT ![h] = None]
      <3>1. w' = TakeOver(w, h, h)
        BY <1>8, <2>0, <2>2 DEF MoveAssign
      <3>2. Point(w, h, None) = World(a, p2, q, c, d, m, k, x)
        BY DEF Point, World
      <3>3. p2[h] = None /\ World(a, p2, q, c, d, m, k, x).ptr = p2
        BY <1>3 DEF World
      <3>4. w' = Point(World(a, p2, q, c, d, m, k, x), h, p[h])
        BY <1>2, <3>1, <3>2, <3>3 DEF TakeOver, Deleted
      <3>5. w' = World(a, [p2 EXCEPT ![h] = p[h]], q, c, d, m, k, x)
        BY <3>4 DEF Point, World
      <3>6. [p2 EXCEPT ![h] = p[h]] = p
        BY <1>3
      <3> QED BY <1>5, <3>5, <3>6
    <2> QED BY <2>1, <2>2
  <1> QED BY <1>6, <1>7, <1>8

(* Every operation of every kind of handle keeps the invariant.            *)
LEMMA OwnersStep ==
  ASSUME OwnersInv, [OwnersNext]_ownersVars
  PROVE  OwnersInv'
  <1>1. CASE UNCHANGED ownersVars
    BY <1>1 DEF ownersVars, OwnersInv
  <1>2. CASE OwnersNext
    <2> DEFINE a == w.alive
               p == w.ptr
               q == w.owned
               c == w.count
               d == w.deletes
               m == w.made
               k == w.kept
               x == w.misused
    <2>1. kind \in Kinds /\ w = World(a, p, q, c, d, m, k, x) /\ Sane(kind, a, p, q, c, d, m, k, x)
      BY DEF OwnersInv
    <2>2. UNCHANGED kind
      BY <1>2 DEF OwnersNext
    <2> HIDE DEF a, p, q, c, d, m, k, x
    <2>3. PICK h \in Handles :
            \/ Construct(h) \/ ResetNow(h) \/ RunThrows(h) \/ Release(h) \/ Destroy(h)
            \/ \E o \in Objects, owned \in BOOLEAN : ConstructWith(h, o, owned) \/ ResetTo(h, o, owned)
            \/ \E g \in Handles : \/ MoveConstruct(h, g) \/ CopyConstruct(h, g) \/ CopyAssign(h, g)
                                  \/ MoveAssign(h, g) \/ MoveAssignConverted(h, g) \/ Swap(h, g)
      BY <1>2 DEF OwnersNext
    <2>4. CASE \/ Construct(h) \/ \E o \in Objects, owned \in BOOLEAN : ConstructWith(h, o, owned)
               \/ \E g \in Handles : MoveConstruct(h, g) \/ CopyConstruct(h, g)
      BY <2>1, <2>2, <2>4, HandleMade
    <2>5. CASE \/ ResetNow(h) \/ RunThrows(h) \/ Release(h) \/ Destroy(h)
               \/ \E o \in Objects, owned \in BOOLEAN : ResetTo(h, o, owned)
      BY <2>1, <2>2, <2>5, HandleLeaves
    <2>6. ASSUME NEW g \in Handles, CopyAssign(h, g) \/ MoveAssign(h, g) \/ MoveAssignConverted(h, g) \/ Swap(h, g)
          PROVE  OwnersInv'
      BY <2>1, <2>2, <2>6, HandleAssigned
    <2> QED BY <2>3, <2>4, <2>5, <2>6
  <1> QED BY <1>1, <1>2

(* It holds of the handles before any is made.                             *)
LEMMA OwnersBegin == OwnersInit => OwnersInv
  <1> SUFFICES ASSUME OwnersInit PROVE OwnersInv
    OBVIOUS
  <1> DEFINE p == [h \in Handles |-> None]
             q == [h \in Handles |-> TRUE]
             c == [o \in Objects |-> 0]
  <1>1. w = World({}, p, q, c, c, {}, {}, {}) /\ kind \in Kinds
    BY DEF OwnersInit, World
  <1>2. /\ p \in [Handles -> Objects \cup {None}] /\ q \in [Handles -> BOOLEAN] /\ c \in [Objects -> Int]
        /\ c \in [Objects -> Nat] /\ (\A h \in Handles : p[h] = None /\ q[h] = TRUE) /\ \A o \in Objects : c[o] = 0
    OBVIOUS
  <1> HIDE DEF p, q, c
  <1>3. Sane(kind, {}, p, q, c, c, {}, {}, {})
    BY <1>2 DEF Sane, Typed, Shaped
  <1>4. /\ w.alive = {} /\ w.ptr = p /\ w.owned = q /\ w.count = c /\ w.deletes = c /\ w.made = {}
        /\ w.kept = {} /\ w.misused = {}
    BY <1>1 DEF World
  <1> QED BY <1>1, <1>3, <1>4 DEF OwnersInv

(* It implies what the handles promise.                                    *)
LEMMA OwnersKeep == OwnersInv => OwnersSound
  <1> SUFFICES ASSUME OwnersInv PROVE OwnersSound
    OBVIOUS
  <1> DEFINE a == w.alive
             p == w.ptr
             q == w.owned
             c == w.count
             d == w.deletes
             m == w.made
             k == w.kept
             x == w.misused
  <1>1. /\ \A o \in m \ x : Fine(kind, p, q, c, d, k, o) /\ o \in Objects /\ o # None
        /\ a \subseteq Handles /\ \A h \in Handles : h \notin a => p[h] = None
    BY OwnersAssumption DEF OwnersInv, Sane, Typed, Shaped
  <1>2. ASSUME NEW o \in m \ x PROVE /\ Holders(o) = HandlesTo(p, o)
                                     /\ \A h \in Handles : h \in Holders(o) <=> p[h] = o
    BY <1>1 DEF Holders, HandlesTo
  <1>3. Sound = m \ x
    BY DEF Sound
  <1>4. DeletedOnce
    <2> SUFFICES ASSUME NEW o \in m \ x
                 PROVE  /\ d[o] + (IF o \in k THEN 1 ELSE 0) <= 1
                        /\ Holders(o) # {} => d[o] = 0
      BY <1>3 DEF DeletedOnce
    <2>1. Fine(kind, p, q, c, d, k, o) /\ Holders(o) \subseteq Handles
      BY <1>1, <1>2 DEF HandlesTo
    <2>2. Holders(o) # {} => d[o] = 0
      BY <1>2, <2>1 DEF Fine
    <2>3. d[o] = 1 => o \notin k
      BY <2>1 DEF Fine
    <2>4. d[o] = 0 \/ d[o] = 1
      BY <2>1 DEF Fine
    <2> HIDE DEF d, k
    <2>5. d[o] + (IF o \in k THEN 1 ELSE 0) <= 1
      BY <2>3, <2>4
    <2> QED BY <2>2, <2>5
  <1>5. NothingLost
    <2> SUFFICES ASSUME NEW o \in m \ x, d[o] # 1, o \notin k
                 PROVE  \E h \in Holders(o) : q[h]
      BY <1>3 DEF NothingLost
    <2>1. PICK h \in Handles : p[h] = o
      BY <1>1 DEF Fine
    <2>2. q[h] = TRUE /\ h \in Holders(o)
      BY <1>1, <1>2, <2>1 DEF Fine
    <2> QED BY <2>2
  <1>6. OwnersCounted
    <2> SUFFICES ASSUME NEW o \in m \ x
                 PROVE  IF kind \in Rc THEN c[o] = Cardinality(Holders(o))
                        ELSE Cardinality({h \in Holders(o) : q[h]}) <= (IF o \in k THEN 0 ELSE 1)
      BY <1>3 DEF OwnersCounted
    <2>1. CASE kind \in Rc
      BY <1>1, <1>2, <2>1 DEF Fine
    <2>2. CASE kind \notin Rc
      <3> DEFINE S == {h \in Holders(o) : q[h]}
      <3>1. \A g, h \in S : g = h
        <4>1. \A g, h \in Handles : p[g] = o /\ p[h] = o => g = h
          BY <1>1, <2>2 DEF Fine
        <4>2. \A h \in S : h \in Handles /\ p[h] = o
          BY <1>1 DEF Holders
        <4> HIDE DEF S
        <4> QED BY <4>1, <4>2
      <3>2. CASE S = {}
        <4>1. Cardinality(S) = 0
          BY <3>2, FS_EmptySet
        <4> QED BY <2>2, <4>1
      <3>3. CASE S # {}
        <4>1. PICK h \in Holders(o) : q[h]
          BY <3>3
        <4>2. S = {h}
          BY <3>1, <4>1
        <4>3. Cardinality(S) = 1
          BY <4>2, FS_Singleton
        <4>4. h \in Handles /\ p[h] = o
          BY <1>1, <1>2, <4>1 DEF Holders
        <4>5. o \notin k
          BY <1>1, <4>1, <4>4 DEF Fine
        <4> QED BY <2>2, <4>3, <4>5
      <3> QED BY <3>2, <3>3
    <2> QED BY <2>1, <2>2
  <1> QED BY <1>4, <1>5, <1>6 DEF OwnersSound

-------------------------------------------------------------------------------
(* Remainders.                                                             *)

(* What % and \div are.                                                    *)
LEMMA ModIs ==
  ASSUME NEW m \in Nat \ {0}, NEW x \in Int
  PROVE  /\ x % m \in 0 .. m - 1
         /\ x \div m \in Int /\ x = m * (x \div m) + (x % m)
         /\ x \in 0 .. m - 1 => x % m = x
         /\ x \in m .. 2 * m - 1 => x % m = x - m
  OBVIOUS

(* There is one remainder only.                                            *)
LEMMA ModOnly ==
  ASSUME NEW m \in Nat \ {0}, NEW x \in Int, NEW q \in Int, NEW r \in 0 .. m - 1, x = m * q + r
  PROVE  x % m = r
  OBVIOUS

(* Numbers a multiple of m apart are the same modulo m, and numbers less   *)
(* than m apart are not.                                                   *)
LEMMA ModShift ==
  ASSUME NEW m \in Nat \ {0}, NEW x \in Int, NEW d \in Int, d % m = 0
  PROVE  (x + d) % m = x % m
  <1> DEFINE q == x \div m
             k == d \div m
             r == x % m
  <1>1. q \in Int /\ k \in Int /\ r \in 0 .. m - 1 /\ x = m * q + r /\ d = m * k + 0
    BY ModIs
  <1> HIDE DEF q, k, r
  <1>2. x + d = m * (q + k) + r
    BY <1>1
  <1>3. (x + d) % m = r
    BY <1>1, <1>2, ModOnly
  <1> QED BY <1>3 DEF r

(* Places less than a round apart are different places.                    *)
LEMMA ModApart ==
  ASSUME NEW m \in Nat \ {0}, NEW x \in Int, NEW y \in Int, x < y, y < x + m
  PROVE  x % m # y % m
  <1> SUFFICES ASSUME x % m = y % m PROVE FALSE
    OBVIOUS
  <1> DEFINE q == x \div m
             k == y \div m
             r == x % m
  <1>1. q \in Int /\ k \in Int /\ r \in Int /\ x = m * q + r /\ y = m * k + r
    BY ModIs
  <1> HIDE DEF q, k, r
  <1>2. y - x = m * (k - q)
    BY <1>1
  <1>3. CASE k - q > 0
    <2>1. m * (k - q) >= m
      BY <1>1, <1>3
    <2> QED BY <1>2, <2>1
  <1>4. CASE ~(k - q > 0)
    <2>1. m * (k - q) <= 0
      BY <1>1, <1>4
    <2> QED BY <1>2, <2>1
  <1> QED BY <1>3, <1>4

-------------------------------------------------------------------------------
(* RingAdaptor.                                                            *)

(* How far the tail is from the head, through the wrap of the counters.    *)
LEMMA CountersApart ==
  ASSUME NEW h \in 0 .. SizeMax, NEW t \in 0 .. SizeMax,
         NEW n, n = (t + SizeMax + 1 - h) % (SizeMax + 1)
  PROVE  /\ n \in 0 .. SizeMax /\ (h # t => n > 0)
         /\ t = h + n \/ t = h + n - (SizeMax + 1)
         /\ Advanced(t) \in 0 .. SizeMax /\ Advanced(h) \in 0 .. SizeMax
         /\ n < SizeMax => (Advanced(t) + SizeMax + 1 - h) % (SizeMax + 1) = n + 1
         /\ n > 0 => (t + SizeMax + 1 - Advanced(h)) % (SizeMax + 1) = n - 1
  <1> DEFINE m == SizeMax + 1
             wrapped(x) == IF x < m THEN x ELSE x - m
  <1>0. SizeMax \in Nat /\ m \in Nat \ {0}
    BY RingAssumption
  <1>1. \A x \in 0 .. 2 * m - 1 : x % m = wrapped(x)
    <2> SUFFICES ASSUME NEW x \in 0 .. 2 * m - 1 PROVE x % m = wrapped(x)
      OBVIOUS
    <2>1. x \in Int /\ (x < m => x \in 0 .. m - 1) /\ (~(x < m) => x \in m .. 2 * m - 1)
      BY <1>0
    <2> QED BY <1>0, <2>1, ModIs
  <1>2. /\ (t + SizeMax + 1 - h) % m = wrapped(t + SizeMax + 1 - h)
        /\ (t + 1) % m = wrapped(t + 1) /\ (h + 1) % m = wrapped(h + 1)
    <2>1. t + SizeMax + 1 - h \in 0 .. 2 * m - 1 /\ t + 1 \in 0 .. 2 * m - 1 /\ h + 1 \in 0 .. 2 * m - 1
      BY <1>0
    <2> HIDE DEF wrapped, m
    <2> QED BY <1>1, <2>1
  <1>3. wrapped(t + 1) \in 0 .. SizeMax /\ wrapped(h + 1) \in 0 .. SizeMax
    BY <1>0
  <1>4. /\ (wrapped(t + 1) + SizeMax + 1 - h) % m = wrapped(wrapped(t + 1) + SizeMax + 1 - h)
        /\ (t + SizeMax + 1 - wrapped(h + 1)) % m = wrapped(t + SizeMax + 1 - wrapped(h + 1))
    <2>1. wrapped(t + 1) + SizeMax + 1 - h \in 0 .. 2 * m - 1 /\ t + SizeMax + 1 - wrapped(h + 1) \in 0 .. 2 * m - 1
      BY <1>0, <1>3
    <2> HIDE DEF wrapped, m
    <2> QED BY <1>1, <2>1
  <1>5. Advanced(t) = wrapped(t + 1) /\ Advanced(h) = wrapped(h + 1)
    BY <1>2 DEF Advanced
  <1> QED BY <1>0, <1>2, <1>3, <1>4, <1>5

(* The capacity divides the numbers a counter goes through, so that the    *)
(* wrap does not show in the places; a full ring uses each place once.     *)
LEMMA RingPlaces ==
  ASSUME NEW c \in Capacities, NEW h \in 0 .. SizeMax
  PROVE  LET place(i) == ((h + i) % (SizeMax + 1)) % c IN
         /\ \A i \in 0 .. SizeMax : place(i) \in 0 .. c - 1 /\ place(i) = (h + i) % c
         /\ \A i, j \in 0 .. c - 1 : i # j => (h + i) % c # (h + j) % c
         /\ \A i \in 0 .. SizeMax - 1 : (((h + 1) % (SizeMax + 1)) + i) % c = (h + i + 1) % c
  <1> DEFINE m == SizeMax + 1
  <1>0. SizeMax \in Nat /\ m \in Nat \ {0} /\ c \in Nat \ {0} /\ m % c = 0 /\ c <= SizeMax
    BY RingAssumption
  <1> HIDE DEF m
  <1>1. \A x \in Int : (x + m) % c = x % c /\ x % c \in 0 .. c - 1
    <2> SUFFICES ASSUME NEW x \in Int PROVE (x + m) % c = x % c /\ x % c \in 0 .. c - 1
      OBVIOUS
    <2>1. (x + m) % c = x % c
      <3>1. x \in Int /\ m \in Int /\ c \in Nat \ {0} /\ m % c = 0
        BY <1>0
      <3> QED BY <3>1, ModShift, Zenon
    <2>2. x % c \in 0 .. c - 1
      BY <1>0, ModIs
    <2> QED BY <2>1, <2>2
  <1>2. \A x \in 0 .. 2 * m - 1 : x % m = IF x < m THEN x ELSE x - m
    <2> SUFFICES ASSUME NEW x \in 0 .. 2 * m - 1 PROVE x % m = IF x < m THEN x ELSE x - m
      OBVIOUS
    <2>1. x \in Int /\ (x < m => x \in 0 .. m - 1) /\ (~(x < m) => x \in m .. 2 * m - 1)
      BY <1>0
    <2> QED BY <1>0, <2>1, ModIs
  <1>3. SizeMax = m - 1
    BY <1>0 DEF m
  <1>4. ASSUME NEW i \in 0 .. SizeMax
        PROVE  ((h + i) % m) % c \in 0 .. c - 1 /\ ((h + i) % m) % c = (h + i) % c
    <2>1. h + i \in 0 .. 2 * m - 1 /\ h + i \in Int /\ (h + i - m) + m = h + i
      BY <1>0, <1>3
    <2>2. CASE h + i < m
      <3>1. (h + i) % m = h + i
        BY <1>2, <2>1, <2>2
      <3> QED BY <1>1, <2>1, <3>1
    <2>3. CASE ~(h + i < m)
      <3>1. (h + i) % m = h + i - m /\ h + i - m \in Int
        BY <1>0, <1>2, <2>1, <2>3
      <3>2. ((h + i - m) + m) % c = (h + i - m) % c
        BY <1>1, <3>1
      <3> QED BY <1>1, <2>1, <3>1, <3>2
    <2> QED BY <2>2, <2>3
  <1>5. ASSUME NEW i \in 0 .. c - 1, NEW j \in 0 .. c - 1, i # j
        PROVE  (h + i) % c # (h + j) % c
    <2>1. h + i \in Int /\ h + j \in Int
      BY <1>0
    <2>2. CASE i < j
      <3>1. h + i < h + j /\ h + j < (h + i) + c
        BY <1>0, <2>2
      <3> QED BY <1>0, <2>1, <3>1, ModApart
    <2>3. CASE j < i
      <3>1. h + j < h + i /\ h + i < (h + j) + c
        BY <1>0, <2>3
      <3> QED BY <1>0, <2>1, <3>1, ModApart
    <2> QED BY <1>0, <1>5, <2>2, <2>3
  <1>6. ASSUME NEW i \in 0 .. SizeMax - 1
        PROVE  (((h + 1) % m) + i) % c = (h + i + 1) % c
    <2>1. h + 1 \in 0 .. 2 * m - 1 /\ h + i + 1 = (h + 1) + i /\ i \in Int
      BY <1>0, <1>3
    <2>2. CASE h + 1 < m
      <3>1. (h + 1) % m = h + 1
        BY <1>2, <2>1, <2>2
      <3> QED BY <2>1, <3>1
    <2>3. CASE ~(h + 1 < m)
      <3>1. h + 1 = m /\ h + i + 1 = i + m
        BY <1>0, <1>3, <2>3
      <3>2. (h + 1) % m = 0
        BY <1>0, <1>2, <2>1, <3>1
      <3>3. (i + m) % c = i % c /\ 0 + i = i
        BY <1>1, <2>1
      <3> QED BY <3>1, <3>2, <3>3
    <2> QED BY <2>2, <2>3
  <1> QED BY <1>4, <1>5, <1>6 DEF m

(* While it is followed, the elements from the head on are the items.      *)
RingInv ==
  fifo.followed =>
    /\ ring.capacity \in Capacities
    /\ ring \in [capacity : Capacities, queue : [0 .. ring.capacity - 1 -> RingValues \cup {Unset}],
                 head : 0 .. SizeMax, tail : 0 .. SizeMax]
    /\ fifo \in [items : Seq(RingValues), followed : BOOLEAN]
    /\ Size = Len(fifo.items) /\ Size <= ring.capacity
    /\ \A i \in 0 .. Size - 1 : ring.queue[(ring.head + i) % ring.capacity] = fifo.items[i + 1]

(* The lookups of the ring, once the wrap is out of the way.               *)
LEMMA RingFacts ==
  ASSUME RingInv, fifo.followed
  PROVE  /\ SizeMax \in Nat /\ ring.capacity \in 1 .. SizeMax /\ Size \in 0 .. SizeMax
         /\ \A i \in 0 .. SizeMax :
              Idx(ring.head + i) = (ring.head + i) % ring.capacity /\ Idx(ring.head + i) \in 0 .. ring.capacity - 1
         /\ Idx(ring.head) = (ring.head + 0) % ring.capacity
         /\ Idx(ring.tail) = (ring.head + Size) % ring.capacity
         /\ \A i, j \in 0 .. ring.capacity - 1 :
              i # j => (ring.head + i) % ring.capacity # (ring.head + j) % ring.capacity
         /\ \A i \in 0 .. SizeMax - 1 : (Advanced(ring.head) + i) % ring.capacity = (ring.head + i + 1) % ring.capacity
  <1> DEFINE h == ring.head
             t == ring.tail
             c == ring.capacity
             m == SizeMax + 1
  <1>0. SizeMax \in Nat /\ c \in 1 .. SizeMax /\ m % c = 0 /\ c \in Capacities
    BY RingAssumption DEF RingInv
  <1>1. h \in 0 .. SizeMax /\ t \in 0 .. SizeMax
    BY DEF RingInv
  <1> HIDE DEF h, t, c
  <1>2. /\ \A i \in 0 .. SizeMax : ((h + i) % m) % c \in 0 .. c - 1 /\ ((h + i) % m) % c = (h + i) % c
        /\ \A i, j \in 0 .. c - 1 : i # j => (h + i) % c # (h + j) % c
        /\ \A i \in 0 .. SizeMax - 1 : (((h + 1) % m) + i) % c = (h + i + 1) % c
    BY <1>0, <1>1, RingPlaces
  <1>4. Size = (t + SizeMax + 1 - h) % m
    BY DEF Size, h, t
  <1>5. Size \in 0 .. SizeMax /\ (t = h + Size \/ t = h + Size - m)
    BY <1>1, <1>4, CountersApart
  <1>6. (t % m) % c = (h + Size) % c
    <2>1. t % m = t /\ t \in Int
      <3>1. m \in Nat \ {0} /\ t \in 0 .. m - 1 /\ t \in Int
        BY <1>0, <1>1
      <3> HIDE DEF m
      <3> QED BY <3>1, ModIs
    <2>2. CASE t = h + Size
      BY <2>1, <2>2
    <2>3. CASE t = h + Size - m
      <3>1. t + m = h + Size /\ t \in Int /\ m \in Int /\ c \in Nat \ {0} /\ m % c = 0
        BY <1>0, <1>1, <1>5, <2>3
      <3>2. (t + m) % c = t % c
        BY <3>1, ModShift, Zenon
      <3> QED BY <2>1, <3>1, <3>2
    <2> QED BY <1>5, <2>2, <2>3
  <1>7. (h % m) % c = (h + 0) % c
    <2>1. 0 \in 0 .. SizeMax /\ h + 0 = h
      BY <1>0, <1>1
    <2> QED BY <1>2, <2>1
  <1> QED BY <1>0, <1>2, <1>5, <1>6, <1>7 DEF Idx, Advanced, h, t, c

(* A step that leaves the ring with other counters and elements, and the   *)
(* queue with other items.                                                 *)
LEMMA RingBecomes ==
  ASSUME NEW c \in Capacities, NEW queue \in [0 .. c - 1 -> RingValues \cup {Unset}],
         NEW h \in 0 .. SizeMax, NEW t \in 0 .. SizeMax, NEW items \in Seq(RingValues),
         ring' = [capacity |-> c, queue |-> queue, head |-> h, tail |-> t],
         fifo' = [items |-> items, followed |-> TRUE],
         (t + SizeMax + 1 - h) % (SizeMax + 1) = Len(items), Len(items) <= c,
         \A i \in 0 .. Len(items) - 1 : queue[(h + i) % c] = items[i + 1]
  PROVE  RingInv'
  <1>1. /\ ring'.capacity = c /\ ring'.queue = queue /\ ring'.head = h /\ ring'.tail = t
        /\ fifo'.items = items
    OBVIOUS
  <1>2. Size' = Len(items)
    BY <1>1 DEF Size
  <1>3. /\ ring' \in [capacity : Capacities, queue : [0 .. c - 1 -> RingValues \cup {Unset}],
                      head : 0 .. SizeMax, tail : 0 .. SizeMax]
        /\ fifo' \in [items : Seq(RingValues), followed : BOOLEAN]
    OBVIOUS
  <1> QED BY <1>1, <1>2, <1>3 DEF RingInv

(* Every operation on the ring keeps the invariant.                        *)
LEMMA RingStep ==
  ASSUME RingInv, [RingNext]_ringVars
  PROVE  RingInv'
  <1> DEFINE c == ring.capacity
             h == ring.head
             t == ring.tail
             queue == ring.queue
             items == fifo.items
             n == Size
             Things == RingValues \cup {Unset}
  <1>1. CASE UNCHANGED ringVars
    BY <1>1 DEF ringVars, RingInv, Size
  <1>2. CASE RingNext
    <2>1. fifo.followed
      BY <1>2 DEF RingNext, PushBack, EmplaceBack, PopFront, AssignAt, ClearRing
    <2>2. /\ ring = [capacity |-> c, queue |-> queue, head |-> h, tail |-> t]
          /\ c \in Capacities /\ queue \in [0 .. c - 1 -> Things] /\ h \in 0 .. SizeMax /\ t \in 0 .. SizeMax
          /\ fifo = [items |-> items, followed |-> fifo.followed] /\ fifo.followed \in BOOLEAN
          /\ items \in Seq(RingValues) /\ n = Len(items) /\ n <= c
          /\ \A i \in 0 .. n - 1 : queue[(h + i) % c] = items[i + 1]
      BY <2>1 DEF RingInv
    <2>3. fifo = [items |-> items, followed |-> TRUE]
      BY <2>1, <2>2
    <2>4. /\ SizeMax \in Nat /\ c \in 1 .. SizeMax /\ n \in 0 .. SizeMax
          /\ \A i \in 0 .. SizeMax : Idx(h + i) = (h + i) % c /\ Idx(h + i) \in 0 .. c - 1
          /\ Idx(h) = (h + 0) % c /\ Idx(t) = (h + n) % c
          /\ \A i, j \in 0 .. c - 1 : i # j => (h + i) % c # (h + j) % c
          /\ \A i \in 0 .. SizeMax - 1 : (Advanced(h) + i) % c = (h + i + 1) % c
      BY <2>1, RingFacts
    <2>5. /\ n = (t + SizeMax + 1 - h) % (SizeMax + 1) /\ (h # t => n > 0)
          /\ Advanced(t) \in 0 .. SizeMax /\ Advanced(h) \in 0 .. SizeMax
          /\ n < SizeMax => (Advanced(t) + SizeMax + 1 - h) % (SizeMax + 1) = n + 1
          /\ n > 0 => (t + SizeMax + 1 - Advanced(h)) % (SizeMax + 1) = n - 1
      <3>1. n = (t + SizeMax + 1 - h) % (SizeMax + 1)
        BY DEF Size
      <3> HIDE DEF n, t, h
      <3>2. h \in 0 .. SizeMax /\ t \in 0 .. SizeMax
        BY <2>2
      <3>3. h # t => n > 0
        BY <3>1, <3>2, CountersApart
      <3>4. Advanced(t) \in 0 .. SizeMax /\ Advanced(h) \in 0 .. SizeMax
        BY <3>1, <3>2, CountersApart
      <3>5. n < SizeMax => (Advanced(t) + SizeMax + 1 - h) % (SizeMax + 1) = n + 1
        BY <3>1, <3>2, CountersApart
      <3>6. n > 0 => (t + SizeMax + 1 - Advanced(h)) % (SizeMax + 1) = n - 1
        BY <3>1, <3>2, CountersApart
      <3> QED BY <3>1, <3>3, <3>4, <3>5, <3>6
    <2>6. \A i \in 0 .. c - 1 : (h + i) % c \in 0 .. c - 1
      BY <2>4
    <2> HIDE DEF c, h, t, queue, items, n
    <2>0. h \in Nat /\ n \in Nat /\ c \in Nat /\ SizeMax \in Nat /\ n <= c /\ c <= SizeMax
      BY <2>2, <2>4
    <2>7. ASSUME NEW v \in RingValues, PushBack(v)
          PROVE  RingInv'
      <3>1. n < c /\ n < SizeMax /\ n \in 0 .. c - 1 /\ n + 1 <= c
        <4>1. n # c
          BY <2>7 DEF PushBack, IsFull, n, c
        <4> QED BY <2>0, <4>1
      <3> DEFINE p == (h + n) % c
                 q == [queue EXCEPT ![p] = v]
                 s == Append(items, v)
      <3>2. /\ ring' = [ring EXCEPT !.queue[p] = v, !.tail = Advanced(t)]
            /\ fifo' = [fifo EXCEPT !.items = s]
        BY <2>7, <2>4 DEF PushBack, t, items
      <3>3. p \in 0 .. c - 1
        BY <2>6, <3>1
      <3> HIDE DEF p
      <3>4. q \in [0 .. c - 1 -> Things]
        BY <2>2, <3>3
      <3>5. s \in Seq(RingValues) /\ Len(s) = n + 1 /\ s[n + 1] = v /\ \A i \in 1 .. n : s[i] = items[i]
        BY <2>2, <2>4
      <3>6. ASSUME NEW i \in 0 .. n PROVE q[(h + i) % c] = s[i + 1]
        <4>1. i \in 0 .. c - 1 /\ (h + i) % c \in 0 .. c - 1
          BY <2>4, <2>6, <3>1
        <4>2. CASE i = n
          BY <2>2, <3>3, <3>5, <4>2 DEF p
        <4>3. CASE i # n
          <5>1. i \in 0 .. n - 1 /\ i + 1 \in 1 .. n
            BY <4>3, <2>4
          <5>2. (h + i) % c # p
            BY <2>4, <3>1, <4>1, <4>3 DEF p
          <5>3. q[(h + i) % c] = queue[(h + i) % c]
            BY <2>2, <4>1, <5>2
          <5> QED BY <2>2, <3>5, <5>1, <5>3
        <4> QED BY <4>2, <4>3
      <3>7. /\ ring' = [capacity |-> c, queue |-> q, head |-> h, tail |-> Advanced(t)]
            /\ fifo' = [items |-> s, followed |-> TRUE]
        BY <2>2, <2>3, <3>2
      <3> HIDE DEF q, s
      <3>8. /\ (Advanced(t) + SizeMax + 1 - h) % (SizeMax + 1) = Len(s) /\ Len(s) <= c
            /\ \A i \in 0 .. Len(s) - 1 : q[(h + i) % c] = s[i + 1]
        BY <2>4, <2>5, <3>1, <3>5, <3>6
      <3> QED BY <2>2, <2>5, <3>4, <3>5, <3>7, <3>8, RingBecomes
    <2>8. ASSUME NEW v \in RingValues, EmplaceBack(v)
          PROVE  RingInv'
      BY <2>8 DEF EmplaceBack, RingInv
    <2>9. CASE PopFront
      <3>1. n > 0 /\ 0 \in 0 .. c - 1
        <4>1. h # t
          BY <2>9 DEF PopFront, h, t
        <4> QED BY <2>4, <2>5, <4>1
      <3> DEFINE p == (h + 0) % c
                 q == [queue EXCEPT ![p] = Unset]
                 s == Tail(items)
      <3>2. /\ ring' = [ring EXCEPT !.queue[p] = Unset, !.head = Advanced(h)]
            /\ fifo' = [fifo EXCEPT !.items = s]
        BY <2>9, <2>4 DEF PopFront, h, items
      <3>3. p \in 0 .. c - 1
        BY <2>6, <3>1
      <3> HIDE DEF p
      <3>4. q \in [0 .. c - 1 -> Things]
        BY <2>2, <3>3
      <3>5. s \in Seq(RingValues) /\ Len(s) = n - 1 /\ \A i \in 1 .. n - 1 : s[i] = items[i + 1]
        BY <2>2, <2>4, <3>1
      <3>6. ASSUME NEW i \in 0 .. n - 2 PROVE q[(Advanced(h) + i) % c] = s[i + 1]
        <4>1. /\ i \in 0 .. SizeMax - 1 /\ i + 1 \in 0 .. c - 1 /\ i + 1 # 0 /\ i + 1 \in 0 .. n - 1
              /\ i + 1 \in 1 .. n - 1 /\ h + (i + 1) = h + i + 1
          BY <2>0, <3>1
        <4>2. (Advanced(h) + i) % c = (h + (i + 1)) % c
          BY <2>4, <4>1
        <4>3. (h + (i + 1)) % c # p /\ (h + (i + 1)) % c \in 0 .. c - 1
          BY <2>4, <2>6, <3>1, <4>1 DEF p
        <4>4. q[(h + (i + 1)) % c] = queue[(h + (i + 1)) % c]
          BY <2>2, <4>3
        <4>5. queue[(h + (i + 1)) % c] = items[(i + 1) + 1]
          BY <2>2, <4>1
        <4>6. s[i + 1] = items[(i + 1) + 1]
          BY <3>5, <4>1
        <4> QED BY <4>2, <4>4, <4>5, <4>6
      <3>7. /\ ring' = [capacity |-> c, queue |-> q, head |-> Advanced(h), tail |-> t]
            /\ fifo' = [items |-> s, followed |-> TRUE]
        BY <2>2, <2>3, <3>2
      <3> HIDE DEF q, s
      <3>8. /\ (t + SizeMax + 1 - Advanced(h)) % (SizeMax + 1) = Len(s) /\ Len(s) <= c
            /\ \A i \in 0 .. Len(s) - 1 : q[(Advanced(h) + i) % c] = s[i + 1]
        <4>1. Len(s) = n - 1 /\ Len(s) <= c /\ Len(s) - 1 = n - 2
          BY <2>0, <3>1, <3>5
        <4>2. (t + SizeMax + 1 - Advanced(h)) % (SizeMax + 1) = n - 1
          BY <2>5, <3>1
        <4> QED BY <3>6, <4>1, <4>2
      <3> QED BY <2>2, <2>5, <3>4, <3>5, <3>7, <3>8, RingBecomes
    <2>10. ASSUME NEW v \in RingValues, NEW k \in 0 .. c - 1, AssignAt(k, v)
           PROVE  RingInv'
      <3>1. k < n
        BY <2>10 DEF AssignAt, n
      <3> DEFINE p == (h + k) % c
                 q == [queue EXCEPT ![p] = v]
                 s == [items EXCEPT ![k + 1] = v]
      <3>2. /\ ring' = [ring EXCEPT !.queue[p] = v] /\ fifo' = [fifo EXCEPT !.items[k + 1] = v]
        <4>1. k \in 0 .. SizeMax
          BY <2>4
        <4> QED BY <2>10, <2>4, <4>1 DEF AssignAt, h
      <3>3. p \in 0 .. c - 1
        BY <2>6
      <3>4. /\ ring' = [capacity |-> c, queue |-> q, head |-> h, tail |-> t]
            /\ fifo' = [items |-> s, followed |-> TRUE]
        BY <2>2, <2>3, <3>2
      <3> HIDE DEF p
      <3>5. q \in [0 .. c - 1 -> Things]
        BY <2>2, <3>3
      <3>6. /\ s \in Seq(RingValues) /\ Len(s) = n /\ s[k + 1] = v
            /\ \A i \in 1 .. n : i # k + 1 => s[i] = items[i]
        <4>1. items \in Seq(RingValues) /\ Len(items) = n /\ k + 1 \in 1 .. n
          BY <2>0, <2>2, <3>1
        <4> QED BY <4>1
      <3>7. ASSUME NEW i \in 0 .. n - 1 PROVE q[(h + i) % c] = s[i + 1]
        <4>1. i \in 0 .. c - 1 /\ (h + i) % c \in 0 .. c - 1 /\ i + 1 \in 1 .. n
          <5>1. i \in 0 .. c - 1 /\ i + 1 \in 1 .. n
            BY <2>0
          <5> QED BY <2>6, <5>1
        <4>2. CASE i = k
          BY <2>2, <3>3, <3>6, <4>2 DEF p
        <4>3. CASE i # k
          <5>1. (h + i) % c # p /\ i + 1 # k + 1
            BY <2>4, <4>1, <4>3 DEF p
          <5>2. q[(h + i) % c] = queue[(h + i) % c]
            BY <2>2, <4>1, <5>1
          <5> QED BY <2>2, <3>6, <4>1, <5>1, <5>2
        <4> QED BY <4>2, <4>3
      <3> HIDE DEF q, s
      <3>8. /\ (t + SizeMax + 1 - h) % (SizeMax + 1) = Len(s) /\ Len(s) <= c
            /\ \A i \in 0 .. Len(s) - 1 : q[(h + i) % c] = s[i + 1]
        BY <2>2, <2>5, <3>6, <3>7
      <3> QED BY <2>2, <3>4, <3>5, <3>6, <3>8, RingBecomes
    <2>11. CASE ClearRing
      <3>1. /\ ring' = [capacity |-> c, queue |-> queue, head |-> 0, tail |-> 0]
            /\ fifo' = [items |-> << >>, followed |-> TRUE]
        BY <2>2, <2>3, <2>11 DEF ClearRing
      <3>2. (0 + SizeMax + 1 - 0) % (SizeMax + 1) = 0
        BY <2>4
      <3>3. /\ 0 \in 0 .. SizeMax /\ << >> \in Seq(RingValues) /\ Len(<< >>) = 0 /\ 0 <= c
            /\ \A i \in 0 .. Len(<< >>) - 1 : queue[(0 + i) % c] = << >>[i + 1]
        BY <2>4
      <3> QED BY <2>2, <3>1, <3>2, <3>3, RingBecomes
    <2> QED BY <1>2, <2>7, <2>8, <2>9, <2>10, <2>11 DEF RingNext, c
  <1> QED BY <1>1, <1>2

(* It holds of an empty ring.                                              *)
LEMMA RingBegin == RingInit => RingInv
  <1> SUFFICES ASSUME RingInit PROVE RingInv
    OBVIOUS
  <1>1. PICK c \in Capacities :
          /\ ring = [capacity |-> c, queue |-> [i \in 0 .. c - 1 |-> Unset], head |-> 0, tail |-> 0]
          /\ fifo = [items |-> << >>, followed |-> TRUE]
    BY DEF RingInit
  <1>2. SizeMax \in Nat /\ c \in 1 .. SizeMax
    BY RingAssumption
  <1>3. Size = 0 /\ Len(fifo.items) = 0
    BY <1>1, <1>2 DEF Size
  <1>4. [i \in 0 .. c - 1 |-> Unset] \in [0 .. c - 1 -> RingValues \cup {Unset}]
    OBVIOUS
  <1> QED BY <1>1, <1>2, <1>3, <1>4 DEF RingInv

(* It implies that the ring is a queue.                                    *)
LEMMA RingKeeps == RingInv => RingIsQueue
  <1> SUFFICES ASSUME RingInv, fifo.followed
               PROVE  /\ Size = Len(fifo.items) /\ Size <= ring.capacity
                      /\ \A i \in 1 .. Size : At(i - 1) = fifo.items[i]
    BY DEF RingIsQueue
  <1>1. /\ Size = Len(fifo.items) /\ Size <= ring.capacity
        /\ \A i \in 0 .. Size - 1 : ring.queue[(ring.head + i) % ring.capacity] = fifo.items[i + 1]
    BY DEF RingInv
  <1>2. /\ SizeMax \in Nat /\ Size \in 0 .. SizeMax
        /\ \A i \in 0 .. SizeMax : Idx(ring.head + i) = (ring.head + i) % ring.capacity
    BY RingFacts
  <1>3. ASSUME NEW i \in 1 .. Size PROVE At(i - 1) = fifo.items[i]
    <2>1. i - 1 \in 0 .. Size - 1 /\ i - 1 \in 0 .. SizeMax /\ (i - 1) + 1 = i
      BY <1>2
    <2> QED BY <1>1, <1>2, <2>1 DEF At
  <1> QED BY <1>1, <1>3

-------------------------------------------------------------------------------
(* CheckedPointers.                                                        *)

(* A safe_pointer of a part of the array is in it or at its end.           *)
SafeOnes == [ptr : 0 .. AddressCount - 1, base : 0 .. AddressCount - 1, size : Nat, destroyed : BOOLEAN]
InItsRange(p) ==
  /\ p \in SafeOnes
  /\ p.base = NullPtr => p.size = 0
  /\ p.base # NullPtr => /\ p.base \in ArrayObjects /\ p.ptr \in p.base .. (p.base + p.size)
                         /\ p.base + p.size <= ArrayAt + ArrayCount

(* The inductive invariant of the pointers: each is in the range it was    *)
(* made for, and what was read last is an object of the array; a not_null  *)
(* is not null.                                                            *)
PointersInv ==
  /\ ptrs = [safe |-> ptrs.safe, at |-> ptrs.at, read |-> ptrs.read] /\ ptrs.safe \in BOOLEAN
  /\ IF ptrs.safe
     THEN /\ ptrs.at \in [1..2 -> SafeOnes] /\ \A h \in 1..2 : InItsRange(pointer(h))
          /\ ptrs.read # <<>> => ptrs.read[2] \in ArrayObjects
     ELSE ptrs.at \in [1..2 -> 1 .. AddressCount - 1]

(* The numbers there are.                                                  *)
LEMMA AddressFacts ==
  /\ AddressCount \in Nat \ {0} /\ PointerJump \in Nat /\ ArrayAt \in Nat \ {0} /\ ArrayCount \in Nat \ {0}
  /\ ArrayAt + ArrayCount <= AddressCount - 1
  BY CheckedPointersAssumption

(* The room of a pointer in its range.                                     *)
LEMMA RoomIs ==
  ASSUME NEW p, InItsRange(p)
  PROVE  /\ (p.size - PointerIndex(p)) % AddressCount \in Nat
         /\ p.base # NullPtr =>
              (p.size - PointerIndex(p)) % AddressCount = p.size - PointerIndex(p)
  <1>1. /\ p.ptr \in 0 .. AddressCount - 1 /\ p.base \in 0 .. AddressCount - 1 /\ p.size \in Nat
        /\ p.base # NullPtr => /\ p.base \in ArrayObjects /\ p.ptr \in p.base .. (p.base + p.size)
                               /\ p.base + p.size <= ArrayAt + ArrayCount
    BY DEF InItsRange, SafeOnes
  <1> DEFINE x == p.size - PointerIndex(p)
  <1>2. x \in Int
    BY <1>1, AddressFacts DEF PointerIndex
  <1>3. p.base # NullPtr => x \in 0 .. AddressCount - 1
    BY <1>1, AddressFacts DEF PointerIndex, ArrayObjects
  <1> HIDE DEF x
  <1>4. x % AddressCount \in 0 .. AddressCount - 1 /\ (x \in 0 .. AddressCount - 1 => x % AddressCount = x)
    BY <1>2, AddressFacts, ModIs
  <1> QED BY <1>3, <1>4 DEF x

(* A move that the assertions let through ends in the range.               *)
LEMMA MovedInRange ==
  ASSUME NEW p, InItsRange(p), NEW n \in Int,
         p.base # NullPtr => n <= p.size - PointerIndex(p) /\ -n <= PointerIndex(p)
  PROVE  InItsRange(MovedBy(p, n))
  <1>1. /\ p \in SafeOnes
        /\ p.ptr \in 0 .. AddressCount - 1 /\ p.base \in 0 .. AddressCount - 1 /\ p.size \in Nat
        /\ p.base # NullPtr => /\ p.base \in ArrayObjects /\ p.ptr \in p.base .. (p.base + p.size)
                               /\ p.base + p.size <= ArrayAt + ArrayCount
    BY DEF InItsRange, SafeOnes
  <1> DEFINE x == p.ptr + n
  <1>2. x \in Int
    BY <1>1
  <1>3. p.base # NullPtr => x \in p.base .. (p.base + p.size) /\ x \in 0 .. AddressCount - 1
    BY <1>1, AddressFacts DEF PointerIndex
  <1>4. MovedBy(p, n) = [p EXCEPT !.ptr = x % AddressCount]
    BY <1>1 DEF MovedBy, SafeOnes
  <1> HIDE DEF x
  <1>5. x % AddressCount \in 0 .. AddressCount - 1 /\ (x \in 0 .. AddressCount - 1 => x % AddressCount = x)
    BY <1>2, AddressFacts, ModIs
  <1> DEFINE y == x % AddressCount
             q == MovedBy(p, n)
  <1>6. y \in 0 .. AddressCount - 1 /\ (p.base # NullPtr => y \in p.base .. (p.base + p.size))
    BY <1>3, <1>5
  <1>7. q = [p EXCEPT !.ptr = y]
    BY <1>4
  <1> HIDE DEF y, q
  <1>8. q \in SafeOnes /\ q.ptr = y /\ q.base = p.base /\ q.size = p.size
    BY <1>1, <1>6, <1>7 DEF SafeOnes
  <1>9. InItsRange(q)
    BY <1>1, <1>6, <1>8 DEF InItsRange
  <1> QED BY <1>9 DEF q

(* So do all moves of a safe_pointer.                                      *)
LEMMA StepsInRange ==
  ASSUME NEW p, InItsRange(p)
  PROVE  (\A q \in Steps(p) : InItsRange(q)) /\ (\A q \in Moves(p) : InItsRange(q))
  <1>1. p.ptr \in Int /\ p.base \in Int /\ p.size \in Nat /\ PointerIndex(p) \in Int
    BY DEF InItsRange, SafeOnes, PointerIndex
  <1>2. p.base # NullPtr => PointerIndex(p) \in 0 .. p.size
    BY <1>1 DEF InItsRange, PointerIndex
  <1>3. ASSUME NEW q \in Steps(p) PROVE InItsRange(q)
    <2>1. \/ q = MovedBy(p, 1) /\ PointerIndex(p) < p.size
          \/ q = MovedBy(p, -1) /\ PointerIndex(p) > 0
      BY DEF Steps
    <2>2. CASE q = MovedBy(p, 1) /\ PointerIndex(p) < p.size
      <3>1. p.base # NullPtr => 1 <= p.size - PointerIndex(p) /\ -1 <= PointerIndex(p)
        BY <1>1, <1>2, <2>2
      <3> QED BY <2>2, <3>1, MovedInRange
    <2>3. CASE q = MovedBy(p, -1) /\ PointerIndex(p) > 0
      <3>1. p.base # NullPtr => -1 <= p.size - PointerIndex(p) /\ -(-1) <= PointerIndex(p)
        BY <1>1, <1>2, <2>3
      <3> QED BY <2>3, <3>1, MovedInRange
    <2> QED BY <2>1, <2>2, <2>3
  <1>4. ASSUME NEW q \in Moves(p) PROVE InItsRange(q)
    <2>1. PICK n \in -PointerJump .. PointerJump : CanMove(p, n) /\ q = MovedBy(p, n)
      BY DEF Moves
    <2>2. n \in Int
      OBVIOUS
    <2>3. p.base # NullPtr => n <= p.size - PointerIndex(p) /\ -n <= PointerIndex(p)
      <3> SUFFICES ASSUME p.base # NullPtr PROVE n <= p.size - PointerIndex(p) /\ -n <= PointerIndex(p)
        OBVIOUS
      <3>1. (p.size - PointerIndex(p)) % AddressCount = p.size - PointerIndex(p)
        BY RoomIs
      <3>2. IF n >= 0 THEN n <= p.size - PointerIndex(p) ELSE -n <= PointerIndex(p)
        BY <2>1, <3>1 DEF CanMove
      <3> QED BY <1>1, <1>2, <2>2, <3>2
    <2> QED BY <2>1, <2>2, <2>3, MovedInRange
  <1> QED BY <1>3, <1>4

(* A pointer in its range may replace another.                             *)
LEMMA PointToInv ==
  ASSUME PointersInv, NEW h \in 1..2, NEW q, PointTo(h, q),
         IF ptrs.safe THEN InItsRange(q) ELSE q \in 1 .. AddressCount - 1
  PROVE  PointersInv'
  <1>1. ptrs = [safe |-> ptrs.safe, at |-> ptrs.at, read |-> ptrs.read] /\ ptrs.safe \in BOOLEAN
    BY DEF PointersInv
  <1>2. ptrs' = [safe |-> ptrs.safe, at |-> [ptrs.at EXCEPT ![h] = q], read |-> <<>>]
    BY <1>1 DEF PointTo
  <1>3. CASE ptrs.safe
    <2>1. q \in SafeOnes /\ ptrs.at \in [1..2 -> SafeOnes] /\ \A i \in 1..2 : InItsRange(ptrs.at[i])
      BY <1>3 DEF InItsRange, PointersInv, pointer
    <2>2. ptrs'.at \in [1..2 -> SafeOnes] /\ \A i \in 1..2 : ptrs'.at[i] = IF i = h THEN q ELSE ptrs.at[i]
      BY <1>2, <2>1
    <2> QED BY <1>1, <1>2, <1>3, <2>1, <2>2 DEF PointersInv, pointer
  <1>4. CASE ~ptrs.safe
    BY <1>1, <1>2, <1>4 DEF PointersInv
  <1> QED BY <1>3, <1>4

(* Every operation on the pointers keeps the invariant.                    *)
LEMMA CheckedStep ==
  ASSUME PointersInv, [CheckedNext]_ptrs
  PROVE  PointersInv'
  <1>1. CASE UNCHANGED ptrs
    BY <1>1 DEF PointersInv, pointer
  <1>2. CASE OnSafePointers
    <2>1. ptrs.safe /\ \A h \in 1..2 : InItsRange(pointer(h)) /\ 3 - h \in 1..2
      BY <1>2 DEF OnSafePointers, PointersInv
    <2>2. PICK h \in 1..2 :
            \/ \E p \in Steps(pointer(h)) : PointTo(h, p)
            \/ \E p \in Moves(pointer(h)) : PointTo(h, p) \/ PointTo(3 - h, p) \/ Dereference(p)
            \/ PointTo(3 - h, Convert(pointer(h)))
            \/ GetBase(pointer(h)) # NullPtr /\ PointTo(h, Destroyed(pointer(h)))
      BY <1>2 DEF OnSafePointers
    <2> DEFINE p == pointer(h)
    <2>3. InItsRange(p) /\ 3 - h \in 1..2
      BY <2>1
    <2> HIDE DEF p
    <2>4. ASSUME NEW q \in Steps(p) \cup Moves(p), PointTo(h, q) \/ PointTo(3 - h, q)
          PROVE  PointersInv'
      BY <2>1, <2>3, <2>4, StepsInRange, PointToInv
    <2>5. ASSUME NEW q \in Moves(p), Dereference(q)
          PROVE  PointersInv'
      <3>1. q.base \in ArrayObjects
        BY <2>3, <2>5, StepsInRange DEF Dereference, InItsRange
      <3>2. ptrs' = [ptrs EXCEPT !.read = <<q, q.base>>] /\ <<q, q.base>>[2] = q.base
        BY <2>5 DEF Dereference
      <3> QED BY <3>1, <3>2, <2>1 DEF PointersInv, pointer
    <2>6. CASE PointTo(3 - h, Convert(p))
      <3>1. InItsRange(Convert(p))
        BY <2>3 DEF InItsRange, Convert, Safe, SafeOnes
      <3> QED BY <2>1, <2>3, <2>6, <3>1, PointToInv
    <2>7. CASE PointTo(h, Destroyed(p))
      <3>1. InItsRange(Destroyed(p))
        BY <2>3 DEF InItsRange, Destroyed, SafeOnes
      <3> QED BY <2>1, <2>7, <3>1, PointToInv
    <2> QED BY <2>2, <2>4, <2>5, <2>6, <2>7 DEF p
  <1>3. CASE OnNotNull
    <2>1. ~ptrs.safe /\ \A h \in 1..2 : pointer(h) \in 1 .. AddressCount - 1 /\ 3 - h \in 1..2
      BY <1>3 DEF OnNotNull, PointersInv, pointer
    <2>2. PICK h \in 1..2 :
            \/ pointer(h) + 1 < AddressCount /\ PointTo(h, pointer(h) + 1)
            \/ \E n \in -PointerJump..PointerJump :
                 /\ pointer(h) + n \in 1 .. AddressCount - 1
                 /\ PointTo(h, pointer(h) + n) \/ PointTo(3 - h, pointer(h) + n)
            \/ \E p \in ArrayObjects : PointTo(h, p)
      BY <1>3 DEF OnNotNull
    <2>3. /\ pointer(h) + 1 < AddressCount => pointer(h) + 1 \in 1 .. AddressCount - 1
          /\ ArrayObjects \subseteq 1 .. AddressCount - 1
      BY <2>1, AddressFacts DEF ArrayObjects
    <2> QED BY <2>1, <2>2, <2>3, PointToInv
  <1> QED BY <1>1, <1>2, <1>3 DEF CheckedNext

(* It holds of the pointers as they are made.                              *)
LEMMA CheckedBegin == CheckedInit => PointersInv
  <1> SUFFICES ASSUME CheckedInit PROVE PointersInv
    OBVIOUS
  <1>1. ASSUME NEW p \in SafePointers PROVE InItsRange(p)
    <2>1. CASE p = Safe(NullPtr, NullPtr, 0)
      BY <2>1, AddressFacts DEF Safe, InItsRange, SafeOnes, NullPtr
    <2>2. CASE \E a \in ArrayObjects : p = Safe(a, NullPtr, 0)
      BY <2>2, AddressFacts DEF Safe, InItsRange, SafeOnes, NullPtr, ArrayObjects
    <2>3. CASE \E a \in ArrayObjects : \E n \in 0 .. (ArrayAt + ArrayCount - a) : p = Safe(a, a, n)
      BY <2>3, AddressFacts DEF Safe, InItsRange, SafeOnes, NullPtr, ArrayObjects
    <2> QED BY <2>1, <2>2, <2>3 DEF SafePointers
  <1>2. ASSUME NEW p \in SafePointers, NEW q \in SafePointers, ptrs = [safe |-> TRUE, at |-> <<p, q>>, read |-> <<>>]
        PROVE  PointersInv
    <2>1. InItsRange(p) /\ InItsRange(q) /\ p \in SafeOnes /\ q \in SafeOnes
      BY <1>1 DEF InItsRange
    <2>2. ptrs.at \in [1..2 -> SafeOnes] /\ ptrs.at[1] = p /\ ptrs.at[2] = q
      BY <1>2, <2>1
    <2> QED BY <1>2, <2>1, <2>2 DEF PointersInv, pointer
  <1>3. ASSUME NEW p \in ArrayObjects, NEW q \in ArrayObjects, ptrs = [safe |-> FALSE, at |-> <<p, q>>, read |-> <<>>]
        PROVE  PointersInv
    <2>1. p \in 1 .. AddressCount - 1 /\ q \in 1 .. AddressCount - 1
      BY AddressFacts DEF ArrayObjects
    <2>2. ptrs.at \in [1..2 -> 1 .. AddressCount - 1]
      BY <1>3, <2>1
    <2> QED BY <1>3, <2>2 DEF PointersInv
  <1> QED BY <1>2, <1>3 DEF CheckedInit

(* It implies that they stay where they may.                               *)
LEMMA CheckedKeeps == PointersInv => PointersStay
  <1> SUFFICES ASSUME PointersInv PROVE PointersStay
    OBVIOUS
  <1>1. CASE ptrs.safe
    <2>1. ptrs.read # <<>> => ptrs.read[2] \in ArrayObjects
      BY <1>1 DEF PointersInv
    <2>2. ASSUME NEW h \in 1..2
          PROVE  LET p == pointer(h)
                     q == pointer(3 - h) IN
            /\ p.base # NullPtr => p.ptr \in p.base .. (p.base + p.size)
            /\ p.base = q.base /\ p.size = q.size => \A n \in DifferenceOfSafe(p, q) :
                 CanMove(q, n) /\ (n < 0 <=> "<" \in ComparingSafe(p, q)) /\ (n = 0 <=> "==" \in ComparingSafe(p, q))
      <3> DEFINE p == pointer(h)
                 q == pointer(3 - h)
      <3>1. InItsRange(p) /\ InItsRange(q)
        BY <1>1 DEF PointersInv
      <3> HIDE DEF p, q
      <3>2. /\ p.ptr \in 0 .. AddressCount - 1 /\ p.base \in 0 .. AddressCount - 1 /\ p.size \in Nat
            /\ q.ptr \in 0 .. AddressCount - 1 /\ q.base \in 0 .. AddressCount - 1 /\ q.size \in Nat
            /\ p.base # NullPtr => p.ptr \in p.base .. (p.base + p.size)
            /\ q.base # NullPtr => q.ptr \in q.base .. (q.base + q.size)
            /\ p.base = NullPtr => p.size = 0
            /\ q.base = NullPtr => q.size = 0
        BY <3>1 DEF InItsRange, SafeOnes
      <3>3. ASSUME p.base = q.base, p.size = q.size, NEW n \in DifferenceOfSafe(p, q)
            PROVE  CanMove(q, n) /\ (n < 0 <=> "<" \in ComparingSafe(p, q)) /\ (n = 0 <=> "==" \in ComparingSafe(p, q))
        <4>1. n = p.ptr - q.ptr /\ PointerInRange(p, q.ptr)
          BY DEF DifferenceOfSafe
        <4> DEFINE room == (q.size - PointerIndex(q)) % AddressCount
        <4>2. room \in Nat /\ (q.base # NullPtr => room = q.size - PointerIndex(q)) /\ PointerIndex(q) = q.ptr - q.base
          BY <3>1, RoomIs DEF PointerIndex
        <4>3. CanMove(q, n) <=> IF n >= 0 THEN n <= room ELSE -n <= PointerIndex(q)
          BY DEF CanMove
        <4> HIDE DEF room
        <4>4. q.base # NullPtr => IF n >= 0 THEN n <= room ELSE -n <= PointerIndex(q)
          BY <3>2, <3>3, <4>1, <4>2
        <4>5. q.base = NullPtr => n = 0
          BY <3>2, <3>3, <4>1 DEF PointerInRange, GetBase, NullPtr
        <4>6. (n < 0 <=> p.ptr < q.ptr) /\ (n = 0 <=> p.ptr = q.ptr)
          BY <3>2, <4>1
        <4>7. ("<" \in ComparingSafe(p, q) <=> p.ptr < q.ptr) /\ ("==" \in ComparingSafe(p, q) <=> p.ptr = q.ptr)
          <5>1. CASE p.ptr < q.ptr
            <6>1. ComparingSafe(p, q) = {"<", "<=", "!="}
              BY <3>2, <5>1 DEF ComparingSafe, ComparingAddresses
            <6> QED BY <3>2, <5>1, <6>1
          <5>2. CASE p.ptr > q.ptr
            <6>1. ComparingSafe(p, q) = {">", ">=", "!="}
              BY <3>2, <5>2 DEF ComparingSafe, ComparingAddresses
            <6> QED BY <3>2, <5>2, <6>1
          <5>3. CASE p.ptr = q.ptr
            <6>1. ComparingSafe(p, q) = {"==", "<=", ">="}
              BY <3>2, <5>3 DEF ComparingSafe, ComparingAddresses
            <6> QED BY <3>2, <5>3, <6>1
          <5> QED BY <3>2, <5>1, <5>2, <5>3
        <4> QED BY <4>2, <4>3, <4>4, <4>5, <4>6, <4>7
      <3> QED BY <3>2, <3>3 DEF p, q
    <2> QED BY <1>1, <2>1, <2>2 DEF PointersStay
  <1>2. CASE ~ptrs.safe
    <2>1. ASSUME NEW h \in 1..2
          PROVE  LET n == DifferenceOfNotNull(pointer(h), pointer(3 - h))
                     comparing == ComparingNotNull(pointer(h), pointer(3 - h)) IN
                 pointer(h) # NullPtr /\ (n < 0 <=> "<" \in comparing) /\ (n = 0 <=> "==" \in comparing)
      <3> DEFINE x == pointer(h)
                 y == pointer(3 - h)
      <3>1. x \in 1 .. AddressCount - 1 /\ y \in 1 .. AddressCount - 1
        BY <1>2 DEF PointersInv, pointer
      <3> HIDE DEF x, y
      <3>2. ("<" \in ComparingAddresses(x, y) <=> x < y) /\ ("==" \in ComparingAddresses(x, y) <=> x = y)
        <4>1. CASE x < y
          BY <3>1, <4>1 DEF ComparingAddresses
        <4>2. CASE x > y
          BY <3>1, <4>2 DEF ComparingAddresses
        <4>3. CASE x = y
          BY <3>1, <4>3 DEF ComparingAddresses
        <4> QED BY <3>1, <4>1, <4>2, <4>3
      <3>3. x # NullPtr /\ (x - y < 0 <=> x < y) /\ (x - y = 0 <=> x = y)
        BY <3>1 DEF NullPtr
      <3> QED BY <3>2, <3>3 DEF x, y, DifferenceOfNotNull, ComparingNotNull
    <2> QED BY <1>2, <2>1 DEF PointersStay
  <1> QED BY <1>1, <1>2

-------------------------------------------------------------------------------
(* The memory mapped file.                                                 *)

States == [alive : SUBSET Mapped, fdata : [Mapped -> Fdata \cup {Nothing}],
           opened : SUBSET Resources, strays : {0, 1}]

(* Object m holds r. A mapping that failed is nothing held.                *)
Has(s, m, r) ==
  /\ s.fdata[m] # Nothing
  /\ r \notin {Nothing, MapFailed}
  /\ r = s.fdata[m].handle \/ r = s.fdata[m].ptr

(* m can be cleaned up: its file and its view differ, and are open.        *)
Tidy(s, m) ==
  /\ s.fdata[m] # Nothing => s.fdata[m].handle = Nothing \/ s.fdata[m].handle # s.fdata[m].ptr
  /\ \A r \in Resources : Has(s, m, r) => r \in s.opened

(* What is open is held, what is held is open, by one object alone, and    *)
(* only by an object that is alive.                                        *)
FilesSound(s) ==
  /\ s \in States /\ s.strays = 0
  /\ \A m \in Mapped : Tidy(s, m)
  /\ \A r \in s.opened : \E m \in s.alive : Has(s, m, r)
  /\ \A m, g \in Mapped, r \in Resources : Has(s, m, r) /\ Has(s, g, r) => m = g
  /\ \A m \in Mapped \ s.alive : s.fdata[m] = Nothing

(* MAP_FAILED is in an object during open only.                            *)
NotFailed(s, m) == s.fdata[m] # Nothing => s.fdata[m].ptr # MapFailed

(* The inductive invariant: between operations, on POSIX systems.          *)
MappedInv ==
  /\ platform \in {"posix", "windows"}
  /\ platform = "posix" => FilesSound(mf) /\ \A m \in Mapped : NotFailed(mf, m)

(* s2 is s but for m, which is alive or holds nothing, and whose things    *)
(* are either those it had or new ones.                                    *)
FileRefilled(s, s2, m) ==
  /\ s2 \in States /\ s2.strays = s.strays
  /\ s2.alive \ {m} = s.alive \ {m}
  /\ m \in s2.alive \/ s2.fdata[m] = Nothing
  /\ \A g \in Mapped \ {m} : s2.fdata[g] = s.fdata[g]
  /\ Tidy(s2, m)
  /\ s2.opened = {r \in s.opened : ~Has(s, m, r)} \cup {r \in Resources : Has(s2, m, r)}
  /\ \A r \in Resources : Has(s2, m, r) => Has(s, m, r) \/ r \notin s.opened

(* It holds nothing any more.                                              *)
Dropped(s, s2, m) ==
  /\ s2 \in States /\ s2.strays = s.strays /\ s2.alive = s.alive
  /\ s2.fdata[m] = IF s.fdata[m] = Nothing THEN Nothing ELSE Blank
  /\ \A g \in Mapped \ {m} : s2.fdata[g] = s.fdata[g]
  /\ s2.opened = {r \in s.opened : ~Has(s, m, r)}

-------------------------------------------------------------------------------
(* Closing what is open takes that away and nothing else; closing nothing, *)
(* or a mapping that failed, is no step.                                   *)
LEMMA ClosesOpen ==
  ASSUME NEW s \in States, NEW r, r \in s.opened \cup {Nothing, MapFailed}
  PROVE  Closes(s, r) = [s EXCEPT !.opened = @ \ {r}]
<1>1. CASE r \in {Nothing, MapFailed}
  <2>1. s.opened \ {r} = s.opened  BY <1>1, MappedFileAssumption DEF States
  <2>2. [s EXCEPT !.opened = @ \ {r}] = s  BY <2>1 DEF States
  <2> QED BY <1>1, <2>2 DEF Closes
<1>2. CASE r \notin {Nothing, MapFailed}
  BY <1>2 DEF Closes
<1> QED BY <1>1, <1>2

(* cleanup_t takes from the system exactly what the object held.           *)
LEMMA CleanUpDrops ==
  ASSUME platform = "posix", NEW s \in States, NEW m \in Mapped, Tidy(s, m),
         s.fdata[m] # Nothing
  PROVE  Dropped(s, CleanUp(s, m), m)
<1> DEFINE d == s.fdata[m]
           s1 == [s EXCEPT !.opened = @ \ {d.ptr}]
           s2 == [s1 EXCEPT !.opened = @ \ {d.handle}]
<1>1. d \in Fdata  BY DEF States
<1>2. Closes(s, d.ptr) = s1
  <2>1. d.ptr \in s.opened \cup {Nothing, MapFailed}
    BY <1>1 DEF Tidy, Has, Fdata
  <2> QED BY <2>1, ClosesOpen
<1>3. s1 \in States /\ s1.opened = s.opened \ {d.ptr}  BY DEF States
<1>4. Closes(s1, d.handle) = s2
  <2>1. d.handle \in s1.opened \cup {Nothing, MapFailed}
    BY <1>1, <1>3, MappedFileAssumption DEF Tidy, Has, Fdata
  <2> HIDE DEF s1
  <2> QED BY <1>3, <2>1, ClosesOpen
<1>5. CleanUp(s, m) = [s2 EXCEPT !.fdata[m] = Blank]
  BY <1>2, <1>4 DEF CleanUp
<1>6. Blank \in Fdata  BY DEF Blank, Fdata
<1>7. /\ s2 \in States /\ s2.alive = s.alive /\ s2.strays = s.strays
      /\ s2.fdata = s.fdata /\ s2.opened = (s.opened \ {d.ptr}) \ {d.handle}
  BY DEF States
<1>8. s2.opened = {r \in s.opened : ~Has(s, m, r)}
  BY <1>7, MappedFileAssumption DEF Has, States
<1>9. Blank # Nothing  BY <1>6, MappedFileAssumption
<1> HIDE DEF s2
<1> QED BY <1>5, <1>6, <1>7, <1>8, <1>9 DEF Dropped, States

(* reset of a unique_resource, with a value or without.                    *)
LEMMA ResetDrops ==
  ASSUME platform = "posix", NEW s \in States, NEW m \in Mapped, Tidy(s, m)
  PROVE  Dropped(s, ResetFile(s, m), m)
<1>1. CASE s.fdata[m] = Nothing
  <2>1. s.opened = {r \in s.opened : ~Has(s, m, r)}  BY <1>1 DEF Has
  <2> QED BY <1>1, <2>1 DEF ResetFile, Dropped
<1>2. CASE s.fdata[m] # Nothing
  BY <1>2, CleanUpDrops DEF ResetFile
<1> QED BY <1>1, <1>2

(* Whoever drops what he holds, or holds something new, leaves it sound.   *)
LEMMA RefilledSound ==
  ASSUME NEW s, FilesSound(s), NEW m \in Mapped, NEW s2, FileRefilled(s, s2, m)
  PROVE  FilesSound(s2)
<1>1. s \in States /\ s2 \in States /\ s2.strays = 0  BY DEF FilesSound, FileRefilled
<1>2. \A g \in Mapped \ {m} : \A r : Has(s2, g, r) <=> Has(s, g, r)
  BY DEF FileRefilled, Has
<1>3. \A g \in Mapped : Tidy(s2, g)
  <2> SUFFICES ASSUME NEW g \in Mapped \ {m} PROVE Tidy(s2, g)
    BY DEF FileRefilled
  <2>1. Tidy(s, g) /\ s2.fdata[g] = s.fdata[g]  BY DEF FilesSound, FileRefilled
  <2>2. \A r \in Resources : Has(s2, g, r) => r \in s2.opened
    BY <1>2 DEF FilesSound, FileRefilled, Tidy
  <2> QED BY <2>1, <2>2 DEF Tidy
<1>4. ASSUME NEW r \in s2.opened PROVE \E g \in s2.alive : Has(s2, g, r)
  <2>1. CASE Has(s2, m, r)
    BY <2>1 DEF FileRefilled, Has
  <2>2. CASE ~Has(s2, m, r)
    <3>1. r \in s.opened /\ ~Has(s, m, r)  BY <2>2 DEF FileRefilled
    <3>2. PICK g \in s.alive : Has(s, g, r)  BY <3>1 DEF FilesSound
    <3>3. g # m /\ g \in Mapped /\ g \in s2.alive
      BY <1>1, <3>1, <3>2 DEF FileRefilled, States
    <3> QED BY <3>2, <3>3, <1>2
  <2> QED BY <2>1, <2>2
<1>5. ASSUME NEW g \in Mapped, NEW h \in Mapped, NEW r \in Resources, Has(s2, g, r), Has(s2, h, r)
      PROVE  g = h
  <2>1. ASSUME NEW k \in Mapped \ {m}, Has(s2, k, r) PROVE ~Has(s2, m, r)
    <3>1. Has(s, k, r) /\ r \in s.opened  BY <1>2, <2>1 DEF FilesSound, Tidy
    <3>2. ~Has(s, m, r)  BY <3>1 DEF FilesSound
    <3> QED BY <3>1, <3>2 DEF FileRefilled
  <2> QED BY <1>2, <1>5, <2>1 DEF FilesSound
<1>6. \A g \in Mapped \ s2.alive : s2.fdata[g] = Nothing
  BY DEF FilesSound, FileRefilled
<1> QED BY <1>1, <1>3, <1>4, <1>5, <1>6 DEF FilesSound

LEMMA DroppedSound ==
  ASSUME NEW s, FilesSound(s), NEW m \in Mapped, NEW s2, Dropped(s, s2, m)
  PROVE  FilesSound(s2) /\ NotFailed(s2, m)
<1>1. \A r : ~Has(s2, m, r)  BY DEF Dropped, Has, Blank
<1>2. Tidy(s2, m)  BY <1>1 DEF Tidy, Dropped, Blank
<1>3. FileRefilled(s, s2, m)  BY <1>1, <1>2 DEF FileRefilled, Dropped, FilesSound
<1>4. FilesSound(s2)  BY <1>3, RefilledSound
<1> QED BY <1>4, MappedFileAssumption DEF NotFailed, Dropped, Blank

(* emplace leaves an object that is alive with a value, and a blank one.   *)
LEMMA EmplaceSound ==
  ASSUME platform = "posix", NEW s, FilesSound(s), NEW m \in Mapped, m \in s.alive
  PROVE  LET e == EmplaceFile(s, m)
         IN /\ FilesSound(e) /\ e.fdata[m] = Blank /\ e.alive = s.alive
            /\ \A g \in Mapped \ {m} : e.fdata[g] = s.fdata[g]
<1> DEFINE d == ResetFile(s, m)
           e == EmplaceFile(s, m)
<1>1. Dropped(s, d, m)  BY ResetDrops DEF FilesSound
<1>2. FilesSound(d)  BY <1>1, DroppedSound
<1>3. Blank \in Fdata  BY DEF Blank, Fdata
<1>4. e = [d EXCEPT !.fdata[m] = Blank]  BY DEF EmplaceFile
<1> HIDE DEF d, e
<1>5. /\ e \in States /\ e.alive = d.alive /\ e.strays = d.strays /\ e.opened = d.opened
      /\ e.fdata = [d.fdata EXCEPT ![m] = Blank]
  BY <1>2, <1>3, <1>4 DEF FilesSound, States
<1>6. e.fdata[m] = Blank /\ \A g \in Mapped \ {m} : e.fdata[g] = d.fdata[g]
  BY <1>2, <1>5 DEF FilesSound, States
<1>7. \A r : ~Has(d, m, r) /\ ~Has(e, m, r)
  BY <1>1, <1>6 DEF Dropped, Has, Blank
<1>8. FileRefilled(d, e, m)
  BY <1>1, <1>2, <1>5, <1>6, <1>7 DEF FileRefilled, FilesSound, Dropped, Tidy, Blank
<1>9. FilesSound(e)  BY <1>2, <1>8, RefilledSound
<1> QED BY <1>1, <1>5, <1>6, <1>9 DEF Dropped, e

(* An object that holds at most the file it has takes what was just        *)
(* opened, as its file or as its view.                                     *)
LEMMA HoldingSound ==
  ASSUME NEW s, FilesSound(s), NEW m \in Mapped, m \in s.alive, s.fdata[m] # Nothing,
         NEW r \in Resources, r \notin s.opened,
         NEW h, NEW p,
         \/ h = r /\ p \in {Nothing, MapFailed} /\ s.fdata[m] = Blank
         \/ h = s.fdata[m].handle /\ p = r /\ s.fdata[m].ptr = Nothing
  PROVE  LET t == Holding(Opens(s, r), m, h, p)
         IN /\ FilesSound(t) /\ t.fdata[m] = [handle |-> h, ptr |-> p] /\ t.alive = s.alive
            /\ t.opened = s.opened \cup {r}
            /\ \A g \in Mapped \ {m} : t.fdata[g] = s.fdata[g]
<1> DEFINE d == [handle |-> h, ptr |-> p]
           t == Holding(Opens(s, r), m, h, p)
<1>0. s \in States /\ s.fdata[m] \in Fdata  BY DEF FilesSound, States
<1>1. d \in Fdata /\ d # Nothing  BY <1>0, MappedFileAssumption DEF Fdata
<1>2. t = [[s EXCEPT !.opened = @ \cup {r}] EXCEPT !.fdata[m] = d]
  BY DEF Holding, Opens
<1> HIDE DEF t
<1>3. /\ t \in States /\ t.alive = s.alive /\ t.strays = s.strays /\ t.opened = s.opened \cup {r}
      /\ t.fdata[m] = d /\ \A g \in Mapped \ {m} : t.fdata[g] = s.fdata[g]
  BY <1>0, <1>1, <1>2 DEF States
<1>4. \A q \in Resources : Has(t, m, q) <=> q = r \/ Has(s, m, q)
  BY <1>1, <1>3, MappedFileAssumption DEF Has, Blank
<1>5. Tidy(t, m)
  <2>1. \A q \in Resources : Has(t, m, q) => q \in t.opened
    BY <1>3, <1>4 DEF FilesSound, Tidy
  <2>2. h = Nothing \/ h # p
    BY <1>0, MappedFileAssumption DEF FilesSound, Tidy, Has, Fdata
  <2> QED BY <1>3, <2>1, <2>2 DEF Tidy
<1>6. t.opened = {q \in s.opened : ~Has(s, m, q)} \cup {q \in Resources : Has(t, m, q)}
  BY <1>0, <1>3, <1>4 DEF FilesSound, Tidy, States
<1>7. FileRefilled(s, t, m)
  BY <1>3, <1>4, <1>5, <1>6 DEF FileRefilled
<1>8. FilesSound(t)  BY <1>7, RefilledSound
<1> QED BY <1>3, <1>8 DEF t

-------------------------------------------------------------------------------
(* One lemma for each operation: from MappedInv on a POSIX system.         *)

Kept(s) == FilesSound(s) /\ \A m \in Mapped : NotFailed(s, m)

LEMMA OpenKeeps ==
  ASSUME platform = "posix", Kept(mf), NEW m \in Mapped, OpenPosix(m)
  PROVE  Kept(mf')
<1> DEFINE s == EmplaceFile(mf, m)
<1>1. /\ m \in mf.alive /\ FilesSound(s) /\ s.fdata[m] = Blank /\ s.alive = mf.alive
      /\ \A g \in Mapped \ {m} : s.fdata[g] = mf.fdata[g]
  BY EmplaceSound DEF OpenPosix, Kept
<1>2. \A g \in Mapped : NotFailed(s, g)
  BY <1>1, MappedFileAssumption DEF Kept, NotFailed, Blank
<1>3. Blank # Nothing  BY MappedFileAssumption DEF Blank, Fdata
<1>4. CASE mf' = s
  BY <1>1, <1>2, <1>4 DEF Kept
<1>5. ASSUME NEW fd \in Free(s, "file") PROVE fd \in Resources /\ fd \notin s.opened
  BY <1>5 DEF Free, Resources
<1>6. ASSUME NEW t, FilesSound(t), \A g \in Mapped \ {m} : t.fdata[g] = s.fdata[g], mf' = ResetFile(t, m)
      PROVE  Kept(mf')
  <2>1. Dropped(t, mf', m)  BY <1>6, ResetDrops DEF FilesSound
  <2>2. FilesSound(mf') /\ NotFailed(mf', m)  BY <1>6, <2>1, DroppedSound
  <2>3. \A g \in Mapped \ {m} : NotFailed(mf', g)
    BY <1>2, <1>6, <2>1 DEF Dropped, NotFailed
  <2> QED BY <2>2, <2>3 DEF Kept
<1>7. ASSUME NEW fd \in Free(s, "file"), NEW p \in {Nothing, MapFailed}
      PROVE  LET t == Holding(Opens(s, fd), m, fd, p)
             IN /\ FilesSound(t) /\ t.fdata[m] = [handle |-> fd, ptr |-> p] /\ t.alive = s.alive
                /\ t.opened = s.opened \cup {fd}
                /\ \A g \in Mapped \ {m} : t.fdata[g] = s.fdata[g]
  <2> HIDE DEF s
  <2> QED BY <1>1, <1>3, <1>5, <1>7, HoldingSound
<1>8. ASSUME NEW fd \in Free(s, "file"), NEW view \in Free(s, "view"),
             mf' = Holding(Opens(Holding(Opens(s, fd), m, fd, Nothing), view), m, fd, view)
      PROVE  Kept(mf')
  <2> DEFINE t == Holding(Opens(s, fd), m, fd, Nothing)
  <2>1. /\ FilesSound(t) /\ t.fdata[m] = [handle |-> fd, ptr |-> Nothing] /\ t.alive = s.alive
        /\ t.opened = s.opened \cup {fd} /\ \A g \in Mapped \ {m} : t.fdata[g] = s.fdata[g]
    BY <1>7, <1>8
  <2>2. view \in Resources /\ view \notin t.opened
    BY <1>8, <2>1 DEF Free, Resources
  <2>3. t.fdata[m] # Nothing
    BY <1>5, <1>8, <2>1, MappedFileAssumption DEF Fdata
  <2> HIDE DEF t, s
  <2>4. mf' = Holding(Opens(t, view), m, fd, view)  BY <1>8 DEF t
  <2>5. /\ FilesSound(mf') /\ mf'.fdata[m] = [handle |-> fd, ptr |-> view]
        /\ \A g \in Mapped \ {m} : mf'.fdata[g] = t.fdata[g]
    BY <1>1, <2>1, <2>2, <2>3, <2>4, HoldingSound
  <2>6. \A g \in Mapped : NotFailed(mf', g)
    BY <1>2, <2>1, <2>2, <2>5, MappedFileAssumption DEF NotFailed
  <2> QED BY <2>5, <2>6 DEF Kept
<1>9. ASSUME NEW fd \in Free(s, "file")
      PROVE  Holding(Holding(Opens(s, fd), m, fd, Nothing), m, fd, MapFailed)
               = Holding(Opens(s, fd), m, fd, MapFailed)
  <2>1. s \in States  BY <1>1 DEF FilesSound
  <2> HIDE DEF s
  <2>2. Opens(s, fd).fdata \in [Mapped -> Fdata \cup {Nothing}]
    BY <2>1 DEF Opens, States
  <2> QED BY <2>2 DEF Holding
<1>10. \/ mf' = s
       \/ \E fd \in Free(s, "file") :
            \/ mf' = ResetFile(Holding(Opens(s, fd), m, fd, Nothing), m)
            \/ mf' = ResetFile(Holding(Opens(s, fd), m, fd, MapFailed), m)
            \/ \E view \in Free(s, "view") :
                 mf' = Holding(Opens(Holding(Opens(s, fd), m, fd, Nothing), view), m, fd, view)
  BY <1>9 DEF OpenPosix
<1> HIDE DEF s
<1>11. ASSUME NEW fd \in Free(s, "file"), NEW p \in {Nothing, MapFailed},
              mf' = ResetFile(Holding(Opens(s, fd), m, fd, p), m)
       PROVE  Kept(mf')
  <2> DEFINE t == Holding(Opens(s, fd), m, fd, p)
  <2>1. FilesSound(t) /\ \A g \in Mapped \ {m} : t.fdata[g] = s.fdata[g]
    BY <1>7
  <2> QED BY <1>6, <1>11, <2>1
<1> QED BY <1>4, <1>8, <1>10, <1>11

LEMMA DestroyKeeps ==
  ASSUME platform = "posix", Kept(mf), NEW m \in Mapped, DestroyMapped(m)
  PROVE  Kept(mf')
<1> DEFINE s == ResetFile(mf, m)
<1>1. Dropped(mf, s, m) /\ FilesSound(s) /\ NotFailed(s, m)
  BY ResetDrops, DroppedSound DEF Kept, FilesSound
<1>2. mf' = [s EXCEPT !.fdata[m] = Nothing, !.alive = @ \ {m}]
  BY DEF DestroyMapped
<1> HIDE DEF s
<1>3. /\ mf' \in States /\ mf'.alive = s.alive \ {m} /\ mf'.strays = s.strays
      /\ mf'.opened = s.opened /\ mf'.fdata[m] = Nothing
      /\ \A g \in Mapped \ {m} : mf'.fdata[g] = s.fdata[g]
  BY <1>1, <1>2 DEF FilesSound, States
<1>4. \A r : ~Has(s, m, r) /\ ~Has(mf', m, r)
  BY <1>1, <1>3 DEF Dropped, Has, Blank
<1>5. FileRefilled(s, mf', m)
  BY <1>1, <1>3, <1>4 DEF FileRefilled, Tidy, FilesSound
<1>6. FilesSound(mf')  BY <1>1, <1>5, RefilledSound
<1>7. \A g \in Mapped : NotFailed(mf', g)
  BY <1>1, <1>3 DEF Kept, NotFailed, Dropped
<1> QED BY <1>6, <1>7 DEF Kept

LEMMA CreateKeeps ==
  ASSUME Kept(mf), NEW m \in Mapped, CreateMapped(m)
  PROVE  Kept(mf')
<1>1. /\ mf' \in States /\ mf'.alive = mf.alive \cup {m} /\ mf'.strays = mf.strays
      /\ mf'.opened = mf.opened /\ mf'.fdata = mf.fdata /\ mf.fdata[m] = Nothing
  BY DEF Kept, CreateMapped, FilesSound, States
<1>2. \A r : ~Has(mf, m, r) /\ ~Has(mf', m, r)  BY <1>1 DEF Has
<1>3. FileRefilled(mf, mf', m)
  BY <1>1, <1>2 DEF FileRefilled, Tidy, Kept, FilesSound
<1>4. FilesSound(mf')  BY <1>3, RefilledSound DEF Kept
<1> QED BY <1>1, <1>4 DEF Kept, NotFailed

(* What g held is m's, and what m held is closed.                          *)
Handed(s, t, m, g) ==
  /\ t \in States /\ t.strays = s.strays /\ t.alive = s.alive \cup {m}
  /\ m # g /\ t.fdata[m] = s.fdata[g] /\ t.fdata[g] = Nothing
  /\ \A h \in Mapped \ {m, g} : t.fdata[h] = s.fdata[h]
  /\ t.opened = {r \in s.opened : ~Has(s, m, r)}

LEMMA HandedKeeps ==
  ASSUME NEW s, Kept(s), NEW m \in Mapped, NEW g \in s.alive, NEW t, Handed(s, t, m, g)
  PROVE  Kept(t)
<1>1. s \in States /\ t \in States /\ t.strays = 0 /\ g \in Mapped
  BY DEF Kept, FilesSound, Handed, States
<1>2. \A h \in Mapped \ {m, g} : \A r : Has(t, h, r) <=> Has(s, h, r)
  BY DEF Handed, Has
<1>3. \A r : (Has(t, m, r) <=> Has(s, g, r)) /\ ~Has(t, g, r)
  BY <1>1 DEF Handed, Has
<1>4. \A h \in Mapped, r \in Resources : Has(t, h, r) => r \in t.opened
  <2> SUFFICES ASSUME NEW h \in Mapped, NEW r \in Resources, Has(t, h, r) PROVE r \in t.opened
    OBVIOUS
  <2>1. PICK k \in Mapped \ {m} : Has(s, k, r)  BY <1>1, <1>2, <1>3 DEF Handed
  <2>2. r \in s.opened /\ ~Has(s, m, r)  BY <2>1 DEF Kept, FilesSound, Tidy
  <2> QED BY <2>2 DEF Handed
<1>5. \A h \in Mapped : Tidy(t, h)
  <2> SUFFICES ASSUME NEW h \in Mapped, t.fdata[h] # Nothing
               PROVE  t.fdata[h].handle = Nothing \/ t.fdata[h].handle # t.fdata[h].ptr
    BY <1>4 DEF Tidy
  <2>1. PICK k \in Mapped : t.fdata[h] = s.fdata[k]  BY <1>1 DEF Handed
  <2> QED BY <2>1 DEF Kept, FilesSound, Tidy
<1>6. ASSUME NEW r \in t.opened PROVE \E h \in t.alive : Has(t, h, r)
  <2>1. r \in s.opened /\ ~Has(s, m, r)  BY DEF Handed
  <2>2. PICK h \in s.alive : Has(s, h, r)  BY <2>1 DEF Kept, FilesSound
  <2>3. CASE h = g  BY <1>3, <2>2, <2>3 DEF Handed
  <2>4. CASE h # g
    <3>1. h \in Mapped \ {m, g} /\ h \in t.alive
      BY <1>1, <2>1, <2>2, <2>4 DEF Handed, States
    <3> QED BY <1>2, <2>2, <3>1
  <2> QED BY <2>3, <2>4
<1>7. ASSUME NEW h \in Mapped, NEW k \in Mapped, NEW r \in Resources, Has(t, h, r), Has(t, k, r)
      PROVE  h = k
  <2> DEFINE from(x) == IF x = m THEN g ELSE x
  <2>1. h # g /\ k # g  BY <1>3, <1>7
  <2>2. Has(s, from(h), r) /\ Has(s, from(k), r)  BY <1>2, <1>3, <1>7, <2>1
  <2>3. from(h) = from(k)  BY <1>1, <2>2 DEF Kept, FilesSound
  <2> QED BY <2>1, <2>3
<1>8. \A h \in Mapped \ t.alive : t.fdata[h] = Nothing
  BY DEF Handed, Kept, FilesSound
<1>9. \A h \in Mapped : NotFailed(t, h)
  BY <1>1 DEF Handed, Kept, NotFailed
<1> QED BY <1>1, <1>5, <1>6, <1>4, <1>7, <1>8, <1>9 DEF Kept, FilesSound

LEMMA MoveConstructKeeps ==
  ASSUME Kept(mf), NEW m \in Mapped, NEW g \in Mapped, MoveConstructMapped(m, g)
  PROVE  Kept(mf')
<1>1. mf \in States /\ m # g /\ g \in mf.alive /\ mf.fdata[m] = Nothing
  BY DEF MoveConstructMapped, Kept, FilesSound
<1>2. /\ mf' \in States /\ mf'.alive = mf.alive \cup {m} /\ mf'.opened = mf.opened
      /\ mf'.strays = mf.strays
      /\ mf'.fdata = [mf.fdata EXCEPT ![m] = mf.fdata[g], ![g] = Nothing]
  BY <1>1 DEF MoveConstructMapped, States
<1>3. mf.opened = {r \in mf.opened : ~Has(mf, m, r)}  BY <1>1 DEF Has
<1>4. Handed(mf, mf', m, g)  BY <1>1, <1>2, <1>3 DEF Handed, States
<1> QED BY <1>1, <1>4, HandedKeeps

(* Assignment gives up the value of rhs before it resets its own, so that  *)
(* from itself it keeps what it has.                                       *)
LEMMA MoveAssignKeeps ==
  ASSUME platform = "posix", Kept(mf), NEW m \in Mapped, NEW g \in Mapped,
         MoveAssignMapped(m, g)
  PROVE  Kept(mf')
<1> DEFINE released == [mf EXCEPT !.fdata[g] = Nothing]
           s == ResetFile(released, m)
<1>1. /\ mf \in States /\ m \in mf.alive /\ g \in mf.alive
      /\ mf' = [s EXCEPT !.fdata[m] = mf.fdata[g]]
  BY DEF MoveAssignMapped, Kept, FilesSound
<1>2. /\ released \in States /\ released.alive = mf.alive /\ released.opened = mf.opened
      /\ released.strays = mf.strays
      /\ released.fdata = [mf.fdata EXCEPT ![g] = Nothing]
  BY <1>1 DEF States
<1>3. CASE m = g
  <2>1. s = released  BY <1>1, <1>2, <1>3 DEF ResetFile, States
  <2>2. mf' = [released EXCEPT !.fdata[m] = mf.fdata[g]]  BY <1>1, <2>1
  <2> HIDE DEF released
  <2>3. /\ mf' \in States /\ mf'.alive = mf.alive /\ mf'.opened = mf.opened
        /\ mf'.strays = mf.strays /\ mf'.fdata = [released.fdata EXCEPT ![m] = mf.fdata[g]]
    <3>1. mf.fdata[g] \in Fdata \cup {Nothing}  BY <1>1 DEF States
    <3> QED BY <1>2, <2>2, <3>1 DEF States
  <2>4. \A h \in Mapped : mf'.fdata[h] = mf.fdata[h]
    BY <1>1, <1>2, <1>3, <2>3 DEF States
  <2>5. \A h \in Mapped : \A r : Has(mf', h, r) <=> Has(mf, h, r)  BY <2>4 DEF Has
  <2>6. \A h \in Mapped : Tidy(mf', h) /\ NotFailed(mf', h)
    BY <2>3, <2>4, <2>5 DEF Kept, FilesSound, Tidy, NotFailed
  <2>7. \A r \in mf'.opened : \E h \in mf'.alive : Has(mf', h, r)
    BY <1>1, <2>3, <2>5 DEF Kept, FilesSound, States
  <2> QED BY <2>3, <2>4, <2>5, <2>6, <2>7 DEF Kept, FilesSound
<1>4. CASE m # g
  <2>1. Tidy(released, m)
    BY <1>1, <1>2, <1>4 DEF Tidy, Has, Kept, FilesSound, States
  <2> HIDE DEF released
  <2>2. Dropped(released, s, m)  BY <1>2, <2>1, ResetDrops
  <2> HIDE DEF s
  <2>3. /\ mf' \in States /\ mf'.alive = s.alive /\ mf'.opened = s.opened
        /\ mf'.strays = s.strays /\ mf'.fdata = [s.fdata EXCEPT ![m] = mf.fdata[g]]
    BY <1>1, <2>2 DEF Dropped, States
  <2>4. \A r : Has(released, m, r) <=> Has(mf, m, r)
    BY <1>1, <1>2, <1>4 DEF Has, States
  <2>5. mf'.opened = {r \in mf.opened : ~Has(mf, m, r)}
    BY <1>2, <2>2, <2>3, <2>4 DEF Dropped
  <2>6. /\ mf'.fdata[m] = mf.fdata[g] /\ mf'.fdata[g] = Nothing
        /\ \A h \in Mapped \ {m, g} : mf'.fdata[h] = mf.fdata[h]
    BY <1>1, <1>2, <1>4, <2>2, <2>3 DEF Dropped, States
  <2>7. Handed(mf, mf', m, g)
    BY <1>1, <1>2, <1>4, <2>2, <2>3, <2>5, <2>6 DEF Handed, Dropped
  <2> QED BY <1>1, <2>7, HandedKeeps
<1> QED BY <1>3, <1>4

-------------------------------------------------------------------------------
(* The theorems.                                                           *)

LEMMA MappedInvInit == MappedInit => MappedInv
<1> SUFFICES ASSUME MappedInit PROVE MappedInv
  OBVIOUS
<1>1. mf \in States  BY DEF MappedInit, States
<1>2. \A m \in Mapped : mf.fdata[m] = Nothing  BY DEF MappedInit
<1>3. FilesSound(mf)  BY <1>1, <1>2 DEF MappedInit, FilesSound, Tidy, Has
<1> QED BY <1>2, <1>3 DEF MappedInit, MappedInv, NotFailed

LEMMA MappedInvStep == MappedInv /\ [MappedNext]_mappedVars => MappedInv'
<1> SUFFICES ASSUME MappedInv, [MappedNext]_mappedVars PROVE MappedInv'
  OBVIOUS
<1>1. CASE UNCHANGED mappedVars
  BY <1>1 DEF MappedInv, mappedVars, FilesSound, Tidy, Has, NotFailed
<1>2. CASE MappedNext /\ platform = "windows"
  BY <1>2 DEF MappedNext, MappedInv
<1>3. CASE MappedNext /\ platform = "posix"
  <2>1. platform' = platform  BY <1>3 DEF MappedNext
  <2>2. Kept(mf)  BY <1>3 DEF MappedInv, Kept
  <2> SUFFICES Kept(mf')
    BY <1>3, <2>1 DEF MappedInv, Kept
  <2>3. PICK m \in Mapped :
          \/ CreateMapped(m) \/ OpenPosix(m) \/ DestroyMapped(m)
          \/ \E wide \in BOOLEAN : OpenWindows(m, wide)
          \/ \E g \in Mapped : MoveConstructMapped(m, g) \/ MoveAssignMapped(m, g)
    BY <1>3 DEF MappedNext
  <2>4. CASE CreateMapped(m)  BY <2>2, <2>4, CreateKeeps
  <2>5. CASE OpenPosix(m)  BY <1>3, <2>2, <2>5, OpenKeeps
  <2>6. CASE DestroyMapped(m)  BY <1>3, <2>2, <2>6, DestroyKeeps
  <2>7. ASSUME NEW wide \in BOOLEAN, OpenWindows(m, wide) PROVE Kept(mf')
    BY <1>3, <2>7 DEF OpenWindows
  <2>8. ASSUME NEW g \in Mapped, MoveConstructMapped(m, g) PROVE Kept(mf')
    BY <2>2, <2>8, MoveConstructKeeps
  <2>9. ASSUME NEW g \in Mapped, MoveAssignMapped(m, g) PROVE Kept(mf')
    BY <1>3, <2>2, <2>9, MoveAssignKeeps
  <2> QED BY <2>3, <2>4, <2>5, <2>6, <2>7, <2>8, <2>9
<1> QED BY <1>1, <1>2, <1>3 DEF MappedInv

(* The inductive invariant: what is open is held by one object.            *)
THEOREM MappedInvariance == MappedSpec => []MappedInv
  BY MappedInvInit, MappedInvStep, PTL DEF MappedSpec

(* On POSIX systems what is open is what the objects hold, each thing by   *)
(* one of them, and nothing is closed that is not open.                    *)
THEOREM PosixRaii == MappedSpec => []RaiiOnPosix
<1>1. MappedInv => RaiiOnPosix
  <2> SUFFICES ASSUME MappedInv, platform = "posix" PROVE RaiiMappedFile
    BY DEF RaiiOnPosix
  <2>1. FilesSound(mf) /\ \A m \in Mapped : NotFailed(mf, m)  BY DEF MappedInv
  <2>2. mf.alive \subseteq Mapped /\ mf.opened \subseteq Resources  BY <2>1 DEF FilesSound, States
  <2>3. ASSUME NEW m \in Mapped, NEW r PROVE r \in Held(m) <=> r \in Resources /\ Has(mf, m, r)
    BY <2>1, MappedFileAssumption DEF Held, Has, NotFailed, FilesSound, States, Fdata
  <2>4. mf.opened = UNION {Held(m) : m \in mf.alive}
    BY <2>1, <2>2, <2>3 DEF FilesSound, Tidy
  <2>5. \A m, g \in mf.alive : m # g => Held(m) \cap Held(g) = {}
    BY <2>1, <2>2, <2>3 DEF FilesSound
  <2> QED BY <2>1, <2>4, <2>5 DEF RaiiMappedFile, FilesSound
<1> QED BY <1>1, MappedInvariance, PTL

-------------------------------------------------------------------------------
(* Induction, for what is done step by step.                               *)

(* A property some number has is one that a least number has: this stands  *)
(* for induction in what follows.                                          *)
LEMMA LeastNatural ==
  ASSUME NEW S \in SUBSET Nat, S # {}
  PROVE  \E m \in S : \A k \in S : m <= k
<1> DEFINE below(n) == 0 .. n
           W == {below(n) : n \in S}
<1>1. W \subseteq FiniteSubsetsOf(Nat)
  <2> SUFFICES ASSUME NEW n \in Nat PROVE IsFiniteSet(0 .. n) /\ 0 .. n \subseteq Nat
    BY DEF FiniteSubsetsOf
  <2> QED
    BY FS_Interval
<1>2. IsWellFoundedOn(StrictSubsetOrdering(Nat), FiniteSubsetsOf(Nat))
  BY FS_StrictSubsetOrderingWellFounded
<1>3. W # {}
  OBVIOUS
<1>4. PICK x \in W : \A y \in W : <<y, x>> \notin StrictSubsetOrdering(Nat)
  <2> HIDE DEF W
  <2> QED
    BY <1>1, <1>2, <1>3, WFMin
<1>5. PICK m \in S : x = 0 .. m
  OBVIOUS
<1>6. ASSUME NEW k \in S, k < m PROVE FALSE
  <2>1. 0 .. k \subseteq 0 .. m /\ 0 .. k # 0 .. m
    BY <1>6
  <2>2. <<0 .. k, x>> \in StrictSubsetOrdering(Nat)
    BY <1>5, <2>1 DEF StrictSubsetOrdering
  <2> QED
    BY <1>4, <2>2
<1> QED
  BY <1>6

(* Induction up to n, with the set of the numbers of which it is true.     *)
LEMMA CountedUpTo ==
  ASSUME NEW n \in Nat, NEW S, 0 \in S, \A k \in 0 .. n - 1 : k \in S => k + 1 \in S
  PROVE  0 .. n \subseteq S
<1> SUFFICES ASSUME (0 .. n) \ S # {} PROVE FALSE
  OBVIOUS
<1>1. (0 .. n) \ S \in SUBSET Nat
  OBVIOUS
<1>2. PICK m \in (0 .. n) \ S : \A k \in (0 .. n) \ S : m <= k
  BY <1>1, LeastNatural
<1>3. m # 0 /\ m - 1 \in 0 .. n - 1 /\ m - 1 \notin (0 .. n) \ S
  BY <1>2
<1> QED
  BY <1>2, <1>3

(* Powers of two.                                                          *)
Powers(p, n) == p = [k \in 0 .. n |-> IF k = 0 THEN 1 ELSE 2 * p[k - 1]]

LEMMA PowersExist ==
  ASSUME NEW n \in Nat
  PROVE  \E p : Powers(p, n)
<1> DEFINE S == {m \in Nat : \E p : Powers(p, m)}
<1>1. 0 \in S
  <2> DEFINE p == [k \in 0 .. 0 |-> 1]
  <2>1. Powers(p, 0)
    BY DEF Powers
  <2> QED
    BY <2>1
<1>2. ASSUME NEW m \in 0 .. n - 1, m \in S PROVE m + 1 \in S
  <2>1. PICK p : Powers(p, m)
    BY <1>2
  <2> DEFINE q == [k \in 0 .. m + 1 |-> IF k = m + 1 THEN 2 * p[m] ELSE p[k]]
  <2>2. \A k \in 0 .. m : q[k] = p[k]
    OBVIOUS
  <2>3. q[m + 1] = 2 * p[m]
    OBVIOUS
  <2>4. q = [k \in 0 .. m + 1 |-> q[k]]
    OBVIOUS
  <2> HIDE DEF q
  <2>5. ASSUME NEW k \in 0 .. m + 1 PROVE q[k] = IF k = 0 THEN 1 ELSE 2 * q[k - 1]
    <3>1. CASE k = m + 1
      <4>1. k # 0 /\ k - 1 = m /\ m \in 0 .. m
        BY <3>1
      <4> QED
        BY <2>2, <2>3, <3>1, <4>1
    <3>2. CASE k \in 0 .. m
      <4>1. p[k] = IF k = 0 THEN 1 ELSE 2 * p[k - 1]
        BY <2>1, <3>2 DEF Powers
      <4>2. k # 0 => k - 1 \in 0 .. m
        BY <3>2
      <4> QED
        BY <2>2, <3>2, <4>1, <4>2
    <3> QED
      BY <3>1, <3>2
  <2>6. Powers(q, m + 1)
    BY <2>4, <2>5 DEF Powers
  <2> QED
    BY <2>6
<1> HIDE DEF S
<1>3. 0 .. n \subseteq S
  BY <1>1, <1>2, CountedUpTo
<1>4. n \in S
  BY <1>3
<1> QED
  BY <1>4 DEF S

LEMMA PowersAgree ==
  ASSUME NEW m \in Nat, NEW n \in Nat, m <= n, NEW p, NEW q, Powers(p, m), Powers(q, n)
  PROVE  \A k \in 0 .. m : p[k] = q[k] /\ p[k] \in Nat /\ p[k] > 0
<1> DEFINE S == {k \in 0 .. m : p[k] = q[k] /\ p[k] \in Nat /\ p[k] > 0}
<1>1. 0 \in S
  BY DEF Powers
<1>2. ASSUME NEW k \in 0 .. m - 1, k \in S PROVE k + 1 \in S
  <2>1. k + 1 \in 0 .. m /\ k + 1 \in 0 .. n /\ k + 1 # 0 /\ (k + 1) - 1 = k
    OBVIOUS
  <2>2. p[k + 1] = 2 * p[k] /\ q[k + 1] = 2 * q[k]
    BY <2>1 DEF Powers
  <2> QED
    BY <1>2, <2>1, <2>2
<1> HIDE DEF S
<1>3. 0 .. m \subseteq S
  BY <1>1, <1>2, CountedUpTo
<1> QED
  BY <1>3 DEF S

LEMMA PowerIs ==
  /\ PowerOf2(0) = 1
  /\ \A n \in Nat : PowerOf2(n) \in Nat /\ PowerOf2(n) > 0 /\ PowerOf2(n + 1) = 2 * PowerOf2(n)
<1>1. ASSUME NEW n \in Nat PROVE \E p : Powers(p, n) /\ PowerOf2(n) = p[n]
  <2> DEFINE power[k \in 0 .. n] == IF k = 0 THEN 1 ELSE 2 * power[k - 1]
  <2>1. \E p : p = [k \in 0 .. n |-> IF k = 0 THEN 1 ELSE 2 * p[k - 1]]
    BY PowersExist DEF Powers
  <2>2. power = [k \in 0 .. n |-> IF k = 0 THEN 1 ELSE 2 * power[k - 1]]
    BY <2>1
  <2>3. PowerOf2(n) = power[n]
    BY DEF PowerOf2
  <2> HIDE DEF power
  <2>4. Powers(power, n)
    BY <2>2 DEF Powers
  <2> QED
    BY <2>3, <2>4
<1>2. PowerOf2(0) = 1
  <2>1. PICK p : Powers(p, 0) /\ PowerOf2(0) = p[0]
    BY <1>1
  <2> QED
    BY <2>1 DEF Powers
<1>3. ASSUME NEW n \in Nat
      PROVE  PowerOf2(n) \in Nat /\ PowerOf2(n) > 0 /\ PowerOf2(n + 1) = 2 * PowerOf2(n)
  <2> DEFINE m == n + 1
  <2>1. m \in Nat /\ n <= m /\ m # 0 /\ m - 1 = n /\ m \in 0 .. m /\ n \in 0 .. n
    OBVIOUS
  <2> HIDE DEF m
  <2>2. PICK p : Powers(p, n) /\ PowerOf2(n) = p[n]
    BY <1>1
  <2>3. PICK q : Powers(q, m) /\ PowerOf2(m) = q[m]
    BY <1>1, <2>1
  <2>4. p[n] = q[n] /\ p[n] \in Nat /\ p[n] > 0
    BY <2>1, <2>2, <2>3, PowersAgree
  <2>5. q[m] = 2 * q[n]
    BY <2>1, <2>3 DEF Powers
  <2> QED
    BY <2>2, <2>3, <2>4, <2>5 DEF m
<1> QED
  BY <1>2, <1>3

LEMMA PowerAdds ==
  ASSUME NEW a \in Nat, NEW b \in Nat
  PROVE  PowerOf2(a + b) = PowerOf2(a) * PowerOf2(b)
<1> DEFINE S == {k \in Nat : PowerOf2(a + k) = PowerOf2(a) * PowerOf2(k)}
<1>1. 0 \in S
  <2>1. a + 0 = a /\ PowerOf2(a) \in Nat
    BY PowerIs
  <2> QED
    BY <2>1, PowerIs
<1>2. ASSUME NEW k \in 0 .. b - 1, k \in S PROVE k + 1 \in S
  <2> DEFINE x == PowerOf2(a)
             y == PowerOf2(k)
             z == PowerOf2(a + k)
  <2>1. k \in Nat /\ a + k \in Nat /\ (a + k) + 1 = a + (k + 1)
    OBVIOUS
  <2>2. x \in Nat /\ y \in Nat /\ z = x * y /\ PowerOf2(k + 1) = 2 * y /\ PowerOf2(a + (k + 1)) = 2 * z
    BY <1>2, <2>1, PowerIs
  <2> HIDE DEF x, y, z
  <2>3. 2 * (x * y) = x * (2 * y)
    BY <2>2
  <2>4. PowerOf2(a + (k + 1)) = x * PowerOf2(k + 1)
    BY <2>2, <2>3
  <2> QED
    BY <2>1, <2>4 DEF x
<1> HIDE DEF S
<1>3. 0 .. b \subseteq S
  BY <1>1, <1>2, CountedUpTo
<1>4. b \in S
  BY <1>3
<1> QED
  BY <1>4 DEF S

(* Division with remainder.                                                *)
LEMMA Divided ==
  ASSUME NEW p \in Nat, p > 0, NEW a \in Nat, NEW b \in Nat, b < p
  PROVE  (a * p + b) \div p = a /\ (a * p + b) % p = b
<1> DEFINE x == a * p + b
           q == x \div p
           r == x % p
<1>1. x \in Nat
  OBVIOUS
<1>2. q \in Nat /\ r \in Nat /\ r < p /\ x = p * q + r
  BY <1>1
<1> HIDE DEF q, r
<1>3. ~ (q > a)
  <2> SUFFICES ASSUME q >= a + 1 PROVE FALSE
    BY <1>2
  <2> DEFINE d == q - a - 1
  <2>1. d \in Nat /\ q = a + 1 + d
    BY <1>2
  <2> HIDE DEF d
  <2>2. p * q = a * p + p + p * d /\ p * d \in Nat
    BY <2>1
  <2> QED
    BY <1>1, <1>2, <2>2
<1>4. ~ (q < a)
  <2> SUFFICES ASSUME a >= q + 1 PROVE FALSE
    BY <1>2
  <2> DEFINE d == a - q - 1
  <2>1. d \in Nat /\ a = q + 1 + d
    BY <1>2
  <2> HIDE DEF d
  <2>2. a * p = p * q + p + p * d /\ p * d \in Nat
    BY <1>2, <2>1
  <2> QED
    BY <1>1, <1>2, <2>2
<1>5. q = a
  BY <1>2, <1>3, <1>4
<1>6. r = b
  <2>1. p * q = a * p
    BY <1>5
  <2> QED
    BY <1>1, <1>2, <2>1
<1> QED
  BY <1>5, <1>6 DEF q, r

-------------------------------------------------------------------------------
(* Numbers by their bits.                                                  *)
Bit == {0, 1}
Numbers(r, s) == r = [k \in 0 .. Len(s) |-> IF k = 0 THEN 0 ELSE 2 * r[k - 1] + s[k]]

LEMMA NumbersExist ==
  ASSUME NEW s, Len(s) \in Nat
  PROVE  \E r : Numbers(r, s)
<1> DEFINE n == Len(s)
           Up(r, m) == r = [k \in 0 .. m |-> IF k = 0 THEN 0 ELSE 2 * r[k - 1] + s[k]]
           S == {m \in 0 .. n : \E r : Up(r, m)}
<1>0. n \in Nat
  OBVIOUS
<1> HIDE DEF n
<1>1. 0 \in S
  <2> DEFINE r == [k \in 0 .. 0 |-> 0]
  <2>1. Up(r, 0)
    OBVIOUS
  <2> HIDE DEF Up
  <2> QED
    BY <1>0, <2>1
<1>2. ASSUME NEW m \in 0 .. n - 1, m \in S PROVE m + 1 \in S
  <2>1. PICK p : Up(p, m)
    BY <1>2
  <2> DEFINE x == 2 * p[m] + s[m + 1]
             q == [k \in 0 .. m + 1 |-> IF k = m + 1 THEN x ELSE p[k]]
  <2>2. \A k \in 0 .. m : q[k] = p[k]
    OBVIOUS
  <2>3. q[m + 1] = x
    OBVIOUS
  <2>4. q = [k \in 0 .. m + 1 |-> q[k]]
    OBVIOUS
  <2> HIDE DEF q
  <2>5. ASSUME NEW k \in 0 .. m + 1 PROVE q[k] = IF k = 0 THEN 0 ELSE 2 * q[k - 1] + s[k]
    <3>1. CASE k = m + 1
      <4>1. k # 0 /\ k - 1 = m /\ m \in 0 .. m
        BY <3>1
      <4> QED
        BY <2>2, <2>3, <3>1, <4>1
    <3>2. CASE k \in 0 .. m
      <4>1. p[k] = IF k = 0 THEN 0 ELSE 2 * p[k - 1] + s[k]
        BY <2>1, <3>2
      <4>2. k # 0 => k - 1 \in 0 .. m
        BY <3>2
      <4> QED
        BY <2>2, <3>2, <4>1, <4>2
    <3> QED
      BY <3>1, <3>2
  <2>6. Up(q, m + 1)
    BY <2>4, <2>5
  <2>7. m + 1 \in 0 .. n
    BY <1>0
  <2> HIDE DEF Up
  <2> QED
    BY <2>6, <2>7
<1> HIDE DEF S
<1>3. 0 .. n \subseteq S
  BY <1>0, <1>1, <1>2, CountedUpTo
<1>4. n \in S
  BY <1>0, <1>3
<1>5. PICK r : Up(r, n)
  BY <1>4 DEF S
<1> QED
  BY <1>5 DEF n, Numbers

LEMMA NumberIs ==
  ASSUME NEW s, Len(s) \in Nat
  PROVE  \E r : Numbers(r, s) /\ NumberOf(s) = r[Len(s)]
<1> DEFINE number[k \in 0 .. Len(s)] == IF k = 0 THEN 0 ELSE 2 * number[k - 1] + s[k]
<1>1. \E r : r = [k \in 0 .. Len(s) |-> IF k = 0 THEN 0 ELSE 2 * r[k - 1] + s[k]]
  BY NumbersExist DEF Numbers
<1>2. number = [k \in 0 .. Len(s) |-> IF k = 0 THEN 0 ELSE 2 * number[k - 1] + s[k]]
  BY <1>1
<1>3. NumberOf(s) = number[Len(s)]
  BY DEF NumberOf
<1> HIDE DEF number
<1>4. Numbers(number, s)
  BY <1>2 DEF Numbers
<1> QED
  BY <1>3, <1>4

LEMMA NumbersHave ==
  ASSUME NEW s \in Seq(Bit), NEW r, Numbers(r, s)
  PROVE  /\ r[0] = 0 /\ \A k \in 0 .. Len(s) : r[k] \in Nat /\ r[k] < PowerOf2(k)
         /\ \A k \in 0 .. Len(s) - 1 : r[k + 1] = 2 * r[k] + s[k + 1] /\ s[k + 1] \in Bit
<1> DEFINE n == Len(s)
           S == {k \in 0 .. n : r[k] \in Nat /\ r[k] < PowerOf2(k)}
<1>1. n \in Nat /\ \A k \in 1 .. n : s[k] \in Bit
  OBVIOUS
<1>2. r[0] = 0
  BY <1>1 DEF Numbers
<1>3. ASSUME NEW k \in 0 .. n - 1 PROVE r[k + 1] = 2 * r[k] + s[k + 1] /\ s[k + 1] \in Bit
  <2>1. k + 1 \in 0 .. n /\ k + 1 # 0 /\ (k + 1) - 1 = k /\ k + 1 \in 1 .. n
    BY <1>1
  <2> QED
    BY <1>1, <2>1 DEF Numbers
<1>4. 0 \in S
  <2>1. PowerOf2(0) = 1
    BY PowerIs
  <2>2. 0 \in 0 .. n
    BY <1>1
  <2>3. r[0] \in Nat /\ r[0] < PowerOf2(0)
    BY <1>2, <2>1
  <2> QED
    BY <2>2, <2>3
<1>5. ASSUME NEW k \in 0 .. n - 1, k \in S PROVE k + 1 \in S
  <2> DEFINE b == s[k + 1]
  <2>1. b = 0 \/ b = 1
    BY <1>3 DEF Bit
  <2>2. r[k + 1] = 2 * r[k] + b
    BY <1>3
  <2>3. k \in Nat /\ k + 1 \in 0 .. n
    BY <1>1
  <2>4. PowerOf2(k + 1) = 2 * PowerOf2(k) /\ PowerOf2(k) \in Nat
    BY <2>3, PowerIs
  <2> HIDE DEF b
  <2> QED
    BY <1>5, <2>1, <2>2, <2>3, <2>4
<1> HIDE DEF S
<1>6. 0 .. n \subseteq S
  BY <1>1, <1>4, <1>5, CountedUpTo
<1> QED
  BY <1>2, <1>3, <1>6 DEF S

(* A number of n bits is below 2 ^ n.                                      *)
LEMMA NumberFits ==
  ASSUME NEW s \in Seq(Bit)
  PROVE  NumberOf(s) \in Nat /\ NumberOf(s) < PowerOf2(Len(s))
<1>1. Len(s) \in Nat /\ Len(s) \in 0 .. Len(s)
  OBVIOUS
<1>2. PICK r : Numbers(r, s) /\ NumberOf(s) = r[Len(s)]
  BY <1>1, NumberIs
<1> QED
  BY <1>1, <1>2, NumbersHave

LEMMA NumberOfNone == NumberOf(<<>>) = 0
<1> DEFINE s == <<>>
<1>1. s \in Seq(Bit) /\ Len(s) = 0 /\ Len(s) \in Nat
  OBVIOUS
<1> HIDE DEF s
<1>2. PICK r : Numbers(r, s) /\ NumberOf(s) = r[Len(s)]
  BY <1>1, NumberIs
<1>3. NumberOf(s) = 0
  BY <1>1, <1>2, NumbersHave
<1> QED
  BY <1>3 DEF s

LEMMA JoinedIs ==
  ASSUME NEW S, NEW a \in Seq(S), NEW b \in Seq(S)
  PROVE  /\ a \o b \in Seq(S) /\ Len(a \o b) = Len(a) + Len(b)
         /\ \A k \in 1 .. Len(a) : (a \o b)[k] = a[k]
         /\ \A k \in 1 .. Len(b) : (a \o b)[Len(a) + k] = b[k]
  OBVIOUS

(* The first bits of a number are the high ones.                           *)
LEMMA NumberJoins ==
  ASSUME NEW a \in Seq(Bit), NEW b \in Seq(Bit)
  PROVE  NumberOf(a \o b) = NumberOf(a) * PowerOf2(Len(b)) + NumberOf(b)
<1> DEFINE s == a \o b
           m == Len(a)
           n == Len(b)
<1>1. /\ s \in Seq(Bit) /\ Len(s) = m + n /\ m \in Nat /\ n \in Nat /\ Len(s) \in Nat
      /\ \A k \in 1 .. m : s[k] = a[k]
      /\ \A k \in 1 .. n : s[m + k] = b[k]
  BY JoinedIs
<1> HIDE DEF s
<1>2. PICK r : Numbers(r, s) /\ NumberOf(s) = r[Len(s)]
  BY <1>1, NumberIs
<1>3. PICK p : Numbers(p, a) /\ NumberOf(a) = p[Len(a)]
  BY <1>1, NumberIs
<1>4. PICK q : Numbers(q, b) /\ NumberOf(b) = q[Len(b)]
  BY <1>1, NumberIs
<1>5. /\ r[0] = 0 /\ \A k \in 0 .. (m + n) - 1 : r[k + 1] = 2 * r[k] + s[k + 1] /\ s[k + 1] \in Bit
      /\ \A k \in 0 .. m + n : r[k] \in Nat
  BY <1>1, <1>2, NumbersHave
<1>6. p[0] = 0 /\ \A k \in 0 .. m - 1 : p[k + 1] = 2 * p[k] + a[k + 1] /\ a[k + 1] \in Bit
  BY <1>3, NumbersHave
<1>7. /\ q[0] = 0 /\ \A k \in 0 .. n - 1 : q[k + 1] = 2 * q[k] + b[k + 1] /\ b[k + 1] \in Bit
      /\ \A k \in 0 .. n : q[k] \in Nat
  BY <1>4, NumbersHave
<1> HIDE DEF m, n
<1>8. r[m] = p[m]
  <2> DEFINE S == {k \in 0 .. m : r[k] = p[k]}
  <2>1. 0 \in S
    BY <1>1, <1>5, <1>6
  <2>2. ASSUME NEW k \in 0 .. m - 1, k \in S PROVE k + 1 \in S
    <3>1. k \in 0 .. (m + n) - 1 /\ k + 1 \in 1 .. m /\ k + 1 \in 0 .. m
      BY <1>1
    <3>2. r[k + 1] = 2 * r[k] + s[k + 1] /\ p[k + 1] = 2 * p[k] + a[k + 1] /\ s[k + 1] = a[k + 1]
      BY <1>1, <1>5, <1>6, <3>1
    <3> QED
      BY <2>2, <3>1, <3>2
  <2> HIDE DEF S
  <2>3. 0 .. m \subseteq S
    BY <1>1, <2>1, <2>2, CountedUpTo
  <2>4. m \in S
    BY <1>1, <2>3
  <2> QED
    BY <2>4 DEF S
<1> DEFINE x == r[m]
<1>9. x \in Nat
  <2>1. m \in 0 .. m + n
    BY <1>1
  <2> QED
    BY <1>5, <2>1
<1>10. r[m + n] = x * PowerOf2(n) + q[n]
  <2> DEFINE S == {k \in 0 .. n : r[m + k] = x * PowerOf2(k) + q[k]}
  <2>1. 0 \in S
    <3>1. m + 0 = m /\ x * 1 = x
      BY <1>1, <1>9
    <3>3. PowerOf2(0) = 1
      BY PowerIs
    <3>2. r[m + 0] = x * PowerOf2(0) + q[0]
      <4> HIDE DEF x
      <4>1. x * PowerOf2(0) + q[0] = x
        BY <1>7, <1>9, <3>1, <3>3
      <4>2. r[m + 0] = x
        BY <3>1 DEF x
      <4> QED
        BY <4>1, <4>2
    <3> HIDE DEF x
    <3> QED
      BY <1>1, <3>2
  <2> HIDE DEF x
  <2>2. ASSUME NEW k \in 0 .. n - 1, k \in S PROVE k + 1 \in S
    <3> DEFINE i == m + k
               b1 == b[k + 1]
               y == PowerOf2(k)
               z == q[k]
    <3>1. i \in 0 .. (m + n) - 1 /\ i + 1 = m + (k + 1) /\ k + 1 \in 1 .. n /\ k \in Nat /\ k + 1 \in 0 .. n /\ k \in 0 .. n
      BY <1>1
    <3>2. r[i] = x * y + z
      BY <2>2
    <3>3. r[i + 1] = 2 * r[i] + s[i + 1] /\ s[i + 1] = b1 /\ q[k + 1] = 2 * z + b1 /\ b1 \in Bit
      BY <1>1, <1>5, <1>7, <3>1
    <3>4. PowerOf2(k + 1) = 2 * y /\ y \in Nat /\ z \in Nat
      BY <1>7, <3>1, PowerIs
    <3> HIDE DEF i, b1, y, z
    <3>5. b1 \in Int
      BY <3>3 DEF Bit
    <3>6. 2 * (x * y + z) + b1 = x * (2 * y) + (2 * z + b1)
      BY <1>9, <3>4, <3>5
    <3>7. r[m + (k + 1)] = x * PowerOf2(k + 1) + q[k + 1]
      BY <3>1, <3>2, <3>3, <3>4, <3>6
    <3> QED
      BY <3>1, <3>7
  <2> HIDE DEF S
  <2>3. 0 .. n \subseteq S
    BY <1>1, <2>1, <2>2, CountedUpTo
  <2>4. n \in S
    BY <1>1, <2>3
  <2> QED
    BY <2>4 DEF S
<1>11. NumberOf(s) = NumberOf(a) * PowerOf2(n) + NumberOf(b)
  BY <1>1, <1>2, <1>3, <1>4, <1>8, <1>10 DEF m, n
<1> QED
  BY <1>11 DEF s, n

-------------------------------------------------------------------------------
LEMMA PowerGrows ==
  ASSUME NEW a \in Nat, NEW b \in Nat, a <= b
  PROVE  PowerOf2(a) <= PowerOf2(b)
<1>1. PowerOf2(a + (b - a)) = PowerOf2(a) * PowerOf2(b - a) /\ a + (b - a) = b
  BY PowerAdds
<1> DEFINE x == PowerOf2(a)
           y == PowerOf2(b - a)
<1>2. x \in Nat /\ y \in Nat /\ y > 0
  BY PowerIs
<1> HIDE DEF x, y
<1>3. x <= x * y
  BY <1>2
<1> QED
  BY <1>1, <1>3 DEF x, y

(* A number that is small enough is as it was.                             *)
LEMMA FitsIn ==
  ASSUME NEW p \in Nat, NEW v \in Nat, v < p
  PROVE  v % p = v /\ v \div p = 0
<1>1. p > 0 /\ 0 * p + v = v
  OBVIOUS
<1> QED
  BY <1>1, Divided

LEMMA Parted ==
  ASSUME NEW p \in Nat, p > 0, NEW v \in Nat
  PROVE  v \div p \in Nat /\ v % p \in Nat /\ v % p < p /\ v = (v \div p) * p + (v % p)
<1> DEFINE q == v \div p
           r == v % p
<1>1. q \in Nat /\ r \in Nat /\ r < p /\ v = p * q + r
  OBVIOUS
<1> HIDE DEF q, r
<1>2. p * q = q * p
  BY <1>1
<1>3. q \in Nat /\ r \in Nat /\ r < p /\ v = q * p + r
  BY <1>1, <1>2
<1> QED
  BY <1>3 DEF q, r

LEMMA Halved ==
  ASSUME NEW p \in Nat, p > 0, NEW v \in Nat
  PROVE  (v \div p) \div 2 = v \div (2 * p)
<1> DEFINE a == v \div p
           b == v % p
           q == a \div 2
           c == a % 2
<1>1. a \in Nat /\ b \in Nat /\ b < p /\ v = a * p + b
  BY Parted
<1> HIDE DEF a, b
<1>2. q \in Nat /\ c \in Nat /\ c < 2 /\ a = q * 2 + c
  BY <1>1, Parted
<1> HIDE DEF q, c
<1> DEFINE d == c * p + b
<1>3. c = 0 \/ c = 1
  BY <1>2
<1>4. d \in Nat /\ d < 2 * p
  BY <1>1, <1>3
<1>5. (q * 2 + c) * p = q * (2 * p) + c * p
  BY <1>1, <1>2
<1>6. v = q * (2 * p) + d
  BY <1>1, <1>2, <1>5
<1> HIDE DEF d
<1>7. (q * (2 * p) + d) \div (2 * p) = q
  BY <1>2, <1>4, Divided
<1> QED
  BY <1>6, <1>7 DEF q, a

LEMMA BitsAre ==
  ASSUME NEW v \in Nat, NEW n \in Nat
  PROVE  BitsOf(v, n) \in Seq(Bit) /\ Len(BitsOf(v, n)) = n
<1>1. ASSUME NEW i \in 1 .. n PROVE (v \div PowerOf2(n - i)) % 2 \in Bit
  <2>1. n - i \in Nat
    OBVIOUS
  <2> DEFINE p == PowerOf2(n - i)
             a == v \div p
  <2>2. p \in Nat /\ p > 0
    BY <2>1, PowerIs
  <2> HIDE DEF p
  <2>3. a \in Nat
    BY <2>2, Parted
  <2> HIDE DEF a
  <2>4. a % 2 = 0 \/ a % 2 = 1
    BY <2>3
  <2> QED
    BY <2>4 DEF a, p, Bit
<1> QED
  BY <1>1 DEF BitsOf

(* The bits of a number are its remainder.                                 *)
LEMMA NumberOfBits ==
  ASSUME NEW v \in Nat, NEW n \in Nat
  PROVE  NumberOf(BitsOf(v, n)) = v % PowerOf2(n)
<1> DEFINE s == BitsOf(v, n)
           High(k) == v \div PowerOf2(n - k)
<1>1. s \in Seq(Bit) /\ Len(s) = n /\ Len(s) \in Nat
  BY BitsAre
<1>2. \A k \in 1 .. n : s[k] = High(k) % 2
  BY DEF BitsOf
<1>20. \A k \in 0 .. n : High(k) \in Nat
  <2> TAKE k \in 0 .. n
  <2>1. n - k \in Nat
    OBVIOUS
  <2>2. PowerOf2(n - k) \in Nat /\ PowerOf2(n - k) > 0
    BY <2>1, PowerIs
  <2> QED
    BY <2>2, Parted
<1>21. \A k \in 0 .. n - 1 : High(k) = High(k + 1) \div 2
  <2> TAKE k \in 0 .. n - 1
  <2> DEFINE m == n - (k + 1)
             p == PowerOf2(m)
  <2>1. m \in Nat /\ n - k = m + 1
    OBVIOUS
  <2> HIDE DEF m
  <2>2. p \in Nat /\ p > 0 /\ PowerOf2(m + 1) = 2 * p
    BY <2>1, PowerIs
  <2> HIDE DEF p
  <2>3. (v \div p) \div 2 = v \div (2 * p)
    BY <2>2, Halved
  <2>4. High(k) = v \div (2 * p)
    BY <2>1, <2>2
  <2>5. High(k + 1) = v \div p
    BY DEF p, m
  <2> HIDE DEF High
  <2> QED
    BY <2>3, <2>4, <2>5
<1>22. High(n) = v
  <2>1. n - n = 0 /\ PowerOf2(0) = 1 /\ v \div 1 = v
    BY PowerIs
  <2> QED
    BY <2>1
<1> HIDE DEF s, High
<1>3. PICK r : Numbers(r, s) /\ NumberOf(s) = r[Len(s)]
  BY <1>1, NumberIs
<1>4. r[0] = 0 /\ \A k \in 0 .. n - 1 : r[k + 1] = 2 * r[k] + s[k + 1]
  BY <1>1, <1>3, NumbersHave
<1> DEFINE S == {k \in 0 .. n : r[k] = High(k) % PowerOf2(k)}
<1>5. 0 \in S
  <2>1. PowerOf2(0) = 1
    BY PowerIs
  <2>2. 0 \in 0 .. n
    OBVIOUS
  <2>3. High(0) % 1 = 0
    BY <1>20, <2>2
  <2> QED
    BY <1>4, <2>1, <2>2, <2>3
<1>6. ASSUME NEW k \in 0 .. n - 1, k \in S PROVE k + 1 \in S
  <2> DEFINE a == High(k + 1)
             e == a \div 2
             b == a % 2
             p == PowerOf2(k)
             d == e \div p
             c == e % p
  <2>1. k \in Nat /\ k + 1 \in 0 .. n /\ k + 1 \in 1 .. n
    OBVIOUS
  <2>2. a \in Nat
    BY <1>20, <2>1
  <2>3. p \in Nat /\ p > 0 /\ PowerOf2(k + 1) = 2 * p
    BY <2>1, PowerIs
  <2>4. e = High(k) /\ r[k] = c
    BY <1>6, <1>21
  <2>5. s[k + 1] = b
    BY <1>2, <2>1
  <2>6. r[k + 1] = 2 * r[k] + s[k + 1]
    BY <1>4
  <2> HIDE DEF a, p
  <2>7. e \in Nat /\ b \in Nat /\ b < 2 /\ a = e * 2 + b
    BY <2>2, Parted
  <2> HIDE DEF e, b
  <2>8. d \in Nat /\ c \in Nat /\ c < p /\ e = d * p + c
    BY <2>3, <2>7, Parted
  <2> HIDE DEF d, c
  <2>9. (d * p + c) * 2 + b = d * (2 * p) + (2 * c + b)
    BY <2>3, <2>7, <2>8
  <2>10. 2 * c + b \in Nat /\ 2 * c + b < 2 * p /\ 2 * p \in Nat /\ 2 * p > 0
    BY <2>3, <2>7, <2>8
  <2>11. (d * (2 * p) + (2 * c + b)) % (2 * p) = 2 * c + b
    BY <2>8, <2>10, Divided
  <2>12. a % (2 * p) = 2 * c + b
    BY <2>7, <2>8, <2>9, <2>11
  <2>13. r[k + 1] = High(k + 1) % PowerOf2(k + 1)
    BY <2>3, <2>4, <2>5, <2>6, <2>12 DEF a
  <2> QED
    BY <2>1, <2>13
<1> HIDE DEF S
<1>7. 0 .. n \subseteq S
  BY <1>5, <1>6, CountedUpTo
<1>8. n \in S
  BY <1>7
<1>9. r[n] = v % PowerOf2(n)
  BY <1>8, <1>22 DEF S
<1>10. NumberOf(s) = v % PowerOf2(n)
  BY <1>1, <1>3, <1>9
<1> QED
  BY <1>10 DEF s

-------------------------------------------------------------------------------
(* The queue of bits.                                                      *)

Lasts == [end : {"none", "front", "back"}, size : Nat, n : Nat, got : Nat, wanted : Seq(Bit)]

(* The number holds the bits there are, and what was popped last was told. *)
BitsInv ==
  /\ told \in [items : Seq(Bit), last : Lasts]
  /\ BitsKept /\ bits.size <= QueueBits /\ PopsAsPushed

LEMMA MaskedIs ==
  ASSUME NEW width \in Nat, NEW n \in 0 .. width, NEW v \in Nat
  PROVE  And(v, MaskMsb(width, width - n)) = v % PowerOf2(n)
<1> DEFINE m == width - n
           p == PowerOf2(n)
<1>1. m \in Nat /\ width - m = n /\ ~ (m < 0)
  OBVIOUS
<1>2. p \in Nat /\ p > 0 /\ PowerOf2(0) = 1
  BY PowerIs
<1>3. CASE n = 0
  <2>1. m >= width
    BY <1>3
  <2>2. MaskMsb(width, m) = 0
    BY <2>1 DEF MaskMsb
  <2>3. And(v, 0) = v % 1
    BY DEF And
  <2> QED
    BY <1>2, <1>3, <2>2, <2>3
<1>4. CASE n # 0
  <2>1. ~ (m >= width)
    BY <1>4
  <2> HIDE DEF m
  <2>2. MaskMsb(width, m) = p - 1
    BY <1>1, <2>1 DEF MaskMsb
  <2> HIDE DEF p
  <2>3. (p - 1) + 1 = p
    BY <1>2
  <2>4. And(v, p - 1) = v % p
    BY <2>3 DEF And
  <2> QED
    BY <2>2, <2>4 DEF p, m
<1> QED
  BY <1>3, <1>4

(* The oldest bits are those on top of the newest.                         *)
LEMMA PartsOfNumber ==
  ASSUME NEW items \in Seq(Bit), NEW i \in 0 .. Len(items)
  PROVE  /\ SubSeq(items, 1, i) \in Seq(Bit) /\ Len(SubSeq(items, 1, i)) = i
         /\ SubSeq(items, i + 1, Len(items)) \in Seq(Bit)
         /\ Len(SubSeq(items, i + 1, Len(items))) = Len(items) - i
         /\ NumberOf(items) = NumberOf(SubSeq(items, 1, i)) * PowerOf2(Len(items) - i)
                               + NumberOf(SubSeq(items, i + 1, Len(items)))
         /\ NumberOf(SubSeq(items, 1, i)) \in Nat /\ NumberOf(SubSeq(items, 1, i)) < PowerOf2(i)
         /\ NumberOf(SubSeq(items, i + 1, Len(items))) \in Nat
         /\ NumberOf(SubSeq(items, i + 1, Len(items))) < PowerOf2(Len(items) - i)
<1> DEFINE a == SubSeq(items, 1, i)
           b == SubSeq(items, i + 1, Len(items))
           n == Len(items)
<1>1. a \in Seq(Bit) /\ Len(a) = i
  OBVIOUS
<1>2. b \in Seq(Bit) /\ Len(b) = n - i
  OBVIOUS
<1>3. a \o b = items
  <2> DEFINE first == 1
  <2>1. first \in 1 .. Len(items) + 1 /\ i \in first - 1 .. Len(items) /\ n \in i .. Len(items)
    OBVIOUS
  <2> HIDE DEF first, n
  <2>4. SubSeq(items, first, i) \o SubSeq(items, i + 1, n) = SubSeq(items, first, n)
    BY <2>1, ConcatAdjacentSubSeq
  <2>2. a \o b = SubSeq(items, 1, n)
    BY <2>4 DEF first, n
  <2>3. SubSeq(items, 1, n) = items
    BY SubSeqFull DEF n
  <2> QED
    BY <2>2, <2>3
<1> HIDE DEF a, b, n
<1>4. NumberOf(items) = NumberOf(a) * PowerOf2(n - i) + NumberOf(b)
  BY <1>1, <1>2, <1>3, NumberJoins
<1>5. NumberOf(a) \in Nat /\ NumberOf(a) < PowerOf2(i)
  BY <1>1, NumberFits
<1>6. NumberOf(b) \in Nat /\ NumberOf(b) < PowerOf2(n - i)
  BY <1>2, NumberFits
<1> QED
  BY <1>1, <1>2, <1>4, <1>5, <1>6 DEF a, b, n

(* A number of a few bits is one of more.                                  *)
LEMMA FitsWider ==
  ASSUME NEW v \in Nat, NEW n \in Nat, NEW width \in Nat, n <= width, v < PowerOf2(n)
  PROVE  v % PowerOf2(width) = v
<1>1. PowerOf2(n) \in Nat /\ PowerOf2(width) \in Nat /\ PowerOf2(n) <= PowerOf2(width)
  BY PowerIs, PowerGrows
<1>2. v < PowerOf2(width)
  BY <1>1
<1> QED
  BY <1>1, <1>2, FitsIn

LEMMA BitsBegin ==
  ASSUME BitsInit
  PROVE  BitsInv
<1> USE BitQueueAssumption
<1>1. NoPop \in Lasts /\ NoPop.got = 0 /\ NoPop.wanted = <<>>
  BY DEF NoPop, Lasts
<1>2. CASE bits = [queue |-> 0, size |-> 0] /\ told = [items |-> <<>>, last |-> NoPop]
  <2>1. told \in [items : Seq(Bit), last : Lasts]
    BY <1>1, <1>2
  <2>2. told.items = <<>> /\ told.last = NoPop /\ Len(told.items) = 0 /\ bits.size = 0 /\ bits.queue = 0
    BY <1>2
  <2>3. BitsKept /\ bits.size <= QueueBits
    BY <2>2, NumberOfNone DEF BitsKept
  <2>4. PopsAsPushed
    BY <1>1, <2>2, NumberOfNone DEF PopsAsPushed
  <2> QED
    BY <2>1, <2>3, <2>4 DEF BitsInv
<1>3. ASSUME NEW v \in 0 .. PowerOf2(QueueBits) - 1, bits = [queue |-> v, size |-> QueueBits],
             told = [items |-> BitsOf(v, QueueBits), last |-> NoPop]
      PROVE  BitsInv
  <2>0. v \in Nat
    OBVIOUS
  <2>1. BitsOf(v, QueueBits) \in Seq(Bit) /\ Len(BitsOf(v, QueueBits)) = QueueBits
    BY <2>0, BitsAre
  <2>2. PowerOf2(QueueBits) \in Nat /\ v < PowerOf2(QueueBits)
    BY PowerIs
  <2>3. NumberOf(BitsOf(v, QueueBits)) = v
    BY <2>0, <2>2, NumberOfBits, FitsIn
  <2>4. told.items = BitsOf(v, QueueBits) /\ told.last = NoPop /\ bits.size = QueueBits /\ bits.queue = v
    BY <1>3
  <2>5. told \in [items : Seq(Bit), last : Lasts]
    BY <1>1, <1>3, <2>1
  <2>6. BitsKept /\ bits.size <= QueueBits
    BY <2>1, <2>3, <2>4 DEF BitsKept
  <2>7. PopsAsPushed
    BY <1>1, <2>4, NumberOfNone DEF PopsAsPushed
  <2> QED
    BY <2>5, <2>6, <2>7 DEF BitsInv
<1> QED
  BY <1>2, <1>3 DEF BitsInit

LEMMA BitsPush ==
  ASSUME BitsInv, NEW n \in 0 .. QueueBits, NEW value \in 0 .. PowerOf2(ValueBits) - 1, PushBits(value, n)
  PROVE  BitsInv'
<1> USE BitQueueAssumption
<1> DEFINE items == told.items
           masked == And(value, MaskMsb(ValueBits, ValueBits - n))
           more == IF n <= ValueBits THEN BitsOf(value, n) ELSE BitsOf(0, n)
           last == told.last
           kept == items \o more
<1>1. n \in Nat /\ value \in Nat /\ 0 \in Nat /\ QueueBits \in Nat
  OBVIOUS
<1>2. more \in Seq(Bit) /\ Len(more) = n
  BY <1>1, BitsAre
<1>3. NumberOf(more) = masked
  <2>1. CASE n <= ValueBits
    <3>1. n \in 0 .. ValueBits
      BY <2>1
    <3> QED
      BY <1>1, <2>1, <3>1, MaskedIs, NumberOfBits
  <2>2. CASE ~ (n <= ValueBits)
    <3>1. ValueBits - n < 0
      BY <2>2
    <3>2. masked = value % 1
      BY <3>1 DEF And, MaskMsb
    <3>3. value % 1 = 0
      BY <1>1
    <3>4. PowerOf2(n) \in Nat /\ 0 < PowerOf2(n)
      BY <1>1, PowerIs
    <3>5. 0 % PowerOf2(n) = 0
      BY <1>1, <3>4, FitsIn
    <3>6. NumberOf(BitsOf(0, n)) = 0 % PowerOf2(n)
      BY <1>1, NumberOfBits
    <3> QED
      BY <2>2, <3>2, <3>3, <3>5, <3>6
  <2> QED
    BY <2>1, <2>2
<1>4. items \in Seq(Bit) /\ last \in Lasts /\ bits.size = Len(items) /\ bits.queue = NumberOf(items)
  BY DEF BitsInv, BitsKept
<1>5. /\ QueueBits - bits.size >= n
      /\ bits' = [queue |-> ToQueue(bits.queue * PowerOf2(n) + masked), size |-> bits.size + n]
      /\ told' = [told EXCEPT !.items = kept]
  BY DEF PushBits
<1>6. told = [items |-> items, last |-> last]
  BY DEF BitsInv
<1> HIDE DEF masked, more, items, last
<1>7. kept \in Seq(Bit) /\ Len(kept) = Len(items) + n
  BY <1>2, <1>4
<1>8. NumberOf(kept) = NumberOf(items) * PowerOf2(n) + masked
  BY <1>2, <1>3, <1>4, NumberJoins
<1> HIDE DEF kept
<1>9. told' = [items |-> kept, last |-> last]
  BY <1>5, <1>6
<1>10. NumberOf(kept) \in Nat /\ NumberOf(kept) < PowerOf2(Len(kept))
  BY <1>7, NumberFits
<1>11. Len(kept) \in Nat /\ Len(kept) <= QueueBits /\ bits.size + n = Len(kept)
  BY <1>1, <1>4, <1>5, <1>7
<1>12. ToQueue(NumberOf(kept)) = NumberOf(kept)
  BY <1>1, <1>10, <1>11, FitsWider DEF ToQueue
<1>13. bits'.queue = NumberOf(kept) /\ bits'.size = Len(kept)
  BY <1>4, <1>5, <1>8, <1>11, <1>12
<1>14. BitsKept' /\ (bits.size <= QueueBits)'
  BY <1>9, <1>11, <1>13 DEF BitsKept
<1>15. PopsAsPushed'
  <2>1. told'.last = told.last
    BY <1>6, <1>9
  <2> QED
    BY <2>1 DEF BitsInv, PopsAsPushed
<1>16. (told \in [items : Seq(Bit), last : Lasts])'
  BY <1>4, <1>7, <1>9
<1> QED
  BY <1>14, <1>15, <1>16 DEF BitsInv

(* A pop that leaves the number of what it leaves, and gives what it is    *)
(* told to.                                                                *)
LEMMA Popped ==
  ASSUME BitsInv, NEW end \in {"front", "back"}, NEW n \in Nat, NEW got \in Nat, NEW wanted \in Seq(Bit), NEW left \in Seq(Bit),
         Took(end, n, got, wanted, left),
         bits' = [queue |-> NumberOf(left), size |-> Len(left)], Len(left) <= QueueBits,
         n <= ValueBits /\ (end = "back" => bits.size <= ValueBits) => got = NumberOf(wanted)
  PROVE  BitsInv'
<1> DEFINE p == [end |-> end, size |-> bits.size, n |-> n, got |-> got, wanted |-> wanted]
<1>1. told' = [items |-> left, last |-> p]
  BY DEF Took
<1>2. bits.size \in Nat
  BY DEF BitsInv, BitsKept
<1>3. p \in Lasts
  BY <1>2 DEF Lasts
<1>4. p.n = n /\ p.end = end /\ p.size = bits.size /\ p.got = got /\ p.wanted = wanted
  OBVIOUS
<1> HIDE DEF p
<1>5. told'.items = left /\ told'.last = p /\ told' \in [items : Seq(Bit), last : Lasts]
  BY <1>1, <1>3
<1>6. BitsKept' /\ (bits.size <= QueueBits)'
  BY <1>5 DEF BitsKept
<1>7. PopsAsPushed'
  BY <1>4, <1>5 DEF PopsAsPushed
<1> QED
  BY <1>5, <1>6, <1>7 DEF BitsInv

LEMMA BitsPopFront ==
  ASSUME BitsInv, NEW n \in 0 .. QueueBits, PopFrontBits(n)
  PROVE  BitsInv'
<1> USE BitQueueAssumption
<1> DEFINE items == told.items
           size == bits.size
           i == size - n
           a == SubSeq(items, 1, i)
           b == SubSeq(items, i + 1, Len(items))
           got == ToValue(And(bits.queue, MaskMsb(QueueBits, QueueBits - n)))
<1>1. items \in Seq(Bit) /\ size = Len(items) /\ bits.queue = NumberOf(items) /\ size <= QueueBits
  BY DEF BitsInv, BitsKept
<1>2. /\ size >= n
      /\ bits' = [queue |-> bits.queue \div PowerOf2(n), size |-> i]
      /\ Took("front", n, got, Newest(n), Oldest(i))
  BY DEF PopFrontBits
<1>3. size \in Nat /\ n \in Nat /\ i \in 0 .. Len(items) /\ Len(items) - i = n /\ n <= QueueBits /\ i <= QueueBits
  BY <1>1, <1>2
<1>4. Oldest(i) = a
  BY DEF Oldest
<1>5. Newest(n) = b
  <2>1. Len(items) - n + 1 = i + 1
    BY <1>1, <1>3
  <2> QED
    BY <2>1 DEF Newest
<1> HIDE DEF items, i, got, size
<1>60. /\ a \in Seq(Bit) /\ Len(a) = i /\ b \in Seq(Bit) /\ Len(b) = Len(items) - i
       /\ NumberOf(items) = NumberOf(a) * PowerOf2(Len(items) - i) + NumberOf(b)
       /\ NumberOf(a) \in Nat /\ NumberOf(a) < PowerOf2(i)
       /\ NumberOf(b) \in Nat /\ NumberOf(b) < PowerOf2(Len(items) - i)
  BY <1>1, <1>3, PartsOfNumber
<1> HIDE DEF a, b
<1>6. /\ a \in Seq(Bit) /\ Len(a) = i /\ b \in Seq(Bit) /\ Len(b) = n
      /\ NumberOf(items) = NumberOf(a) * PowerOf2(n) + NumberOf(b)
      /\ NumberOf(a) \in Nat
      /\ NumberOf(b) \in Nat /\ NumberOf(b) < PowerOf2(n)
  BY <1>3, <1>60
<1>7. PowerOf2(n) \in Nat /\ PowerOf2(n) > 0
  BY <1>3, PowerIs
<1>8. NumberOf(items) \div PowerOf2(n) = NumberOf(a) /\ NumberOf(items) % PowerOf2(n) = NumberOf(b)
  <2> DEFINE x == NumberOf(a)
             y == NumberOf(b)
             p == PowerOf2(n)
  <2>1. p \in Nat /\ p > 0 /\ x \in Nat /\ y \in Nat /\ y < p /\ NumberOf(items) = x * p + y
    BY <1>6, <1>7
  <2> HIDE DEF x, y, p
  <2>2. NumberOf(items) \div p = x /\ NumberOf(items) % p = y
    BY <2>1, Divided
  <2> QED
    BY <2>2 DEF x, y, p
<1>9. bits.queue \in Nat
  BY <1>1, NumberFits
<1>10. got = NumberOf(b) % PowerOf2(ValueBits)
  BY <1>1, <1>3, <1>8, <1>9, MaskedIs DEF got, ToValue
<1>11. PowerOf2(ValueBits) \in Nat /\ PowerOf2(ValueBits) > 0
  BY PowerIs
<1>12. got \in Nat
  BY <1>6, <1>10, <1>11, Parted
<1>13. n <= ValueBits => got = NumberOf(b)
  BY <1>3, <1>6, <1>10, FitsWider
<1>14. bits' = [queue |-> NumberOf(a), size |-> Len(a)]
  BY <1>1, <1>2, <1>6, <1>8
<1>15. Took("front", n, got, b, a)
  BY <1>2, <1>4, <1>5
<1> DEFINE end == "front"
<1>16. end \in {"front", "back"} /\ end # "back"
  OBVIOUS
<1>17. Took(end, n, got, b, a)
  BY <1>15
<1> HIDE DEF end
<1>18. Len(a) <= QueueBits
  BY <1>3, <1>6
<1> QED
  BY <1>3, <1>6, <1>12, <1>13, <1>14, <1>16, <1>17, <1>18, Popped

LEMMA BitsPopBack ==
  ASSUME BitsInv, NEW n \in 0 .. QueueBits, PopBackBits(n)
  PROVE  BitsInv'
<1> USE BitQueueAssumption
<1> DEFINE items == told.items
           size == bits.size
           low == size - n
           a == SubSeq(items, 1, n)
           b == SubSeq(items, n + 1, Len(items))
           masked == ((bits.queue \div PowerOf2(low)) % PowerOf2(n)) * PowerOf2(low)
           got == ToValue(masked) \div PowerOf2(low)
<1>1. items \in Seq(Bit) /\ size = Len(items) /\ bits.queue = NumberOf(items) /\ size <= QueueBits
  BY DEF BitsInv, BitsKept
<1>2. /\ size >= n
      /\ bits' = [queue |-> bits.queue - masked, size |-> low]
      /\ Took("back", n, got, Oldest(n), Newest(low))
  BY DEF PopBackBits
<1>3. /\ size \in Nat /\ n \in Nat /\ n \in 0 .. Len(items) /\ low \in Nat /\ Len(items) - n = low
      /\ low <= QueueBits /\ n + low = size
  BY <1>1, <1>2
<1>4. Oldest(n) = a
  BY DEF Oldest
<1>5. Newest(low) = b
  <2>1. Len(items) - low + 1 = n + 1
    BY <1>1, <1>3
  <2> QED
    BY <2>1 DEF Newest
<1> HIDE DEF items, low, got, size
<1>60. /\ a \in Seq(Bit) /\ Len(a) = n /\ b \in Seq(Bit) /\ Len(b) = Len(items) - n
       /\ NumberOf(items) = NumberOf(a) * PowerOf2(Len(items) - n) + NumberOf(b)
       /\ NumberOf(a) \in Nat /\ NumberOf(a) < PowerOf2(n)
       /\ NumberOf(b) \in Nat /\ NumberOf(b) < PowerOf2(Len(items) - n)
  BY <1>1, <1>3, PartsOfNumber
<1> HIDE DEF a, b
<1>6. /\ a \in Seq(Bit) /\ Len(a) = n /\ b \in Seq(Bit) /\ Len(b) = low
      /\ NumberOf(items) = NumberOf(a) * PowerOf2(low) + NumberOf(b)
      /\ NumberOf(a) \in Nat /\ NumberOf(a) < PowerOf2(n)
      /\ NumberOf(b) \in Nat /\ NumberOf(b) < PowerOf2(low)
  BY <1>3, <1>60
<1> DEFINE x == NumberOf(a)
           y == NumberOf(b)
           p == PowerOf2(low)
           v == PowerOf2(ValueBits)
<1>7. p \in Nat /\ p > 0 /\ v \in Nat /\ v > 0 /\ PowerOf2(n) \in Nat /\ PowerOf2(n) > 0
  BY <1>3, PowerIs
<1>8. NumberOf(items) \div p = x
  BY <1>6, <1>7, Divided
<1>9. x % PowerOf2(n) = x
  BY <1>6, <1>7, FitsIn
<1>10. masked = x * p
  BY <1>1, <1>8, <1>9
<1>11. NumberOf(items) = x * p + y /\ x \in Nat /\ y \in Nat
  BY <1>6
<1>12. got = ((x * p) % v) \div p
  BY <1>10 DEF got, ToValue
<1>20. bits.queue - masked = y
  <2> HIDE DEF x, y, p, masked
  <2>1. x * p \in Nat
    BY <1>7, <1>11
  <2> QED
    BY <1>1, <1>10, <1>11, <2>1
<1> HIDE DEF masked
<1>13. got \in Nat
  <2> HIDE DEF x, y, p, v
  <2>1. x * p \in Nat
    BY <1>7, <1>11
  <2>2. (x * p) % v \in Nat
    BY <1>7, <2>1, Parted
  <2> QED
    BY <1>7, <1>12, <2>2, Parted
<1>14. size <= ValueBits => got = x
  <2> SUFFICES ASSUME size <= ValueBits PROVE got = x
    OBVIOUS
  <2>1. NumberOf(items) < PowerOf2(size) /\ NumberOf(items) \in Nat
    BY <1>1, NumberFits
  <2>2. PowerOf2(size) \in Nat /\ PowerOf2(size) <= v
    BY <1>3, PowerIs, PowerGrows
  <2> HIDE DEF x, y, p, v
  <2>3. x * p \in Nat /\ x * p < v
    BY <1>7, <1>11, <2>1, <2>2
  <2>4. (x * p) % v = x * p
    BY <1>7, <2>3, FitsIn
  <2>5. x * p + 0 = x * p /\ 0 < p /\ 0 \in Nat
    BY <1>7, <2>3
  <2>6. (x * p) \div p = x
    BY <1>7, <1>11, <2>5, Divided
  <2> QED
    BY <1>12, <2>4, <2>6
<1>15. bits' = [queue |-> NumberOf(b), size |-> Len(b)]
  BY <1>2, <1>6, <1>20
<1>16. Took("back", n, got, a, b)
  BY <1>2, <1>4, <1>5
<1> DEFINE end == "back"
<1>17. end \in {"front", "back"}
  OBVIOUS
<1>18. Took(end, n, got, a, b)
  BY <1>16
<1>19. (end = "back" => bits.size <= ValueBits) => got = NumberOf(a)
  BY <1>14 DEF size
<1> HIDE DEF end
<1>21. Len(b) <= QueueBits
  BY <1>3, <1>6
<1> QED
  BY <1>3, <1>6, <1>13, <1>15, <1>17, <1>18, <1>19, <1>21, Popped

LEMMA BitsPopAll ==
  ASSUME BitsInv, PopAllBits
  PROVE  BitsInv'
<1> USE BitQueueAssumption
<1> DEFINE items == told.items
           none == <<>>
           end == "front"
           got == ToValue(bits.queue)
           n == bits.size
<1>1. items \in Seq(Bit) /\ n = Len(items) /\ bits.queue = NumberOf(items) /\ n <= QueueBits
  BY DEF BitsInv, BitsKept
<1>2. n \in Nat
  BY <1>1
<1>3. none \in Seq(Bit) /\ Len(none) = 0 /\ NumberOf(none) = 0
  BY NumberOfNone
<1>4. bits' = [queue |-> 0, size |-> 0] /\ Took(end, n, got, items, none)
  BY DEF PopAllBits
<1>5. end \in {"front", "back"}
  OBVIOUS
<1>6. NumberOf(items) \in Nat /\ NumberOf(items) < PowerOf2(n)
  BY <1>1, NumberFits
<1> HIDE DEF items, none, end, n
<1>7. PowerOf2(ValueBits) \in Nat /\ PowerOf2(ValueBits) > 0
  BY PowerIs
<1>8. got = NumberOf(items) % PowerOf2(ValueBits)
  BY <1>1 DEF ToValue
<1> HIDE DEF got
<1>9. got \in Nat
  BY <1>6, <1>7, <1>8, Parted
<1>10. n <= ValueBits => got = NumberOf(items)
  BY <1>2, <1>6, <1>8, FitsWider
<1>11. bits' = [queue |-> NumberOf(none), size |-> Len(none)]
  BY <1>3, <1>4
<1>12. Len(none) <= QueueBits
  BY <1>3
<1> QED
  BY <1>1, <1>2, <1>3, <1>4, <1>5, <1>9, <1>10, <1>11, <1>12, Popped

LEMMA BitsClear ==
  ASSUME BitsInv, ClearBits
  PROVE  BitsInv'
<1> USE BitQueueAssumption
<1>1. told = [items |-> told.items, last |-> told.last] /\ told.last \in Lasts
  BY DEF BitsInv
<1>2. told' = [items |-> <<>>, last |-> told.last] /\ bits' = [queue |-> 0, size |-> 0]
  BY <1>1 DEF ClearBits
<1>3. told'.items = <<>> /\ told'.last = told.last /\ bits'.queue = 0 /\ bits'.size = 0
  BY <1>2
<1>4. told' \in [items : Seq(Bit), last : Lasts]
  BY <1>1, <1>2
<1>5. BitsKept' /\ (bits.size <= QueueBits)'
  BY <1>3, NumberOfNone DEF BitsKept
<1>6. PopsAsPushed'
  BY <1>3 DEF BitsInv, PopsAsPushed
<1> QED
  BY <1>4, <1>5, <1>6 DEF BitsInv

LEMMA BitsStep ==
  ASSUME BitsInv, BitsNext
  PROVE  BitsInv'
<1> SUFFICES ASSUME BitsNext PROVE BitsInv'
  OBVIOUS
<1>1. CASE PopAllBits
  BY <1>1, BitsPopAll
<1>2. CASE ClearBits
  BY <1>2, BitsClear
<1>3. ASSUME NEW n \in 0 .. QueueBits, PopFrontBits(n) PROVE BitsInv'
  BY <1>3, BitsPopFront
<1>4. ASSUME NEW n \in 0 .. QueueBits, PopBackBits(n) PROVE BitsInv'
  BY <1>4, BitsPopBack
<1>5. ASSUME NEW n \in 0 .. QueueBits, NEW v \in 0 .. PowerOf2(ValueBits) - 1, PushBits(v, n) PROVE BitsInv'
  BY <1>5, BitsPush
<1> QED
  BY <1>1, <1>2, <1>3, <1>4, <1>5 DEF BitsNext

LEMMA BitsRest ==
  ASSUME BitsInv, UNCHANGED bitVars
  PROVE  BitsInv'
<1>1. bits' = bits /\ told' = told
  BY DEF bitVars
<1> QED
  BY <1>1 DEF BitsInv, BitsKept, PopsAsPushed

-------------------------------------------------------------------------------
(* Open addressing.                                                        *)

(* As many as there are in S are in T, if each of T is one of S in turn.   *)
LEMMA SameCount ==
  ASSUME NEW S, IsFiniteSet(S), NEW T, NEW f \in [S -> T],
         \A x, y \in S : f[x] = f[y] => x = y, \A z \in T : \E x \in S : f[x] = z
  PROVE  IsFiniteSet(T) /\ Cardinality(T) = Cardinality(S)
<1>1. f \in Bijection(S, T)
  BY DEF Bijection, Injection, Surjection, IsInjective
<1>2. ExistsBijection(S, T)
  BY <1>1 DEF ExistsBijection
<1> QED
  BY <1>2, FS_Bijection

(* Open addressing: t is what the cells 0 .. c - 1 hold, e where there is  *)
(* nothing. From cell h onwards and around, cell n is so far away.         *)
Ahead(c, h, n) == IF n >= h THEN n - h ELSE n - h + c

(* The first cells from h that are empty or hold x.                        *)
FirstFor(t, c, h, x, e) ==
  {n \in 0 .. c - 1 : t[n] \in {e, x} /\ \A m \in 0 .. c - 1 : t[m] \in {e, x} => Ahead(c, h, n) <= Ahead(c, h, m)}

(* What is there is reached from its home.                                 *)
Reached(t, c, home, e) ==
  \A p, m \in 0 .. c - 1 :
    t[p] # e /\ Ahead(c, home[t[p]], m) < Ahead(c, home[t[p]], p) => t[m] \notin {e, t[p]}
Housed(t, c, home, e) == \A p \in 0 .. c - 1 : t[p] # e => home[t[p]] \in 0 .. c - 1

LEMMA AheadIs ==
  ASSUME NEW c \in Nat, NEW h \in 0 .. c - 1, NEW n \in 0 .. c - 1
  PROVE  /\ Ahead(c, h, n) \in Nat /\ Ahead(c, h, n) < c
         /\ \A m \in 0 .. c - 1 : Ahead(c, h, m) = Ahead(c, h, n) => m = n
  BY DEF Ahead

LEMMA RemainderOf ==
  ASSUME NEW c \in Nat, NEW x \in Int, NEW r \in Nat, r < c, x = r \/ x = r + c \/ x = r - c
  PROVE  x % c = r
<1>0. \A y \in Int, p \in Nat : p > 0 => y % p \in Nat /\ y % p < p /\ y = p * (y \div p) + (y % p) /\ y \div p \in Int
  OBVIOUS
<1>1. x % c \in Nat /\ x % c < c /\ x = c * (x \div c) + (x % c) /\ x \div c \in Int
  BY <1>0
<1> DEFINE q == x \div c
           s == x % c
<1>2. PICK j \in {0, 1, -1} : x = r + c * j
  <2>1. c * 0 = 0 /\ c * 1 = c /\ c * (-1) = -c
    OBVIOUS
  <2>2. x = r + c * 0 \/ x = r + c * 1 \/ x = r + c * (-1)
    BY <2>1
  <2> QED
    BY <2>2
<1> HIDE DEF q, s
<1>3. s - r = c * (j - q)
  BY <1>1, <1>2 DEF q, s
<1>4. q \in Int /\ s \in Nat /\ s < c
  BY <1>1 DEF q, s
<1> DEFINE d == j - q
<1>5. d \in Int
  BY <1>4
<1>6. CASE d = 0
  BY <1>3, <1>4, <1>6 DEF s
<1> HIDE DEF d
<1>7. CASE d >= 1
  <2>1. c * d >= c
    BY <1>5, <1>7
  <2> QED
    BY <1>3, <1>4, <2>1 DEF d
<1>8. CASE d <= -1
  <2>1. c * d <= -c
    BY <1>5, <1>8
  <2> QED
    BY <1>3, <1>4, <2>1 DEF d
<1> QED
  BY <1>5, <1>6, <1>7, <1>8

(* Around, there and back.                                                 *)
LEMMA AheadAround ==
  ASSUME NEW c \in Nat, NEW h \in 0 .. c - 1, NEW n \in 0 .. c - 1
  PROVE  /\ (n - h) % c = Ahead(c, h, n)
         /\ (h + Ahead(c, h, n)) % c = n
         /\ (h + n) % c \in 0 .. c - 1 /\ Ahead(c, h, (h + n) % c) = n
<1>1. c \in Nat /\ Ahead(c, h, n) \in Nat /\ Ahead(c, h, n) < c
  BY AheadIs
<1>2. (n - h) % c = Ahead(c, h, n)
  <2> DEFINE r == Ahead(c, h, n)
             x == n - h
  <2>1. x \in Int /\ (x = r \/ x = r + c \/ x = r - c)
    BY DEF Ahead
  <2> HIDE DEF r, x
  <2>2. x % c = r
    BY <1>1, <2>1, RemainderOf DEF r
  <2> QED
    BY <2>2 DEF x, r
<1>3. (h + Ahead(c, h, n)) % c = n
  <2> DEFINE x == h + Ahead(c, h, n)
  <2>1. x \in Int /\ (x = n \/ x = n + c \/ x = n - c)
    BY DEF Ahead
  <2>2. n \in Nat /\ n < c
    OBVIOUS
  <2> HIDE DEF x
  <2>3. x % c = n
    BY <2>1, <2>2, RemainderOf
  <2> QED
    BY <2>3 DEF x
<1>4. (h + n) % c \in 0 .. c - 1 /\ Ahead(c, h, (h + n) % c) = n
  <2> DEFINE x == h + n
             r == IF x < c THEN x ELSE x - c
  <2>1. x \in Int /\ (x = r \/ x = r + c \/ x = r - c) /\ r \in Nat /\ r < c
    OBVIOUS
  <2>2. Ahead(c, h, r) = n
    BY DEF Ahead
  <2> HIDE DEF x, r
  <2>3. x % c = r
    BY <2>1, RemainderOf
  <2> QED
    BY <2>1, <2>2, <2>3 DEF x
<1> QED
  BY <1>2, <1>3, <1>4

LEMMA FirstOnly ==
  ASSUME NEW c \in Nat, NEW h \in 0 .. c - 1, NEW t, NEW x, NEW e,
         NEW m \in FirstFor(t, c, h, x, e), NEW n \in FirstFor(t, c, h, x, e)
  PROVE  m = n
<1>1. m \in 0 .. c - 1 /\ n \in 0 .. c - 1
  BY DEF FirstFor
<1>2. Ahead(c, h, m) <= Ahead(c, h, n) /\ Ahead(c, h, n) <= Ahead(c, h, m)
  BY <1>1 DEF FirstFor
<1>3. Ahead(c, h, m) \in Nat /\ Ahead(c, h, n) \in Nat
  BY <1>1, AheadIs
<1>4. Ahead(c, h, m) = Ahead(c, h, n)
  BY <1>2, <1>3
<1> QED
  BY <1>1, <1>4, AheadIs

LEMMA FirstThere ==
  ASSUME NEW c \in Nat, NEW h \in 0 .. c - 1, NEW t, NEW x, NEW e, NEW p \in 0 .. c - 1, t[p] \in {e, x}
  PROVE  FirstFor(t, c, h, x, e) # {}
<1> DEFINE here == {n \in 0 .. c - 1 : t[n] \in {e, x}}
           S == {Ahead(c, h, n) : n \in here}
<1>1. S \in SUBSET Nat /\ S # {}
  <2>1. \A n \in 0 .. c - 1 : Ahead(c, h, n) \in Nat
    BY AheadIs
  <2> QED
    BY <2>1
<1>2. PICK d \in S : \A k \in S : d <= k
  <2> HIDE DEF S
  <2> QED
    BY <1>1, LeastNatural
<1>3. PICK n \in here : d = Ahead(c, h, n)
  OBVIOUS
<1>4. \A m \in 0 .. c - 1 : t[m] \in {e, x} => Ahead(c, h, n) <= Ahead(c, h, m)
  BY <1>2, <1>3
<1>5. n \in FirstFor(t, c, h, x, e)
  BY <1>4 DEF FirstFor
<1> QED
  BY <1>5

LEMMA ReachedOnce ==
  ASSUME NEW c \in Nat, NEW t, NEW home, NEW e, Reached(t, c, home, e), Housed(t, c, home, e),
         NEW p \in 0 .. c - 1, NEW q \in 0 .. c - 1, t[p] # e, t[q] = t[p]
  PROVE  p = q
<1> DEFINE h == home[t[p]]
<1>1. h \in 0 .. c - 1
  BY DEF Housed
<1>2. Ahead(c, h, p) \in Nat /\ Ahead(c, h, q) \in Nat
  BY <1>1, AheadIs
<1>3. ~(Ahead(c, h, p) < Ahead(c, h, q)) /\ ~(Ahead(c, h, q) < Ahead(c, h, p))
  BY DEF Reached
<1>4. Ahead(c, h, p) = Ahead(c, h, q)
  BY <1>2, <1>3
<1> QED
  BY <1>1, <1>4, AheadIs

LEMMA ReachedFirst ==
  ASSUME NEW c \in Nat, NEW t, NEW home, NEW e, Reached(t, c, home, e), Housed(t, c, home, e),
         NEW p \in 0 .. c - 1, t[p] # e
  PROVE  FirstFor(t, c, home[t[p]], t[p], e) = {p}
<1> DEFINE h == home[t[p]]
<1>1. h \in 0 .. c - 1
  BY DEF Housed
<1>2. \A m \in 0 .. c - 1 : Ahead(c, h, m) \in Nat
  BY <1>1, AheadIs
<1>3. p \in FirstFor(t, c, h, t[p], e)
  <2>1. ASSUME NEW m \in 0 .. c - 1, t[m] \in {e, t[p]} PROVE Ahead(c, h, p) <= Ahead(c, h, m)
    <3>1. ~(Ahead(c, h, m) < Ahead(c, h, p))
      BY <2>1 DEF Reached
    <3> QED
      BY <1>2, <3>1
  <2> QED
    BY <2>1 DEF FirstFor
<1>4. \A n \in FirstFor(t, c, h, t[p], e) : n = p
  BY <1>1, <1>3, FirstOnly
<1> QED
  BY <1>3, <1>4

(* A key that is put where it is looked for is reached, as are the others. *)
LEMMA ReachedFill ==
  ASSUME NEW c \in Nat, NEW t, NEW home, NEW e, Reached(t, c, home, e), Housed(t, c, home, e),
         NEW x, x # e, home[x] \in 0 .. c - 1, NEW n \in FirstFor(t, c, home[x], x, e), NEW u,
         u[n] = x, \A m \in 0 .. c - 1 : m # n => u[m] = t[m]
  PROVE  Reached(u, c, home, e) /\ Housed(u, c, home, e)
<1>1. n \in 0 .. c - 1 /\ t[n] \in {e, x}
  BY DEF FirstFor
<1>2. ASSUME NEW p \in 0 .. c - 1, NEW m \in 0 .. c - 1, u[p] # e,
             Ahead(c, home[u[p]], m) < Ahead(c, home[u[p]], p)
      PROVE  u[m] \notin {e, u[p]}
  <2>1. CASE p = n
    <3>1. Ahead(c, home[x], n) \in Nat /\ Ahead(c, home[x], m) \in Nat
      BY <1>1, AheadIs
    <3>2. t[m] \notin {e, x} /\ m # n
      BY <1>1, <1>2, <2>1, <3>1 DEF FirstFor
    <3> QED
      BY <2>1, <3>2
  <2>2. CASE p # n
    <3>1. u[p] = t[p] /\ t[m] \notin {e, t[p]}
      BY <1>2, <2>2 DEF Reached
    <3>2. CASE m # n
      BY <3>1, <3>2
    <3>3. CASE m = n
      BY <1>1, <3>1, <3>3
    <3> QED
      BY <3>2, <3>3
  <2> QED
    BY <2>1, <2>2
<1> QED
  BY <1>1, <1>2 DEF Reached, Housed

(* A cell that is emptied leaves the others reached if none was pushed     *)
(* beyond it.                                                              *)
LEMMA ReachedEmpty ==
  ASSUME NEW c \in Nat, NEW t, NEW home, NEW e, Reached(t, c, home, e), Housed(t, c, home, e),
         NEW n \in 0 .. c - 1,
         \A p \in 0 .. c - 1 : t[p] # e /\ p # n => ~(Ahead(c, home[t[p]], n) < Ahead(c, home[t[p]], p)),
         NEW u, u[n] = e, \A m \in 0 .. c - 1 : m # n => u[m] = t[m]
  PROVE  Reached(u, c, home, e) /\ Housed(u, c, home, e)
  BY DEF Reached, Housed

(* Where a key was looked for it, or nothing, is now: there it is looked   *)
(* for again.                                                              *)
LEMMA FirstAfter ==
  ASSUME NEW c \in Nat, NEW h \in 0 .. c - 1, NEW t, NEW x, NEW e, NEW n \in FirstFor(t, c, h, x, e),
         NEW u, u[n] \in {e, x}, \A m \in 0 .. c - 1 : m # n => u[m] = t[m]
  PROVE  FirstFor(u, c, h, x, e) = {n}
<1>1. n \in 0 .. c - 1 /\ \A m \in 0 .. c - 1 : t[m] \in {e, x} => Ahead(c, h, n) <= Ahead(c, h, m)
  BY DEF FirstFor
<1>2. Ahead(c, h, n) <= Ahead(c, h, n)
  BY <1>1, AheadIs
<1>3. n \in FirstFor(u, c, h, x, e)
  BY <1>1, <1>2 DEF FirstFor
<1>4. \A m \in FirstFor(u, c, h, x, e) : m = n
  BY <1>3, FirstOnly
<1> QED
  BY <1>3, <1>4

-------------------------------------------------------------------------------
(* The tables.                                                             *)

TableTyped ==
  /\ table = [kind |-> table.kind, home |-> table.home, keys |-> table.keys, values |-> table.values]
  /\ table.home \in [Keys -> Positions] /\ table.keys \in [Positions -> Keys \cup {Empty}]
  /\ table.values \in [Positions -> TableValues]
  /\ given = [now |-> given.now, erased |-> given.erased, last |-> given.last]
  /\ given.now \in [Keys -> SUBSET TableValues] /\ given.erased \in BOOLEAN
  /\ given.last = << >> \/ \E k \in Keys, v \in SUBSET TableValues : given.last = <<k, v>>

(* Until something is erased, every key in the table is reached, with the  *)
(* value that was put last. What was put or erased last is always found,   *)
(* or not found.                                                           *)
ValuesAt(k) == {table.values[n] : n \in {m \in Positions : table.keys[m] = k}}
TableInv ==
  /\ TableTyped
  /\ ~given.erased => /\ Reached(table.keys, Cells, table.home, Empty)
                      /\ \A k \in Keys : given.now[k] = ValuesAt(k)
  /\ given.last # << >> => Found(given.last[1]) = given.last[2]

LEMMA TableIs ==
  ASSUME TableTyped
  PROVE  /\ Cells \in Nat /\ Cells > 0 /\ Empty \notin Keys
         /\ Housed(table.keys, Cells, table.home, Empty)
         /\ \A k \in Keys : table.home[k] \in 0 .. Cells - 1
  BY HashTablesAssumption DEF TableTyped, Housed, Positions

(* Counting from home on is going around.                                  *)
Sought(t, h, k) ==
  LET cell(i) == (h + i) % Cells
      here == {i \in Positions : t[cell(i)] \in {Empty, k}}
  IN {cell(i) : i \in {j \in here : \A m \in here : j <= m}}

LEMMA SoughtIs ==
  ASSUME NEW t, NEW h \in 0 .. Cells - 1, NEW k
  PROVE  Sought(t, h, k) = FirstFor(t, Cells, h, k, Empty)
<1> DEFINE cell(i) == (h + i) % Cells
           here == {i \in Positions : t[cell(i)] \in {Empty, k}}
           A(n) == Ahead(Cells, h, n)
<1>1. Cells \in Nat /\ h \in 0 .. Cells - 1 /\ Positions = 0 .. Cells - 1
  BY HashTablesAssumption DEF Positions
<1>2. \A n \in Positions : A(n) \in Positions /\ cell(A(n)) = n
  <2>1. \A n \in 0 .. Cells - 1 : A(n) \in Nat /\ A(n) < Cells
    BY <1>1, AheadIs
  <2>2. \A n \in 0 .. Cells - 1 : cell(A(n)) = n
    BY <1>1, AheadAround
  <2> QED
    BY <1>1, <2>1, <2>2
<1>3. \A i \in Positions : cell(i) \in Positions /\ A(cell(i)) = i
  BY <1>1, AheadAround
<1>4. Sought(t, h, k) = {cell(i) : i \in {j \in here : \A m \in here : j <= m}}
  BY DEF Sought
<1> HIDE DEF cell, A
<1>5. ASSUME NEW i \in here, \A m \in here : i <= m PROVE cell(i) \in FirstFor(t, Cells, h, k, Empty)
  <2>1. ASSUME NEW m \in Positions, t[m] \in {Empty, k} PROVE A(cell(i)) <= A(m)
    <3>1. A(m) \in here
      BY <1>2, <2>1
    <3> QED
      BY <1>3, <1>5, <3>1
  <2>2. cell(i) \in Positions /\ t[cell(i)] \in {Empty, k}
    BY <1>3
  <2> QED
    BY <1>1, <2>1, <2>2 DEF FirstFor, A
<1>6. ASSUME NEW n \in FirstFor(t, Cells, h, k, Empty) PROVE \E i \in here : n = cell(i) /\ \A m \in here : i <= m
  <2>1. n \in Positions /\ t[n] \in {Empty, k} /\ \A m \in Positions : t[m] \in {Empty, k} => A(n) <= A(m)
    BY <1>1 DEF FirstFor, A
  <2>2. A(n) \in here /\ cell(A(n)) = n
    BY <1>2, <2>1
  <2>3. ASSUME NEW m \in here PROVE A(n) <= m
    BY <1>3, <2>1
  <2> QED
    BY <2>2, <2>3
<1> HIDE DEF here
<1> QED
  BY <1>4, <1>5, <1>6

LEMMA FindIs ==
  ASSUME TableTyped, NEW k \in Keys
  PROVE  FindIndex(k) = FirstFor(table.keys, Cells, table.home[k], k, Empty)
<1>1. FindIndex(k) = Sought(table.keys, table.home[k], k)
  BY DEF FindIndex, Sought
<1> QED
  BY <1>1, TableIs, SoughtIs

LEMMA FindOne ==
  ASSUME TableTyped, NEW k \in Keys, NEW n \in FindIndex(k)
  PROVE  /\ n \in Positions /\ table.keys[n] \in {Empty, k}
         /\ FindIndex(k) = {n}
         /\ Found(k) = IF table.keys[n] = Empty THEN {} ELSE {table.values[n]}
<1>1. n \in Positions /\ table.keys[n] \in {Empty, k}
  BY FindIs DEF FirstFor, Positions
<1>2. \A m \in FindIndex(k) : m = n
  BY FindIs, TableIs, FirstOnly
<1>3. FindIndex(k) = {n}
  BY <1>2
<1> QED
  BY <1>1, <1>3 DEF Found, Used

LEMMA FindNone ==
  ASSUME TableTyped, NEW k \in Keys, FindIndex(k) = {}
  PROVE  Found(k) = {} /\ \A n \in Positions : table.keys[n] \notin {Empty, k}
<1>1. ASSUME NEW n \in 0 .. Cells - 1, table.keys[n] \in {Empty, k} PROVE FALSE
  BY <1>1, FindIs, TableIs, FirstThere
<1> QED
  BY <1>1 DEF Found, Positions

(* A cell where k was looked for is filled with it, or emptied.            *)
LEMMA CellFilled ==
  ASSUME TableTyped, NEW k \in Keys, NEW n \in FindIndex(k), NEW key \in {k, Empty}, NEW v \in TableValues,
         Fill(n, key, v), NEW now \in [Keys -> SUBSET TableValues], NEW erased \in BOOLEAN,
         given' = [now |-> now, erased |-> erased, last |-> <<k, IF key = k THEN {v} ELSE {}>>]
  PROVE  /\ TableTyped' /\ Found(given.last[1])' = given'.last[2]
         /\ table'.home = table.home /\ table'.keys[n] = key /\ table'.values[n] = v
         /\ \A m \in Positions : m # n => table'.keys[m] = table.keys[m] /\ table'.values[m] = table.values[m]
<1> DEFINE t == table.keys
           vs == table.values
           t2 == [t EXCEPT ![n] = key]
           v2 == [vs EXCEPT ![n] = v]
           got == IF key = k THEN {v} ELSE {}
<1>1. n \in Positions /\ Empty \notin Keys
  BY FindOne, TableIs
<1>2. /\ table = [kind |-> table.kind, home |-> table.home, keys |-> t, values |-> vs]
      /\ t \in [Positions -> Keys \cup {Empty}] /\ vs \in [Positions -> TableValues]
      /\ table.home \in [Keys -> Positions]
  BY DEF TableTyped
<1>3. table' = [table EXCEPT !.keys = t2, !.values = v2]
  BY DEF Fill
<1>4. t2 \in [Positions -> Keys \cup {Empty}] /\ v2 \in [Positions -> TableValues]
      /\ t2[n] = key /\ v2[n] = v /\ \A m \in Positions : m # n => t2[m] = t[m] /\ v2[m] = vs[m]
  BY <1>1, <1>2
<1> HIDE DEF t2, v2
<1>5. table' = [kind |-> table.kind, home |-> table.home, keys |-> t2, values |-> v2]
  BY <1>2, <1>3
<1>6. table'.kind = table.kind /\ table'.home = table.home /\ table'.keys = t2 /\ table'.values = v2
  BY <1>5
<1>7. got \in SUBSET TableValues
  OBVIOUS
<1> HIDE DEF got
<1>8. given'.now = now /\ given'.erased = erased /\ given'.last = <<k, got>>
  BY DEF got
<1>9. TableTyped'
  <2>1. given' = [now |-> given'.now, erased |-> given'.erased, last |-> given'.last]
    BY <1>8 DEF got
  <2> QED
    BY <1>2, <1>4, <1>5, <1>6, <1>7, <1>8, <2>1 DEF TableTyped, Positions
<1>10. FindIndex(k)' = {n}
  <2>1. n \in FirstFor(t, Cells, table.home[k], k, Empty)
    BY FindIs
  <2>2. FirstFor(t2, Cells, table.home[k], k, Empty) = {n}
    <3> DEFINE h == table.home[k]
    <3>1. Cells \in Nat /\ h \in 0 .. Cells - 1
      BY TableIs
    <3>2. n \in FirstFor(t, Cells, h, k, Empty) /\ t2[n] \in {Empty, k} /\ \A m \in 0 .. Cells - 1 : m # n => t2[m] = t[m]
      BY <1>4, <2>1 DEF Positions
    <3> HIDE DEF h, t
    <3>3. FirstFor(t2, Cells, h, k, Empty) = {n}
      BY <3>1, <3>2, FirstAfter
    <3> QED
      BY <3>3 DEF h
  <2>3. FindIndex(k)' = FirstFor(table'.keys, Cells, table'.home[k], k, Empty)
    <3>1. FindIndex(k)' = Sought(table'.keys, table'.home[k], k)
      BY DEF FindIndex, Sought
    <3> QED
      BY <1>6, <3>1, TableIs, SoughtIs
  <2> QED
    BY <1>6, <2>2, <2>3
<1>11. Found(k)' = got
  <2>1. Found(k)' = {table'.values[m] : m \in {j \in FindIndex(k)' : table'.keys[j] # Empty}}
    BY DEF Found, Used
  <2> QED
    BY <1>1, <1>4, <1>6, <1>10, <2>1 DEF got
<1>12. Found(given.last[1])' = given'.last[2]
  <2>1. given'.last[1] = k /\ given'.last[2] = got
    BY <1>8
  <2>2. Found(given.last[1])' = Found(k)'
    BY <2>1 DEF Found, FindIndex, Used
  <2> QED
    BY <1>11, <2>1, <2>2
<1> QED
  BY <1>1, <1>4, <1>6, <1>9, <1>12

LEMMA GivenKept ==
  ASSUME TableInv, NEW k \in Keys, NEW v \in TableValues, NEW n \in FindIndex(k), Fill(n, k, v), Gave(k, v)
  PROVE  TableInv'
<1> DEFINE t == table.keys
           vs == table.values
           h == table.home
           t2 == table'.keys
           v2 == table'.values
           now == IF given.erased THEN {} ELSE {v}
           now2 == [given.now EXCEPT ![k] = now]
           got == IF k = k THEN {v} ELSE {}
<1>1. TableTyped /\ given.erased \in BOOLEAN /\ given.now \in [Keys -> SUBSET TableValues]
      /\ given = [now |-> given.now, erased |-> given.erased, last |-> given.last]
  BY DEF TableInv, TableTyped
<1>2. now2 \in [Keys -> SUBSET TableValues] /\ now2[k] = now /\ \A j \in Keys : j # k => now2[j] = given.now[j]
  BY <1>1
<1>3. given' = [now |-> now2, erased |-> given.erased, last |-> <<k, got>>]
  <2> HIDE DEF now
  <2>1. given' = [given EXCEPT !.now[k] = now, !.last = <<k, {v}>>]
    BY DEF Gave, now
  <2>2. given' = [given EXCEPT !.now = now2, !.last = <<k, {v}>>]
    BY <1>1, <2>1
  <2> HIDE DEF now2
  <2> QED
    BY <1>1, <2>2
<1> HIDE DEF now2
<1>4. /\ TableTyped' /\ Found(given.last[1])' = given'.last[2]
      /\ table'.home = h /\ t2[n] = k /\ v2[n] = v
      /\ \A m \in Positions : m # n => t2[m] = t[m] /\ v2[m] = vs[m]
  BY <1>1, <1>2, <1>3, CellFilled
<1>5. given'.now = now2 /\ given'.erased = given.erased
  BY <1>3
<1>6. ASSUME ~given.erased
      PROVE  Reached(t2, Cells, h, Empty) /\ \A j \in Keys : now2[j] = {v2[m] : m \in {p \in Positions : t2[p] = j}}
  <2>1. Reached(t, Cells, h, Empty) /\ \A j \in Keys : given.now[j] = ValuesAt(j)
    BY <1>6 DEF TableInv
  <2>2. Cells \in Nat /\ Positions = 0 .. Cells - 1 /\ Housed(t, Cells, h, Empty) /\ k # Empty /\ h[k] \in 0 .. Cells - 1
    BY <1>1, TableIs DEF Positions
  <2>3. n \in FirstFor(t, Cells, h[k], k, Empty) /\ n \in Positions /\ t[n] \in {Empty, k}
    BY <1>1, FindIs, FindOne
  <2> HIDE DEF t, t2, h, v2, vs
  <2>4. Reached(t2, Cells, h, Empty)
    BY <1>4, <2>1, <2>2, <2>3, ReachedFill
  <2>5. \A m \in Positions : t2[m] = k <=> m = n
    <3>1. ASSUME NEW m \in Positions, t[m] = k PROVE m = n
      <4>1. FirstFor(t, Cells, h[k], k, Empty) = {m}
        <5>1. m \in 0 .. Cells - 1 /\ t[m] # Empty
          BY <2>2, <3>1
        <5>2. FirstFor(t, Cells, h[t[m]], t[m], Empty) = {m}
          <6>1. Cells \in Nat /\ Reached(t, Cells, h, Empty) /\ Housed(t, Cells, h, Empty)
            BY <2>1, <2>2
          <6> QED
            BY <5>1, <6>1, ReachedFirst
        <5> QED
          BY <3>1, <5>2
      <4> QED
        BY <2>3, <4>1
    <3> QED
      BY <1>4, <3>1
  <2>6. ASSUME NEW j \in Keys PROVE now2[j] = {v2[m] : m \in {p \in Positions : t2[p] = j}}
    <3>1. CASE j = k
      <4>1. {p \in Positions : t2[p] = j} = {n}
        BY <2>3, <2>5, <3>1
      <4> QED
        BY <1>2, <1>4, <1>6, <3>1, <4>1
    <3>2. CASE j # k
      <4>1. \A p \in Positions : t2[p] = j <=> t[p] = j
        BY <1>4, <2>2, <2>3, <3>2, TableIs, <1>1
      <4>2. \A p \in Positions : t2[p] = j => v2[p] = vs[p]
        BY <1>4, <3>2
      <4>3. given.now[j] = {vs[m] : m \in {p \in Positions : t[p] = j}}
        BY <2>1 DEF ValuesAt, t, vs
      <4> QED
        BY <1>2, <3>2, <4>1, <4>2, <4>3
    <3> QED
      BY <3>1, <3>2
  <2> QED
    BY <2>4, <2>6
<1> QED
  BY <1>4, <1>5, <1>6 DEF TableInv, ValuesAt

LEMMA TableErase ==
  ASSUME TableInv, NEW k \in Keys, Erase(k)
  PROVE  TableInv'
<1> DEFINE none == [key \in Keys |-> {}]
<1>1. TableTyped /\ none \in [Keys -> SUBSET TableValues] /\ TRUE \in BOOLEAN /\ Default \in TableValues
  BY HashTablesAssumption DEF TableInv
<1>2. given' = [now |-> none, erased |-> TRUE, last |-> <<k, {}>>]
  BY DEF Erase
<1> HIDE DEF none
<1>3. CASE FindIndex(k) = {}
  <2>1. table' = table
    BY <1>3 DEF Erase
  <2>2. given'.now = none /\ given'.erased = TRUE /\ given'.last = <<k, {}>> /\ {} \in SUBSET TableValues
    BY <1>2
  <2>3. given' = [now |-> given'.now, erased |-> given'.erased, last |-> given'.last]
    BY <1>2, <2>2
  <2>4. TableTyped'
    BY <1>1, <2>1, <2>2, <2>3 DEF TableTyped
  <2>5. Found(k) = {}
    BY <1>1, <1>3, FindNone
  <2>6. Found(given.last[1])' = {}
    <3>1. given'.last[1] = k
      BY <2>2
    <3>2. Found(given.last[1])' = Found(k)
      BY <2>1, <3>1 DEF Found, FindIndex, Used
    <3> QED
      BY <2>5, <3>2
  <2>7. given'.last[2] = {}
    BY <2>2
  <2> QED
    BY <2>2, <2>4, <2>6, <2>7 DEF TableInv
<1>4. CASE FindIndex(k) # {}
  <2>1. PICK n \in FindIndex(k) : Fill(n, Empty, Default)
    BY <1>4 DEF Erase
  <2>2. Empty \in {k, Empty} /\ Empty # k
    BY <1>1, TableIs
  <2> DEFINE got == IF Empty = k THEN {Default} ELSE {}
             yes == TRUE
  <2>3. given' = [now |-> none, erased |-> yes, last |-> <<k, got>>] /\ yes \in BOOLEAN
    BY <1>2, <2>2
  <2> HIDE DEF yes
  <2>4. TableTyped' /\ Found(given.last[1])' = given'.last[2]
    BY <1>1, <2>1, <2>2, <2>3, CellFilled
  <2>5. given'.erased = TRUE
    BY <1>2
  <2> QED
    BY <2>4, <2>5 DEF TableInv
<1> QED
  BY <1>3, <1>4

LEMMA TableRest ==
  ASSUME TableInv, UNCHANGED tableVars
  PROVE  TableInv'
<1>1. table' = table /\ given' = given
  BY DEF tableVars
<1>2. TableTyped'
  BY <1>1 DEF TableInv, TableTyped
<1>3. Found(given.last[1])' = Found(given.last[1])
  BY <1>1 DEF Found, FindIndex, Used
<1>4. \A k \in Keys : ValuesAt(k)' = ValuesAt(k)
  BY <1>1 DEF ValuesAt
<1> QED
  BY <1>1, <1>2, <1>3, <1>4 DEF TableInv

LEMMA TableStep ==
  ASSUME TableInv, TableNext
  PROVE  TableInv'
<1>1. Default \in TableValues
  BY HashTablesAssumption
<1>2. ASSUME NEW k \in Keys, Touch(k) PROVE TableInv'
  <2>1. PICK n \in FindIndex(k) : IF Used(n) THEN UNCHANGED tableVars ELSE Fill(n, k, Default) /\ Gave(k, Default)
    BY <1>2 DEF Touch
  <2>2. CASE Used(n)
    BY <2>1, <2>2, TableRest
  <2>3. CASE ~Used(n)
    BY <1>1, <2>1, <2>3, GivenKept
  <2> QED
    BY <2>2, <2>3
<1>3. ASSUME NEW k \in Keys, Insert(k) PROVE TableInv'
  BY <1>1, <1>3, GivenKept DEF Insert
<1>4. ASSUME NEW k \in Keys, Erase(k) PROVE TableInv'
  BY <1>4, TableErase
<1>5. ASSUME NEW k \in Keys, NEW v \in TableValues, Put(k, v) PROVE TableInv'
  BY <1>5, GivenKept DEF Put
<1> QED
  BY <1>2, <1>3, <1>4, <1>5 DEF TableNext

LEMMA TableBegin ==
  ASSUME TableInit
  PROVE  TableInv
<1> USE HashTablesAssumption
<1> DEFINE none == [n \in Positions |-> Empty]
           default == [n \in Positions |-> Default]
           now == [k \in Keys |-> {}]
<1>1. PICK sort \in Erasing \cup {"hash_set", "static_hash"}, home \in [Keys -> Positions] :
        table = [kind |-> sort, home |-> home, keys |-> none, values |-> default]
  BY DEF TableInit
<1>2. given = [now |-> now, erased |-> FALSE, last |-> << >>]
  BY DEF TableInit
<1>3. none \in [Positions -> Keys \cup {Empty}] /\ default \in [Positions -> TableValues]
      /\ now \in [Keys -> SUBSET TableValues] /\ \A n \in Positions : none[n] = Empty
      /\ \A k \in Keys : now[k] = {}
  OBVIOUS
<1> HIDE DEF none, default, now
<1>4. table.kind = sort /\ table.home = home /\ table.keys = none /\ table.values = default
  BY <1>1
<1>5. given.now = now /\ given.erased = FALSE /\ given.last = << >>
  BY <1>2
<1>6. TableTyped
  BY <1>1, <1>2, <1>3, <1>4, <1>5 DEF TableTyped
<1>7. Reached(table.keys, Cells, table.home, Empty)
  BY <1>3, <1>4 DEF Reached, Positions
<1>8. \A k \in Keys : given.now[k] = ValuesAt(k)
  <2>1. ASSUME NEW k \in Keys PROVE {m \in Positions : none[m] = k} = {}
    BY <1>3
  <2> QED
    BY <1>3, <1>4, <1>5, <2>1 DEF ValuesAt
<1> QED
  BY <1>5, <1>6, <1>7, <1>8 DEF TableInv

(* Going on from n to the first of S.                                      *)
Onwards(f, N, S) == f = [n \in 0 .. N |-> IF n \in S THEN n ELSE f[n + 1]]
Backwards(f, N, S) == f = [n \in 0 .. N |-> IF n \in S THEN n ELSE f[n - 1]]

LEMMA OnwardsIs ==
  ASSUME NEW N \in Nat, NEW S \in SUBSET Nat, N \in S, NEW f, Onwards(f, N, S)
  PROVE  \A n \in 0 .. N : f[n] \in S /\ f[n] >= n /\ \A j \in S : j >= n => f[n] <= j
<1> DEFINE P(n) == f[n] \in S /\ f[n] >= n /\ \A j \in S : j >= n => f[n] <= j
           bad == {d \in 0 .. N : ~P(N - d)}
<1>0. \A m \in S : m \in Nat
  OBVIOUS
<1>1. \A n \in 0 .. N : f[n] = IF n \in S THEN n ELSE f[n + 1]
  <2> DEFINE g == [n \in 0 .. N |-> IF n \in S THEN n ELSE f[n + 1]]
  <2>1. f = g
    BY DEF Onwards
  <2>2. \A n \in 0 .. N : g[n] = IF n \in S THEN n ELSE f[n + 1]
    OBVIOUS
  <2> HIDE DEF g
  <2> QED
    BY <2>1, <2>2
<1>2. ASSUME bad # {} PROVE FALSE
  <2>1. PICK d \in bad : \A e \in bad : d <= e
    <3>1. bad \in SUBSET Nat
      OBVIOUS
    <3> HIDE DEF bad
    <3> QED
      BY <1>2, <3>1, LeastNatural
  <2> DEFINE n == N - d
  <2>2. n \in 0 .. N /\ ~P(n)
    OBVIOUS
  <2>3. n \notin S
    BY <1>1, <2>2
  <2>4. n + 1 \in 0 .. N /\ d - 1 \in 0 .. N /\ N - (d - 1) = n + 1
    BY <2>2, <2>3
  <2>5. d - 1 \notin bad
    BY <2>1, <2>4
  <2>6. P(n + 1) /\ f[n] = f[n + 1]
    BY <1>1, <2>2, <2>3, <2>4, <2>5
  <2>7. \A j \in S : j >= n => j >= n + 1
    BY <2>2, <2>3
  <2>8. f[n] \in S /\ f[n] \in Nat
    BY <1>0, <2>6
  <2>9. f[n] >= n + 1
    BY <2>6
  <2>10. f[n] >= n
    BY <2>8, <2>9
  <2>11. ASSUME NEW j \in S, j >= n PROVE f[n] <= j
    <3>1. j >= n + 1
      BY <2>7, <2>11
    <3>2. f[n + 1] <= j
      BY <2>6, <3>1
    <3> QED
      BY <2>6, <3>2
  <2> QED
    BY <2>2, <2>8, <2>10, <2>11
<1> QED
  <2>1. ASSUME NEW n \in 0 .. N PROVE P(n)
    <3> DEFINE d == N - n
    <3>1. d \in 0 .. N /\ N - d = n
      OBVIOUS
    <3>2. d \notin bad
      BY <1>2
    <3> HIDE DEF d
    <3>3. P(N - d)
      BY <3>1, <3>2
    <3> HIDE DEF P
    <3> QED
      BY <3>1, <3>3
  <2> QED
    BY <2>1

LEMMA OnwardsGoes ==
  ASSUME NEW N \in Nat, NEW S \in SUBSET Nat, N \in S
  PROVE  \E f : Onwards(f, N, S)
<1> DEFINE first(m, n) == m >= n /\ \A j \in S : j >= n => m <= j
           g == [n \in 0 .. N |-> CHOOSE m \in S : first(m, n)]
<1>0. \A m \in S : m \in Nat
  OBVIOUS
<1>1. ASSUME NEW n \in 0 .. N PROVE g[n] \in S /\ first(g[n], n)
  <2> DEFINE T == {j \in S : j >= n}
  <2>1. T \in SUBSET Nat
    OBVIOUS
  <2>0. N \in T
    OBVIOUS
  <2>2. \E m \in T : \A j \in T : m <= j
    <3> HIDE DEF T
    <3> QED
      BY <2>0, <2>1, LeastNatural
  <2>3. \E m \in S : first(m, n)
    BY <2>2
  <2> QED
    BY <2>3
<1>2. ASSUME NEW n \in 0 .. N PROVE g[n] = IF n \in S THEN n ELSE g[n + 1]
  <2> HIDE DEF g
  <2>1. CASE n \in S
    <3>1. g[n] >= n
      BY <1>1, <2>1
    <3>2. g[n] <= n
      BY <1>1, <2>1
    <3>3. g[n] \in Nat
      BY <1>0, <1>1
    <3>4. g[n] = n
      BY <3>1, <3>2, <3>3
    <3> QED
      BY <2>1, <3>4
  <2>2. CASE n \notin S
    <3>1. n + 1 \in 0 .. N
      BY <2>2
    <3>2. g[n] \in S /\ g[n + 1] \in S
      BY <1>1, <3>1
    <3>3. g[n] \in Nat /\ g[n + 1] \in Nat
      BY <1>0, <3>2
    <3>4. g[n] # n
      BY <2>2, <3>2
    <3>5. g[n] >= n
      BY <1>1
    <3>6. g[n] >= n + 1
      BY <3>3, <3>4, <3>5
    <3>7. \A j \in S : j >= n + 1 => g[n + 1] <= j
      BY <1>1, <3>1
    <3>8. g[n + 1] <= g[n]
      BY <3>2, <3>6, <3>7
    <3>9. \A j \in S : j >= n => g[n] <= j
      BY <1>1
    <3>10. g[n + 1] >= n + 1
      BY <1>1, <3>1
    <3>11. g[n + 1] >= n
      BY <3>3, <3>10
    <3>12. g[n] <= g[n + 1]
      BY <3>2, <3>9, <3>11
    <3>13. g[n] = g[n + 1]
      BY <3>3, <3>8, <3>12
    <3> QED
      BY <2>2, <3>13
  <2> QED
    BY <2>1, <2>2
<1>3. g = [n \in 0 .. N |-> IF n \in S THEN n ELSE g[n + 1]]
  BY <1>2
<1> HIDE DEF g
<1> QED
  BY <1>3 DEF Onwards

LEMMA BackwardsIs ==
  ASSUME NEW N \in Nat, NEW S \in SUBSET Nat, 0 \in S, NEW f, Backwards(f, N, S)
  PROVE  \A n \in 0 .. N : f[n] \in S /\ f[n] <= n /\ \A j \in S : j <= n => f[n] >= j
<1> DEFINE P(n) == f[n] \in S /\ f[n] <= n /\ \A j \in S : j <= n => f[n] >= j
           bad == {n \in 0 .. N : ~P(n)}
<1>0. \A m \in S : m \in Nat
  OBVIOUS
<1>1. \A n \in 0 .. N : f[n] = IF n \in S THEN n ELSE f[n - 1]
  <2> DEFINE g == [n \in 0 .. N |-> IF n \in S THEN n ELSE f[n - 1]]
  <2>1. f = g
    BY DEF Backwards
  <2>2. \A n \in 0 .. N : g[n] = IF n \in S THEN n ELSE f[n - 1]
    OBVIOUS
  <2> HIDE DEF g
  <2> QED
    BY <2>1, <2>2
<1>2. ASSUME bad # {} PROVE FALSE
  <2>1. PICK n \in bad : \A e \in bad : n <= e
    <3>1. bad \in SUBSET Nat
      OBVIOUS
    <3> HIDE DEF bad
    <3> QED
      BY <1>2, <3>1, LeastNatural
  <2>2. n \in 0 .. N /\ ~P(n)
    OBVIOUS
  <2>3. n \notin S
    BY <1>1, <2>2
  <2>4. n - 1 \in 0 .. N
    BY <2>2, <2>3
  <2>5. n - 1 \notin bad
    BY <2>1, <2>4
  <2>6. P(n - 1) /\ f[n] = f[n - 1]
    BY <1>1, <2>2, <2>3, <2>4, <2>5
  <2>7. \A j \in S : j <= n => j <= n - 1
    BY <2>2, <2>3
  <2>8. f[n] \in S /\ f[n] \in Nat
    BY <1>0, <2>6
  <2>9. f[n] <= n - 1
    BY <2>6
  <2>10. f[n] <= n
    BY <2>8, <2>9
  <2>11. ASSUME NEW j \in S, j <= n PROVE f[n] >= j
    <3>1. j <= n - 1
      BY <2>7, <2>11
    <3>2. f[n - 1] >= j
      BY <2>6, <3>1
    <3> QED
      BY <2>6, <3>2
  <2> QED
    BY <2>2, <2>8, <2>10, <2>11
<1> QED
  BY <1>2

LEMMA BackwardsGoes ==
  ASSUME NEW N \in Nat, NEW S \in SUBSET Nat, 0 \in S
  PROVE  \E f : Backwards(f, N, S)
<1> DEFINE last(m, n) == m <= n /\ \A j \in S : j <= n => m >= j
           g == [n \in 0 .. N |-> CHOOSE m \in S : last(m, n)]
<1>0. \A m \in S : m \in Nat
  OBVIOUS
<1>1. ASSUME NEW n \in 0 .. N PROVE g[n] \in S /\ last(g[n], n)
  <2> DEFINE T == {d \in 0 .. N : n - d \in S}
  <2>1. T \in SUBSET Nat /\ n \in T
    OBVIOUS
  <2>2. PICK d \in T : \A e \in T : d <= e
    <3> HIDE DEF T
    <3> QED
      BY <2>1, LeastNatural
  <2>3. n - d \in S /\ n - d <= n
    OBVIOUS
  <2>4. ASSUME NEW j \in S, j <= n PROVE n - d >= j
    <3>1. n - j \in T
      <4>1. n - j \in 0 .. N /\ n - (n - j) = j
        BY <2>4
      <4> QED
        BY <4>1
    <3>2. d <= n - j
      BY <2>2, <3>1
    <3>3. d \in Nat /\ j \in Nat
      BY <1>0
    <3> QED
      BY <3>2, <3>3
  <2>5. \E m \in S : last(m, n)
    BY <2>3, <2>4
  <2> QED
    BY <2>5
<1>2. ASSUME NEW n \in 0 .. N PROVE g[n] = IF n \in S THEN n ELSE g[n - 1]
  <2> HIDE DEF g
  <2>1. CASE n \in S
    <3>1. g[n] >= n
      BY <1>1, <2>1
    <3>2. g[n] <= n
      BY <1>1, <2>1
    <3>3. g[n] \in Nat
      BY <1>0, <1>1
    <3>4. g[n] = n
      BY <3>1, <3>2, <3>3
    <3> QED
      BY <2>1, <3>4
  <2>2. CASE n \notin S
    <3>0. n # 0
      BY <2>2
    <3>1. n - 1 \in 0 .. N
      BY <3>0
    <3>2. g[n] \in S /\ g[n - 1] \in S
      BY <1>1, <3>1
    <3>3. g[n] \in Nat /\ g[n - 1] \in Nat
      BY <1>0, <3>2
    <3>4. g[n] # n
      BY <2>2, <3>2
    <3>5. g[n] <= n
      BY <1>1
    <3>6. g[n] <= n - 1
      BY <3>3, <3>4, <3>5
    <3>7. \A j \in S : j <= n - 1 => g[n - 1] >= j
      BY <1>1, <3>1
    <3>8. g[n - 1] >= g[n]
      BY <3>2, <3>6, <3>7
    <3>9. \A j \in S : j <= n => g[n] >= j
      BY <1>1
    <3>10. g[n - 1] <= n - 1
      BY <1>1, <3>1
    <3>11. g[n - 1] <= n
      BY <3>3, <3>10
    <3>12. g[n] >= g[n - 1]
      BY <3>2, <3>9, <3>11
    <3>13. g[n] = g[n - 1]
      BY <3>3, <3>8, <3>12
    <3> QED
      BY <2>2, <3>13
  <2> QED
    BY <2>1, <2>2
<1>3. g = [n \in 0 .. N |-> IF n \in S THEN n ELSE g[n - 1]]
  BY <1>2
<1> HIDE DEF g
<1> QED
  BY <1>3 DEF Backwards

(* The iterators go on to the next cell in use, or back.                   *)
SeekIn(past, last) == {n \in 0 .. Cells + 1 : ~(n <= last /\ ~UsedOrPast(n, past))}

LEMMA SeekIs ==
  ASSUME NEW past, NEW last \in {Cells - 1, Cells}
  PROVE  /\ SeekIn(past, last) \in SUBSET Nat /\ Cells + 1 \in SeekIn(past, last) /\ Cells + 1 \in Nat
         /\ Onwards(Seek(past, last), Cells + 1, SeekIn(past, last))
<1> DEFINE N == Cells + 1
           S == SeekIn(past, last)
           body(f) == [n \in 0 .. N |-> IF n <= last /\ ~UsedOrPast(n, past) THEN f[n + 1] ELSE n]
<1>0. Cells \in Nat /\ N \in Nat /\ last <= Cells
  BY HashTablesAssumption
<1>1. S \in SUBSET Nat /\ N \in S
  <2>1. S \subseteq 0 .. N
    BY DEF SeekIn
  <2>2. N \in 0 .. N /\ ~(N <= last)
    BY <1>0
  <2>3. N \in S
    BY <2>2 DEF SeekIn
  <2> HIDE DEF S
  <2> QED
    BY <1>0, <2>1, <2>3
<1>2. \A f : (f = body(f)) <=> Onwards(f, N, S)
  <2>1. ASSUME NEW f PROVE body(f) = [n \in 0 .. N |-> IF n \in S THEN n ELSE f[n + 1]]
    BY DEF SeekIn
  <2> QED
    BY <2>1 DEF Onwards
<1>3. Seek(past, last) = CHOOSE f : f = body(f)
  BY DEF Seek
<1>4. \E f : Onwards(f, N, S)
  <2> HIDE DEF N, S
  <2> QED
    BY <1>0, <1>1, OnwardsGoes
<1> HIDE DEF body
<1>5. \E f : f = body(f)
  BY <1>2, <1>4
<1>6. Seek(past, last) = body(Seek(past, last))
  BY <1>3, <1>5
<1> QED
  BY <1>0, <1>1, <1>2, <1>6

LEMMA SeekBackIs ==
  Backwards(SeekBack, Cells - 1, {n \in 0 .. Cells - 1 : Used(n) \/ n = 0})
<1> DEFINE N == Cells - 1
           S == {n \in 0 .. Cells - 1 : Used(n) \/ n = 0}
           body(f) == [n \in Positions |-> IF ~Used(n) /\ n > 0 THEN f[n - 1] ELSE n]
<1>1. N \in Nat /\ S \in SUBSET Nat /\ 0 \in S /\ Positions = 0 .. N
  BY HashTablesAssumption DEF Positions
<1>2. \A f : (f = body(f)) <=> Backwards(f, N, S)
  <2>1. ASSUME NEW f PROVE body(f) = [n \in 0 .. N |-> IF n \in S THEN n ELSE f[n - 1]]
    <3>1. ASSUME NEW n \in 0 .. N PROVE (~Used(n) /\ n > 0) <=> n \notin S
      BY <1>1
    <3> HIDE DEF S, N
    <3> QED
      BY <1>1, <3>1
  <2> QED
    BY <2>1 DEF Backwards
<1>3. SeekBack = CHOOSE f : f = body(f)
  BY DEF SeekBack
<1>4. \E f : Backwards(f, N, S)
  <2> HIDE DEF N, S
  <2> QED
    BY <1>1, BackwardsGoes
<1> HIDE DEF body
<1>5. \E f : f = body(f)
  BY <1>2, <1>4
<1>6. SeekBack = body(SeekBack)
  BY <1>3, <1>5
<1> QED
  BY <1>2, <1>6

LEMMA NextIs ==
  ASSUME NEW n \in -1 .. Cells - 1, NEW past
  PROVE  LET next == Seek(past, Cells - 1)[n + 1] IN
         /\ next \in 0 .. Cells /\ next > n /\ (next # Cells => Used(next))
         /\ \A m \in 0 .. Cells - 1 : Used(m) /\ m > n => next <= m
<1> DEFINE f == Seek(past, Cells - 1)
           S == SeekIn(past, Cells - 1)
           next == f[n + 1]
<1>1. Cells \in Nat /\ n + 1 \in 0 .. Cells + 1
  BY HashTablesAssumption
<1>2. next \in S /\ next >= n + 1 /\ \A j \in S : j >= n + 1 => next <= j
  <2> HIDE DEF f, S
  <2>1. S \in SUBSET Nat /\ Cells + 1 \in S /\ Cells + 1 \in Nat /\ Onwards(f, Cells + 1, S)
    BY SeekIs DEF f, S
  <2>2. \A i \in 0 .. Cells + 1 : f[i] \in S /\ f[i] >= i /\ \A j \in S : j >= i => f[i] <= j
    BY <2>1, OnwardsIs
  <2> QED
    BY <1>1, <2>2
<1>3. \A m \in 0 .. Cells - 1 : m \in S <=> Used(m)
  BY <1>1 DEF SeekIn, UsedOrPast
<1>4. Cells \in S /\ S \subseteq 0 .. Cells + 1
  BY <1>1 DEF SeekIn
<1> HIDE DEF f, S
<1>5. next <= Cells /\ next \in 0 .. Cells + 1 /\ next > n
  <2>1. next <= Cells
    BY <1>1, <1>2, <1>4
  <2>2. next \in 0 .. Cells + 1
    BY <1>2, <1>4
  <2> QED
    BY <1>2, <2>1, <2>2
<1>6. next # Cells => Used(next)
  BY <1>1, <1>2, <1>3, <1>5
<1>7. ASSUME NEW m \in 0 .. Cells - 1, Used(m), m > n PROVE next <= m
  BY <1>2, <1>3, <1>7
<1> QED
  BY <1>1, <1>5, <1>6, <1>7 DEF f

LEMMA MutableNextIs ==
  ASSUME NEW n \in 0 .. Cells - 1, NEW past \in BOOLEAN
  PROVE  Seek(past, Cells)[n + 1] =
           IF Seek(past, Cells - 1)[n + 1] = Cells /\ ~past THEN Cells + 1 ELSE Seek(past, Cells - 1)[n + 1]
<1> DEFINE f == Seek(past, Cells)
           S == SeekIn(past, Cells)
           there == f[n + 1]
           next == Seek(past, Cells - 1)[n + 1]
<1>1. Cells \in Nat /\ n + 1 \in 0 .. Cells + 1
  BY HashTablesAssumption
<1>2. there \in S /\ there >= n + 1 /\ \A j \in S : j >= n + 1 => there <= j
  <2> HIDE DEF f, S
  <2>1. S \in SUBSET Nat /\ Cells + 1 \in S /\ Cells + 1 \in Nat /\ Onwards(f, Cells + 1, S)
    BY SeekIs DEF f, S
  <2>2. \A i \in 0 .. Cells + 1 : f[i] \in S /\ f[i] >= i /\ \A j \in S : j >= i => f[i] <= j
    BY <2>1, OnwardsIs
  <2> QED
    BY <1>1, <2>2
<1>3. \A m \in 0 .. Cells - 1 : m \in S <=> Used(m)
  BY <1>1 DEF SeekIn, UsedOrPast
<1>4. (Cells \in S <=> past = TRUE) /\ Cells + 1 \in S /\ S \subseteq 0 .. Cells + 1
  BY <1>1 DEF SeekIn, UsedOrPast
<1>5. /\ next \in 0 .. Cells /\ next > n /\ (next # Cells => Used(next))
      /\ \A m \in 0 .. Cells - 1 : Used(m) /\ m > n => next <= m
  BY NextIs
<1> HIDE DEF f, S, next
<1>6. there \in 0 .. Cells + 1
  BY <1>2, <1>4
<1>7. CASE next # Cells
  <2>1. next \in 0 .. Cells - 1 /\ next \in S /\ next >= n + 1
    BY <1>1, <1>3, <1>5, <1>7
  <2>2. there <= next
    BY <1>2, <2>1
  <2>3. there \in 0 .. Cells - 1 /\ there > n
    BY <1>1, <1>2, <1>6, <2>1, <2>2
  <2>4. next <= there
    BY <1>2, <1>3, <1>5, <2>3
  <2>5. there = next
    BY <1>6, <2>1, <2>2, <2>4
  <2> QED
    BY <1>7, <2>5 DEF f, next
<1>8. CASE next = Cells
  <2>1. there \in {Cells, Cells + 1}
    <3>1. ASSUME there \in 0 .. Cells - 1 PROVE FALSE
      <4>1. Used(there) /\ there > n
        BY <1>1, <1>2, <1>3, <1>6, <3>1
      <4>2. next <= there
        BY <1>5, <3>1, <4>1
      <4> QED
        BY <1>1, <1>8, <3>1, <4>2
    <3> QED
      BY <1>1, <1>6, <3>1
  <2>2. CASE past = TRUE
    <3>1. there <= Cells
      BY <1>1, <1>2, <1>4, <2>2
    <3>2. there = Cells
      BY <1>1, <2>1, <3>1
    <3> QED
      BY <1>8, <2>2, <3>2 DEF f, next
  <2>3. CASE past = FALSE
    <3>1. there = Cells + 1
      BY <1>2, <1>4, <2>1, <2>3
    <3> QED
      BY <1>8, <2>3, <3>1 DEF f, next
  <2> QED
    BY <2>2, <2>3
<1> QED
  BY <1>7, <1>8

LEMMA BackIs ==
  ASSUME NEW n \in 0 .. Cells - 1, Used(n), NEW next \in 0 .. Cells, next > n,
         \A m \in 0 .. Cells - 1 : Used(m) /\ m > n => next <= m
  PROVE  SeekBack[next - 1] = n
<1> DEFINE S == {m \in 0 .. Cells - 1 : Used(m) \/ m = 0}
           f == SeekBack
           b == f[next - 1]
<1>1. Cells \in Nat /\ Cells > 0 /\ next - 1 \in 0 .. Cells - 1
  BY HashTablesAssumption
<1>2. S \in SUBSET Nat /\ 0 \in S /\ n \in S /\ Cells - 1 \in Nat
  BY <1>1
<1>3. b \in S /\ b <= next - 1 /\ \A j \in S : j <= next - 1 => b >= j
  <2>1. Backwards(f, Cells - 1, S)
    BY SeekBackIs
  <2> HIDE DEF f, S
  <2>2. \A i \in 0 .. Cells - 1 : f[i] \in S /\ f[i] <= i /\ \A j \in S : j <= i => f[i] >= j
    BY <1>2, <2>1, BackwardsIs
  <2> QED
    BY <1>1, <2>2
<1>4. b \in 0 .. Cells - 1 /\ (Used(b) \/ b = 0)
  BY <1>3
<1> HIDE DEF f, S
<1>5. b >= n
  BY <1>2, <1>3
<1>6. ASSUME b > n PROVE FALSE
  <2>1. b # 0
    BY <1>4, <1>6
  <2>2. next <= b
    BY <1>4, <1>6, <2>1
  <2> QED
    BY <1>3, <1>4, <2>2
<1>7. b = n
  BY <1>4, <1>5, <1>6
<1> QED
  BY <1>7 DEF f

LEMMA IteratesAll == IteratesOverAll
<1> DEFINE used == {n \in Positions : Used(n)}
           pasts == IF table.kind = "bounded_hash_map" THEN {FALSE} ELSE BOOLEAN
<1>1. Positions = 0 .. Cells - 1 /\ Cells \in Nat
  BY HashTablesAssumption DEF Positions
<1>2. Begin \in used \cup {Cells} /\ \A n \in used : Begin <= n
  <2>1. LET next == Seek(FALSE, Cells - 1)[-1 + 1] IN
        /\ next \in 0 .. Cells /\ next > -1 /\ (next # Cells => Used(next))
        /\ \A m \in 0 .. Cells - 1 : Used(m) /\ m > -1 => next <= m
    <3> DEFINE n == -1
    <3>1. n \in -1 .. Cells - 1
      BY <1>1
    <3> HIDE DEF n
    <3>2. LET next == Seek(FALSE, Cells - 1)[n + 1] IN
          /\ next \in 0 .. Cells /\ next > n /\ (next # Cells => Used(next))
          /\ \A m \in 0 .. Cells - 1 : Used(m) /\ m > n => next <= m
      BY <3>1, NextIs
    <3> QED
      BY <3>2 DEF n
  <2> DEFINE f == Seek(FALSE, Cells - 1)
  <2>2. -1 + 1 = 0
    OBVIOUS
  <2> HIDE DEF f
  <2>3. /\ f[0] \in 0 .. Cells /\ (f[0] # Cells => Used(f[0]))
        /\ \A m \in 0 .. Cells - 1 : Used(m) /\ m > -1 => f[0] <= m
    BY <2>1, <2>2 DEF f
  <2>4. f[0] = Begin
    BY DEF f, Begin
  <2> HIDE DEF used
  <2>5. Begin \in 0 .. Cells /\ (Begin # Cells => Used(Begin)) /\ \A m \in 0 .. Cells - 1 : Used(m) => Begin <= m
    BY <2>3, <2>4
  <2>6. Begin \in 0 .. Cells - 1 \/ Begin = Cells
    BY <1>1, <2>5
  <2> QED
    BY <1>1, <2>5, <2>6 DEF used
<1>3. ASSUME NEW n \in used, NEW past \in pasts
      PROVE  LET next == Increment(n, past) IN
             /\ next \in used \cup {Cells} /\ next > n /\ \A m \in used : m <= n \/ next <= m
             /\ Decrement(next) = n
             /\ IncrementMutable(n, past) =
                  IF next = Cells /\ table.kind = "bounded_hash_set" /\ ~past THEN Cells + 1 ELSE next
  <2> DEFINE next == Increment(n, past)
  <2>1. n \in 0 .. Cells - 1 /\ n \in -1 .. Cells - 1 /\ Used(n) /\ past \in BOOLEAN
    <3>1. n \in 0 .. Cells - 1 /\ Used(n)
      BY <1>1
    <3>2. past \in BOOLEAN
      OBVIOUS
    <3> QED
      BY <1>1, <3>1, <3>2
  <2>2. next = Seek(past, Cells - 1)[n + 1] /\ Decrement(next) = SeekBack[next - 1]
        /\ IncrementMutable(n, past) = IF table.kind = "bounded_hash_set" THEN Seek(past, Cells)[n + 1] ELSE next
    BY DEF Increment, Decrement, IncrementMutable
  <2>3. /\ next \in 0 .. Cells /\ next > n /\ (next # Cells => Used(next))
        /\ \A m \in 0 .. Cells - 1 : Used(m) /\ m > n => next <= m
    BY <2>1, <2>2, NextIs
  <2>4. Seek(past, Cells)[n + 1] = IF next = Cells /\ ~past THEN Cells + 1 ELSE next
    BY <2>1, <2>2, MutableNextIs
  <2> HIDE DEF next, used
  <2>5. SeekBack[next - 1] = n
    BY <2>1, <2>3, BackIs
  <2>6. next \in used \cup {Cells}
    <3>1. next \in 0 .. Cells - 1 \/ next = Cells
      BY <1>1, <2>3
    <3> QED
      BY <1>1, <2>3, <3>1 DEF used
  <2>7. \A m \in used : m <= n \/ next <= m
    <3>1. \A m \in used : m \in 0 .. Cells - 1 /\ Used(m)
      BY <1>1 DEF used
    <3> QED
      BY <2>1, <2>3, <3>1
  <2> QED
    BY <2>2, <2>3, <2>4, <2>5, <2>6, <2>7 DEF next
<1> QED
  BY <1>2, <1>3 DEF IteratesOverAll

LEMMA FindKnown ==
  ASSUME TableTyped, Reached(table.keys, Cells, table.home, Empty), NEW k \in Keys
  PROVE  Found(k) = ValuesAt(k)
<1> DEFINE t == table.keys
           h == table.home
<1>1. Cells \in Nat /\ Positions = 0 .. Cells - 1 /\ k # Empty /\ Housed(t, Cells, h, Empty)
  BY TableIs DEF Positions
<1>2. FindIndex(k) = FirstFor(t, Cells, h[k], k, Empty)
  BY FindIs
<1>3. CASE \E p \in Positions : t[p] = k
  <2>1. PICK p \in Positions : t[p] = k
    BY <1>3
  <2> HIDE DEF t, h
  <2>0. Reached(t, Cells, h, Empty) /\ t[p] # Empty /\ p \in 0 .. Cells - 1
    BY <1>1, <2>1 DEF t, h
  <2>02. FirstFor(t, Cells, h[t[p]], t[p], Empty) = {p}
    BY <1>1, <2>0, ReachedFirst
  <2>2. FindIndex(k) = {p}
    BY <1>2, <2>1, <2>02
  <2>3. Found(k) = {table.values[p]}
    BY <1>1, <2>1, <2>2 DEF Found, Used, t
  <2>4. \A q \in Positions : t[q] = k => p = q
    BY <1>1, <2>1, ReachedOnce DEF t, h
  <2>5. ValuesAt(k) = {table.values[p]}
    BY <2>1, <2>4 DEF ValuesAt, t
  <2> QED
    BY <2>3, <2>5
<1>4. CASE \A p \in Positions : t[p] # k
  <2>1. ValuesAt(k) = {}
    BY <1>4 DEF ValuesAt
  <2>2. ASSUME NEW n \in FindIndex(k) PROVE t[n] = Empty
    <3>1. n \in Positions /\ t[n] \in {Empty, k}
      BY FindOne
    <3> QED
      BY <1>4, <3>1
  <2>3. Found(k) = {}
    BY <2>2 DEF Found, Used
  <2> QED
    BY <2>1, <2>3
<1> QED
  BY <1>3, <1>4

LEMMA TableHolding ==
  ASSUME TableInv
  PROVE  HoldsWhatWasPut
<1>1. TableTyped
  BY DEF TableInv
<1>2. ASSUME ~given.erased
      PROVE  /\ \A k \in Keys : Found(k) = given.now[k]
             /\ TableSize = Cardinality({k \in Keys : given.now[k] # {}})
  <2>1. Reached(table.keys, Cells, table.home, Empty) /\ \A k \in Keys : given.now[k] = ValuesAt(k)
    BY <1>2 DEF TableInv
  <2>2. \A k \in Keys : Found(k) = given.now[k]
    BY <1>1, <2>1, FindKnown
  <2> DEFINE S == {n \in Positions : Used(n)}
             T == {k \in Keys : given.now[k] # {}}
             f == [n \in S |-> table.keys[n]]
             t == table.keys
             h == table.home
  <2>3. Cells \in Nat /\ Positions = 0 .. Cells - 1 /\ Empty \notin Keys /\ Housed(t, Cells, h, Empty)
    BY <1>1, TableIs DEF Positions
  <2>4. IsFiniteSet(S)
    <3>1. IsFiniteSet(Positions)
      BY <2>3, FS_Interval
    <3> QED
      BY <3>1, FS_Subset
  <2>5. \A n \in S : t[n] \in Keys /\ t[n] # Empty
    BY <1>1 DEF TableTyped, Used
  <2>6. f \in [S -> T]
    <3>1. ASSUME NEW n \in S PROVE t[n] \in T
      <4>1. t[n] \in Keys /\ table.values[n] \in ValuesAt(t[n])
        BY <2>5 DEF ValuesAt
      <4> QED
        BY <2>1, <4>1
    <3> QED
      BY <3>1
  <2>7. ASSUME NEW m \in S, NEW n \in S, f[m] = f[n] PROVE m = n
    <3>1. t[m] # Empty /\ t[n] = t[m] /\ m \in 0 .. Cells - 1 /\ n \in 0 .. Cells - 1
      BY <2>3, <2>5, <2>7
    <3>2. Cells \in Nat /\ Housed(t, Cells, h, Empty) /\ Reached(t, Cells, h, Empty)
      BY <2>1, <2>3
    <3> HIDE DEF t, h, S, T, f
    <3> QED
      BY <3>1, <3>2, ReachedOnce
  <2>8. ASSUME NEW k \in T PROVE \E n \in S : f[n] = k
    <3>1. k \in Keys /\ ValuesAt(k) # {}
      BY <2>1
    <3>2. PICK n \in Positions : t[n] = k
      BY <3>1 DEF ValuesAt
    <3>3. n \in S
      BY <2>3, <3>1, <3>2 DEF Used
    <3> QED
      BY <3>2, <3>3
  <2> HIDE DEF S, T, f
  <2>9. Cardinality(T) = Cardinality(S)
    BY <2>4, <2>6, <2>7, <2>8, SameCount
  <2>10. TableSize = Cardinality(S)
    BY DEF TableSize, S
  <2> QED
    BY <2>2, <2>9, <2>10 DEF T
<1> QED
  BY <1>2 DEF TableInv, HoldsWhatWasPut

LEMMA PlacesFound ==
  ASSUME TableTyped
  PROVE  FindsPlaces
<1>1. Cells \in Nat /\ Positions = 0 .. Cells - 1 /\ Empty \notin Keys /\ Cells \notin Positions
  BY TableIs DEF Positions
<1> DEFINE S == {n \in Positions : Used(n)}
<1>2. IsFiniteSet(Positions) /\ Cardinality(Positions) = Cells
  BY <1>1, FS_Interval
<1>3. TableSize = Cardinality(S)
  BY DEF TableSize
<1> SUFFICES ASSUME NEW k \in Keys
             PROVE  /\ Exists(k) = (\E n \in Positions : Used(n) /\ FindPosition(k) = n)
                    /\ ~Exists(k) => (CompareCells(FindPosition(k), Cells) = 0 <=> TableSize = Cells)
                    /\ Exists(k) => CompareCells(FindPosition(k), Increment(FindPosition(k), FALSE)) < 0
  BY DEF FindsPlaces
<1>4. CASE FindIndex(k) = {}
  <2>1. FindPosition(k) = Cells /\ Exists(k) = FALSE
    BY <1>4 DEF FindPosition, Exists
  <2>2. S = Positions
    BY <1>4, FindNone DEF Used
  <2>3. TableSize = Cells
    BY <1>2, <1>3, <2>2
  <2>4. CompareCells(FindPosition(k), Cells) = 0
    BY <2>1 DEF CompareCells
  <2> QED
    BY <1>1, <2>1, <2>3, <2>4
<1>5. ASSUME NEW n \in FindIndex(k) PROVE
                    /\ Exists(k) = (\E m \in Positions : Used(m) /\ FindPosition(k) = m)
                    /\ ~Exists(k) => (CompareCells(FindPosition(k), Cells) = 0 <=> TableSize = Cells)
                    /\ Exists(k) => CompareCells(FindPosition(k), Increment(FindPosition(k), FALSE)) < 0
  <2>1. FindIndex(k) = {n} /\ n \in Positions
    BY FindOne
  <2>2. FindPosition(k) = n /\ (Exists(k) <=> Used(n))
    BY <2>1 DEF FindPosition, Exists
  <2>3. Exists(k) = (\E m \in Positions : Used(m) /\ FindPosition(k) = m)
    <3>1. Exists(k) \in BOOLEAN
      BY DEF Exists
    <3> QED
      BY <2>1, <2>2, <3>1
  <2>4. ASSUME ~Used(n) PROVE CompareCells(n, Cells) # 0 /\ TableSize # Cells
    <3>1. CompareCells(n, Cells) # 0
      BY <1>1, <2>1 DEF CompareCells
    <3>2. S \subseteq Positions /\ S # Positions
      BY <2>1, <2>4
    <3> HIDE DEF S
    <3>3. Cardinality(Positions) # Cardinality(S)
      BY <1>2, <3>2, FS_Subset
    <3> QED
      BY <1>2, <1>3, <3>1, <3>3 DEF S
  <2>5. CompareCells(n, Increment(n, FALSE)) < 0
    <3> DEFINE next == Increment(n, FALSE)
    <3>1. n \in -1 .. Cells - 1 /\ n \in Int
      BY <1>1, <2>1
    <3>2. next \in 0 .. Cells /\ next > n
      BY <3>1, NextIs DEF Increment
    <3> HIDE DEF next
    <3>3. CompareCells(n, next) = -1
      BY <3>1, <3>2 DEF CompareCells
    <3>4. CompareCells(n, next) < 0
      BY <3>3
    <3> QED
      BY <3>4 DEF next
  <2> QED
    BY <2>2, <2>3, <2>4, <2>5
<1> QED
  BY <1>4, <1>5

LEMMA TableHoldsIt ==
  ASSUME TableInv
  PROVE  TableHolds
  BY TableHolding, IteratesAll, PlacesFound DEF TableHolds, TableInv

-------------------------------------------------------------------------------
(* The ordered map.                                                        *)

(* The class of a key.                                                     *)
ClassOf(k) == k \div KeysPerClass

(* Call n is the first of its class, and x is the value its class has.     *)
FirstCall(P, n) == \A m \in 1 .. n - 1 : ClassOf(P[m][1]) # ClassOf(P[n][1])
SameClass(P, n) == {m \in 1 .. Len(P) : ClassOf(P[m][1]) = ClassOf(P[n][1])}
LastValue(P, n, x) ==
  \/ x = P[n][2] /\ \A m \in SameClass(P, n) : P[m][3] = FALSE
  \/ \E m \in SameClass(P, n) : /\ P[m][3] = TRUE /\ x = P[m][2]
                                /\ \A l \in SameClass(P, n) : l > m => P[l][3] = FALSE

(* The pairs o are those of the first calls, at[1], at[2] and so on.       *)
CallsMade == OrderedKeys \X (OrderedValues \cup {0}) \X BOOLEAN
Listed(P, o, at) ==
  /\ P \in Seq(CallsMade) /\ o \in Seq(OrderedKeys \X OrderedValues)
  /\ at \in [1 .. Len(o) -> 1 .. Len(P)]
  /\ \A i, j \in 1 .. Len(o) : i < j => at[i] < at[j]
  /\ \A n \in 1 .. Len(P) : FirstCall(P, n) <=> \E i \in 1 .. Len(o) : at[i] = n
  /\ \A i \in 1 .. Len(o) : o[i][1] = P[at[i]][1] /\ LastValue(P, at[i], o[i][2])

OrderedInv == \E at : Listed(putCalls, ordered, at)

LEMMA ClassIs ==
  ASSUME NEW k \in OrderedKeys, NEW l \in OrderedKeys
  PROVE  ClassOf(k) \in Int /\ (SameKey(k, l) <=> ClassOf(k) = ClassOf(l))
<1>1. k \in Nat /\ l \in Nat /\ KeysPerClass \in Nat /\ KeysPerClass > 0
  BY OrderedMapAssumption
<1>2. \A x \in Nat, y \in Nat : y > 0 => x \div y \in Int
  OBVIOUS
<1>3. ClassOf(k) \in Int /\ ClassOf(l) \in Int
  BY <1>1, <1>2 DEF ClassOf
<1>4. SameKey(k, l) <=> ~(ClassOf(k) < ClassOf(l)) /\ ~(ClassOf(l) < ClassOf(k))
  BY DEF SameKey, Less, ClassOf
<1> QED
  BY <1>3, <1>4

LEMMA CallIs ==
  ASSUME NEW P \in Seq(CallsMade), NEW n \in 1 .. Len(P)
  PROVE  P[n][1] \in OrderedKeys /\ P[n][2] \in OrderedValues /\ P[n][3] \in BOOLEAN /\ ClassOf(P[n][1]) \in Int
<1>1. P[n] \in CallsMade
  OBVIOUS
<1>2. P[n][1] \in OrderedKeys /\ P[n][2] \in OrderedValues \cup {0} /\ P[n][3] \in BOOLEAN
  BY <1>1 DEF CallsMade
<1> QED
  BY <1>2, ClassIs, OrderedMapAssumption

LEMMA PairIs ==
  ASSUME NEW o \in Seq(OrderedKeys \X OrderedValues), NEW i \in 1 .. Len(o)
  PROVE  o[i] = <<o[i][1], o[i][2]>> /\ o[i][1] \in OrderedKeys /\ o[i][2] \in OrderedValues
<1>1. o[i] \in OrderedKeys \X OrderedValues
  OBVIOUS
<1> QED
  BY <1>1

(* One more call.                                                          *)
LEMMA CallMore ==
  ASSUME NEW P \in Seq(CallsMade), NEW k \in OrderedKeys, NEW v \in OrderedValues, NEW r \in BOOLEAN
  PROVE  LET P2 == Append(P, <<k, v, r>>) IN
         /\ P2 \in Seq(CallsMade) /\ Len(P2) = Len(P) + 1 /\ Len(P) \in Nat
         /\ P2[Len(P) + 1][1] = k /\ P2[Len(P) + 1][2] = v /\ P2[Len(P) + 1][3] = r
         /\ \A n \in 1 .. Len(P) : P2[n] = P[n] /\ (FirstCall(P2, n) <=> FirstCall(P, n))
<1> DEFINE c == <<k, v, r>>
           P2 == Append(P, c)
<1>1. c \in CallsMade /\ c[1] = k /\ c[2] = v /\ c[3] = r
  BY DEF CallsMade
<1> HIDE DEF c
<1>2. P2 \in Seq(CallsMade) /\ Len(P2) = Len(P) + 1 /\ Len(P) \in Nat /\ P2[Len(P) + 1] = c
  BY <1>1
<1>3. \A n \in 1 .. Len(P) : P2[n] = P[n]
  OBVIOUS
<1> HIDE DEF P2
<1>4. ASSUME NEW n \in 1 .. Len(P) PROVE FirstCall(P2, n) <=> FirstCall(P, n)
  <2>1. \A m \in 1 .. n - 1 : m \in 1 .. Len(P)
    BY <1>2
  <2> QED
    BY <1>3, <2>1 DEF FirstCall
<1> QED
  BY <1>1, <1>2, <1>3, <1>4 DEF P2, c

(* A class has one first call.                                             *)
LEMMA FirstIsOne ==
  ASSUME NEW P \in Seq(CallsMade), NEW m \in 1 .. Len(P), NEW n \in 1 .. Len(P),
         FirstCall(P, m), FirstCall(P, n), ClassOf(P[m][1]) = ClassOf(P[n][1])
  PROVE  m = n
<1>1. Len(P) \in Nat
  OBVIOUS
<1>2. ~(m < n)
  BY <1>1 DEF FirstCall
<1>3. ~(n < m)
  BY <1>1 DEF FirstCall
<1> QED
  BY <1>1, <1>2, <1>3

LEMMA FirstIs ==
  ASSUME NEW P \in Seq(CallsMade), NEW n \in 1 .. Len(P)
  PROVE  \E m \in 1 .. Len(P) : m <= n /\ FirstCall(P, m) /\ ClassOf(P[m][1]) = ClassOf(P[n][1])
<1> DEFINE S == {m \in 1 .. Len(P) : ClassOf(P[m][1]) = ClassOf(P[n][1])}
<1>1. S \in SUBSET Nat /\ n \in S /\ Len(P) \in Nat
  OBVIOUS
<1>2. PICK m \in S : \A j \in S : m <= j
  <2> HIDE DEF S
  <2> QED
    BY <1>1, LeastNatural
<1>3. m \in 1 .. Len(P) /\ m <= n /\ ClassOf(P[m][1]) = ClassOf(P[n][1])
  BY <1>1, <1>2
<1>4. ASSUME NEW j \in 1 .. m - 1 PROVE ClassOf(P[j][1]) # ClassOf(P[m][1])
  <2>1. j \in 1 .. Len(P) /\ ~(m <= j)
    BY <1>1, <1>3
  <2> QED
    BY <1>2, <1>3, <2>1
<1> QED
  BY <1>3, <1>4 DEF FirstCall

LEMMA ValueKept ==
  ASSUME NEW P \in Seq(CallsMade), NEW k \in OrderedKeys, NEW v \in OrderedValues, NEW r \in BOOLEAN,
         NEW n \in 1 .. Len(P), NEW x, LastValue(P, n, x), r = FALSE \/ ClassOf(P[n][1]) # ClassOf(k)
  PROVE  LastValue(Append(P, <<k, v, r>>), n, x)
<1> DEFINE P2 == Append(P, <<k, v, r>>)
           L == Len(P) + 1
<1>1. /\ Len(P2) = L /\ Len(P) \in Nat /\ P2[L][1] = k /\ P2[L][3] = r /\ P2 \in Seq(CallsMade)
      /\ \A m \in 1 .. Len(P) : P2[m] = P[m]
  BY CallMore
<1> HIDE DEF P2
<1>2. \A m \in 1 .. L : m \in 1 .. Len(P) \/ m = L
  BY <1>1
<1>3. SameClass(P, n) \subseteq SameClass(P2, n) /\ SameClass(P, n) \subseteq 1 .. Len(P)
  BY <1>1 DEF SameClass
<1>4. \A m \in SameClass(P2, n) : m \in SameClass(P, n) \/ (m = L /\ P2[m][3] = FALSE)
  <2>1. ASSUME NEW m \in SameClass(P2, n) PROVE m \in SameClass(P, n) \/ (m = L /\ P2[m][3] = FALSE)
    <3>1. m \in 1 .. L /\ ClassOf(P2[m][1]) = ClassOf(P[n][1])
      BY <1>1 DEF SameClass
    <3>2. CASE m \in 1 .. Len(P)
      BY <1>1, <3>1, <3>2 DEF SameClass
    <3>3. CASE m = L
      BY <1>1, <3>1, <3>3
    <3> QED
      BY <1>2, <3>1, <3>2, <3>3
  <2> QED
    BY <2>1
<1>5. \A m \in SameClass(P, n) : P2[m] = P[m]
  BY <1>1, <1>3
<1>6. CASE x = P[n][2] /\ \A m \in SameClass(P, n) : P[m][3] = FALSE
  <2>1. \A m \in SameClass(P2, n) : P2[m][3] = FALSE
    BY <1>4, <1>5, <1>6
  <2>2. x = P2[n][2]
    BY <1>1, <1>6
  <2>3. LastValue(P2, n, x)
    BY <2>1, <2>2 DEF LastValue
  <2> QED
    BY <2>3 DEF P2
<1>7. ASSUME NEW m \in SameClass(P, n), P[m][3] = TRUE, x = P[m][2],
             \A l \in SameClass(P, n) : l > m => P[l][3] = FALSE
      PROVE  LastValue(P2, n, x)
  <2>1. \A l \in SameClass(P2, n) : l > m => P2[l][3] = FALSE
    BY <1>4, <1>5, <1>7
  <2> QED
    BY <1>3, <1>5, <1>7, <2>1 DEF LastValue
<1> QED
  BY <1>6, <1>7 DEF LastValue, P2

LEMMA ValueSet ==
  ASSUME NEW P \in Seq(CallsMade), NEW k \in OrderedKeys, NEW v \in OrderedValues,
         NEW r \in BOOLEAN, NEW n \in 1 .. Len(P), ClassOf(P[n][1]) = ClassOf(k)
  PROVE  r = TRUE => LastValue(Append(P, <<k, v, r>>), n, v)
<1> DEFINE P2 == Append(P, <<k, v, r>>)
           L == Len(P) + 1
<1>1. /\ Len(P2) = L /\ Len(P) \in Nat /\ P2[L][1] = k /\ P2[L][2] = v /\ P2[L][3] = r
      /\ \A m \in 1 .. Len(P) : P2[m] = P[m]
  BY CallMore
<1> HIDE DEF P2
<1>2. L \in SameClass(P2, n)
  BY <1>1 DEF SameClass
<1>3. \A l \in SameClass(P2, n) : ~(l > L)
  BY <1>1 DEF SameClass
<1>4. r = TRUE => LastValue(P2, n, v)
  BY <1>1, <1>2, <1>3 DEF LastValue
<1> QED
  BY <1>4 DEF P2

LEMMA ValueNew ==
  ASSUME NEW P \in Seq(CallsMade), NEW k \in OrderedKeys, NEW v \in OrderedValues, NEW r \in BOOLEAN,
         \A m \in 1 .. Len(P) : ClassOf(P[m][1]) # ClassOf(k)
  PROVE  LET P2 == Append(P, <<k, v, r>>) IN FirstCall(P2, Len(P) + 1) /\ LastValue(P2, Len(P) + 1, v)
<1> DEFINE P2 == Append(P, <<k, v, r>>)
           L == Len(P) + 1
<1>1. /\ Len(P2) = L /\ Len(P) \in Nat /\ P2[L][1] = k /\ P2[L][2] = v /\ P2[L][3] = r
      /\ \A m \in 1 .. Len(P) : P2[m] = P[m]
  BY CallMore
<1> HIDE DEF P2
<1>2. FirstCall(P2, L)
  <2>1. ASSUME NEW m \in 1 .. L - 1 PROVE ClassOf(P2[m][1]) # ClassOf(P2[L][1])
    <3>1. m \in 1 .. Len(P)
      BY <1>1
    <3> QED
      BY <1>1, <3>1
  <2> QED
    BY <2>1 DEF FirstCall
<1>3. SameClass(P2, L) = {L}
  <2>1. ASSUME NEW m \in 1 .. L, ClassOf(P2[m][1]) = ClassOf(k) PROVE m = L
    <3>1. m \in 1 .. Len(P) \/ m = L
      BY <1>1
    <3> QED
      BY <1>1, <2>1, <3>1
  <2>2. L \in 1 .. L
    BY <1>1
  <2> QED
    BY <1>1, <2>1, <2>2 DEF SameClass
<1>4. LastValue(P2, L, v)
  <2>1. CASE r = TRUE
    <3>1. ~(L > L)
      BY <1>1
    <3> QED
      BY <1>1, <1>3, <2>1, <3>1 DEF LastValue
  <2>2. CASE r = FALSE
    BY <1>1, <1>3, <2>2 DEF LastValue
  <2> QED
    BY <2>1, <2>2
<1> QED
  BY <1>2, <1>4 DEF P2

(* A call with a key of a class that is there.                             *)
LEMMA ListedSame ==
  ASSUME NEW P, NEW o, NEW at, Listed(P, o, at), NEW k \in OrderedKeys, NEW v \in OrderedValues,
         NEW r \in BOOLEAN, NEW pos \in 1 .. Len(o), ClassOf(o[pos][1]) = ClassOf(k)
  PROVE  Listed(Append(P, <<k, v, r>>), IF r THEN [o EXCEPT ![pos][2] = v] ELSE o, at)
<1> DEFINE P2 == Append(P, <<k, v, r>>)
           o2 == IF r THEN [o EXCEPT ![pos][2] = v] ELSE o
           L == Len(P) + 1
<1>1. /\ P \in Seq(CallsMade) /\ o \in Seq(OrderedKeys \X OrderedValues) /\ at \in [1 .. Len(o) -> 1 .. Len(P)]
      /\ \A i, j \in 1 .. Len(o) : i < j => at[i] < at[j]
      /\ \A n \in 1 .. Len(P) : FirstCall(P, n) <=> \E i \in 1 .. Len(o) : at[i] = n
      /\ \A i \in 1 .. Len(o) : o[i][1] = P[at[i]][1] /\ LastValue(P, at[i], o[i][2])
  BY DEF Listed
<1>2. /\ Len(P2) = L /\ Len(P) \in Nat /\ P2 \in Seq(CallsMade) /\ P2[L][1] = k
      /\ \A m \in 1 .. Len(P) : P2[m] = P[m] /\ (FirstCall(P2, m) <=> FirstCall(P, m))
  BY <1>1, CallMore
<1>3. /\ o2 \in Seq(OrderedKeys \X OrderedValues) /\ Len(o2) = Len(o) /\ Len(o) \in Nat
      /\ \A i \in 1 .. Len(o) : o2[i][1] = o[i][1] /\ (i # pos => o2[i] = o[i])
      /\ o2[pos][2] = IF r THEN v ELSE o[pos][2]
  <2>1. o[pos] = <<o[pos][1], o[pos][2]>> /\ o[pos][1] \in OrderedKeys /\ o[pos][2] \in OrderedValues
    BY <1>1, PairIs
  <2> DEFINE x == o[pos][1]
             y == o[pos][2]
             z == [o EXCEPT ![pos] = <<x, v>>]
  <2>2. [o EXCEPT ![pos][2] = v] = z
    <3>1. [o EXCEPT ![pos][2] = v] = [o EXCEPT ![pos] = [o[pos] EXCEPT ![2] = v]]
      OBVIOUS
    <3>2. [<<x, y>> EXCEPT ![2] = v] = <<x, v>>
      OBVIOUS
    <3> QED
      BY <2>1, <3>1, <3>2
  <2>3. CASE r = TRUE
    <3>1. o2 = z
      BY <2>2, <2>3
    <3>2. <<x, v>> \in OrderedKeys \X OrderedValues
      BY <2>1
    <3> DEFINE p == <<x, v>>
    <3>3. p[1] = x /\ p[2] = v
      OBVIOUS
    <3> DEFINE Pairs == OrderedKeys \X OrderedValues
    <3>5. p \in Pairs /\ o \in Seq(Pairs)
      BY <1>1, <3>2
    <3>6. o2 = [o EXCEPT ![pos] = p]
      BY <3>1
    <3> HIDE DEF p, x, Pairs, o2
    <3>4. o2 \in Seq(OrderedKeys \X OrderedValues) /\ Len(o2) = Len(o) /\ Len(o) \in Nat
          /\ o2[pos] = p /\ \A i \in 1 .. Len(o) : i # pos => o2[i] = o[i]
      <4>1. o2 \in Seq(Pairs) /\ Len(o2) = Len(o) /\ Len(o) \in Nat
        BY <3>5, <3>6
      <4>2. o2[pos] = p /\ \A i \in 1 .. Len(o) : i # pos => o2[i] = o[i]
        BY <3>5, <3>6
      <4> QED
        BY <4>1, <4>2 DEF Pairs
    <3> QED
      BY <2>3, <3>3, <3>4 DEF x
  <2>4. CASE r = FALSE
    BY <1>1, <2>4
  <2> QED
    BY <2>3, <2>4
<1>4. \A n \in 1 .. L : n \in 1 .. Len(P) \/ n = L
  BY <1>2
<1>5. at[pos] \in 1 .. Len(P) /\ FirstCall(P, at[pos]) /\ ClassOf(P[at[pos]][1]) = ClassOf(k)
  BY <1>1
<1> HIDE DEF P2, o2
<1>6. ~FirstCall(P2, L)
  <2>1. at[pos] \in 1 .. L - 1 /\ ClassOf(P2[at[pos]][1]) = ClassOf(P2[L][1])
    BY <1>2, <1>5
  <2> QED
    BY <2>1 DEF FirstCall
<1>7. \A n \in 1 .. Len(P2) : FirstCall(P2, n) <=> \E i \in 1 .. Len(o2) : at[i] = n
  <2>1. ASSUME NEW n \in 1 .. Len(P2) PROVE FirstCall(P2, n) <=> \E i \in 1 .. Len(o) : at[i] = n
    <3>1. CASE n \in 1 .. Len(P)
      BY <1>1, <1>2, <3>1
    <3>2. CASE n = L
      <4>1. \A i \in 1 .. Len(o) : at[i] # n
        <5>1. \A i \in 1 .. Len(o) : at[i] \in 1 .. Len(P)
          BY <1>1
        <5>2. n \notin 1 .. Len(P)
          BY <1>1, <1>2, <3>2
        <5> QED
          BY <5>1, <5>2
      <4> QED
        BY <1>6, <3>2, <4>1
    <3> QED
      BY <1>2, <1>4, <3>1, <3>2
  <2> QED
    BY <1>3, <2>1
<1>8. ASSUME NEW i \in 1 .. Len(o) PROVE o2[i][1] = P2[at[i]][1] /\ LastValue(P2, at[i], o2[i][2])
  <2>1. at[i] \in 1 .. Len(P) /\ o[i][1] = P[at[i]][1] /\ LastValue(P, at[i], o[i][2]) /\ FirstCall(P, at[i])
    BY <1>1
  <2>2. o2[i][1] = P2[at[i]][1]
    BY <1>2, <1>3, <2>1
  <2>3. CASE i # pos
    <3>1. ClassOf(P[at[i]][1]) # ClassOf(k)
      <4>1. ASSUME ClassOf(P[at[i]][1]) = ClassOf(k) PROVE FALSE
        <5>1. at[i] = at[pos]
          BY <1>1, <1>5, <2>1, <4>1, FirstIsOne
        <5>0. at[i] \in Nat /\ at[pos] \in Nat
          BY <1>1
        <5>4. (i < pos => at[i] < at[pos]) /\ (pos < i => at[pos] < at[i])
          BY <1>1
        <5>2. ~(i < pos)
          BY <5>0, <5>1, <5>4
        <5>3. ~(pos < i)
          BY <5>0, <5>1, <5>4
        <5> QED
          BY <2>3, <5>2, <5>3
      <4> QED
        BY <4>1
    <3>2. LastValue(P2, at[i], o[i][2])
      BY <1>1, <2>1, <3>1, ValueKept DEF P2
    <3> QED
      BY <1>3, <2>2, <2>3, <3>2
  <2>4. CASE i = pos /\ r = FALSE
    <3>1. LastValue(P2, at[i], o[i][2])
      BY <1>1, <2>1, <2>4, ValueKept DEF P2
    <3> QED
      BY <1>3, <2>2, <2>4, <3>1
  <2>5. CASE i = pos /\ r = TRUE
    <3>1. LastValue(P2, at[i], v)
      BY <1>1, <1>5, <2>1, <2>5, ValueSet DEF P2
    <3> QED
      BY <1>3, <2>2, <2>5, <3>1
  <2> QED
    BY <2>3, <2>4, <2>5
<1>9. at \in [1 .. Len(o2) -> 1 .. Len(P2)]
  <2>1. 1 .. Len(P) \subseteq 1 .. Len(P2)
    BY <1>2
  <2> QED
    BY <1>1, <1>3, <2>1
<1>10. Listed(P2, o2, at)
  BY <1>1, <1>2, <1>3, <1>7, <1>8, <1>9 DEF Listed
<1> QED
  BY <1>10 DEF P2, o2

(* A call with a key of a new class.                                       *)
LEMMA ListedNew ==
  ASSUME NEW P, NEW o, NEW at, Listed(P, o, at), NEW k \in OrderedKeys, NEW v \in OrderedValues,
         NEW r \in BOOLEAN, \A i \in 1 .. Len(o) : ClassOf(o[i][1]) # ClassOf(k)
  PROVE  \E at2 : Listed(Append(P, <<k, v, r>>), Append(o, <<k, v>>), at2)
<1> DEFINE P2 == Append(P, <<k, v, r>>)
           p == <<k, v>>
           o2 == Append(o, p)
           L == Len(P) + 1
           N == Len(o) + 1
           at2 == [i \in 1 .. N |-> IF i = N THEN L ELSE at[i]]
<1>1. /\ P \in Seq(CallsMade) /\ o \in Seq(OrderedKeys \X OrderedValues) /\ at \in [1 .. Len(o) -> 1 .. Len(P)]
      /\ \A i, j \in 1 .. Len(o) : i < j => at[i] < at[j]
      /\ \A n \in 1 .. Len(P) : FirstCall(P, n) <=> \E i \in 1 .. Len(o) : at[i] = n
      /\ \A i \in 1 .. Len(o) : o[i][1] = P[at[i]][1] /\ LastValue(P, at[i], o[i][2])
  BY DEF Listed
<1>2. /\ Len(P2) = L /\ Len(P) \in Nat /\ P2 \in Seq(CallsMade) /\ P2[L][1] = k
      /\ \A m \in 1 .. Len(P) : P2[m] = P[m] /\ (FirstCall(P2, m) <=> FirstCall(P, m))
  BY <1>1, CallMore
<1>3. p \in OrderedKeys \X OrderedValues /\ p[1] = k /\ p[2] = v
  OBVIOUS
<1> HIDE DEF p
<1>4. /\ o2 \in Seq(OrderedKeys \X OrderedValues) /\ Len(o2) = N /\ Len(o) \in Nat
      /\ o2[N] = p /\ \A i \in 1 .. Len(o) : o2[i] = o[i]
  BY <1>1, <1>3
<1>5. \A m \in 1 .. Len(P) : ClassOf(P[m][1]) # ClassOf(k)
  <2>1. ASSUME NEW m \in 1 .. Len(P), ClassOf(P[m][1]) = ClassOf(k) PROVE FALSE
    <3>1. PICK n \in 1 .. Len(P) : FirstCall(P, n) /\ ClassOf(P[n][1]) = ClassOf(P[m][1])
      BY <1>1, FirstIs
    <3>2. PICK i \in 1 .. Len(o) : at[i] = n
      BY <1>1, <3>1
    <3>3. ClassOf(o[i][1]) = ClassOf(k)
      BY <1>1, <2>1, <3>1, <3>2
    <3> QED
      BY <3>3
  <2> QED
    BY <2>1
<1>6. FirstCall(P2, L) /\ LastValue(P2, L, v)
  BY <1>1, <1>5, ValueNew
<1> HIDE DEF P2, o2
<1>7. /\ at2 \in [1 .. N -> 1 .. L] /\ at2[N] = L
      /\ \A i \in 1 .. Len(o) : at2[i] = at[i] /\ at[i] \in 1 .. Len(P)
  <2>1. \A i \in 1 .. N : i = N \/ i \in 1 .. Len(o)
    BY <1>4
  <2>2. \A i \in 1 .. Len(o) : i # N /\ i \in 1 .. N /\ at[i] \in 1 .. Len(P) /\ at[i] \in 1 .. L
    BY <1>1, <1>2, <1>4
  <2>3. N \in 1 .. N /\ L \in 1 .. L
    BY <1>2, <1>4
  <2> QED
    BY <2>1, <2>2, <2>3
<1> HIDE DEF at2
<1>8. \A i \in 1 .. N : i = N \/ i \in 1 .. Len(o)
  BY <1>4
<1>9. \A n \in 1 .. L : n = L \/ n \in 1 .. Len(P)
  BY <1>2
<1>10. ASSUME NEW i \in 1 .. N, NEW j \in 1 .. N, i < j PROVE at2[i] < at2[j]
  <2>1. i \in 1 .. Len(o)
    BY <1>4, <1>10
  <2>2. CASE j \in 1 .. Len(o)
    BY <1>1, <1>7, <1>10, <2>1, <2>2
  <2>3. CASE j = N
    <3>1. at2[i] \in 1 .. Len(P) /\ at2[j] = L
      BY <1>7, <2>1, <2>3
    <3> QED
      BY <1>2, <3>1
  <2> QED
    BY <1>8, <2>2, <2>3
<1>11. ASSUME NEW n \in 1 .. L PROVE FirstCall(P2, n) <=> \E i \in 1 .. N : at2[i] = n
  <2>1. CASE n = L
    <3>1. N \in 1 .. N
      BY <1>4
    <3> QED
      BY <1>6, <1>7, <2>1, <3>1
  <2>2. CASE n \in 1 .. Len(P)
    <3>1. FirstCall(P2, n) <=> \E i \in 1 .. Len(o) : at[i] = n
      BY <1>1, <1>2, <2>2
    <3>2. n # L
      BY <1>2, <2>2
    <3>3. \A i \in 1 .. Len(o) : i \in 1 .. N
      BY <1>4
    <3> QED
      BY <1>7, <1>8, <3>1, <3>2, <3>3
  <2> QED
    BY <1>9, <2>1, <2>2
<1>12. ASSUME NEW i \in 1 .. N PROVE o2[i][1] = P2[at2[i]][1] /\ LastValue(P2, at2[i], o2[i][2])
  <2>1. CASE i = N
    BY <1>2, <1>3, <1>4, <1>6, <1>7, <2>1
  <2>2. CASE i \in 1 .. Len(o)
    <3>1. o2[i] = o[i] /\ at2[i] = at[i] /\ at[i] \in 1 .. Len(P) /\ o[i][1] = P[at[i]][1] /\ LastValue(P, at[i], o[i][2])
      BY <1>1, <1>4, <1>7, <2>2
    <3>2. P2[at[i]] = P[at[i]] /\ ClassOf(P[at[i]][1]) # ClassOf(k)
      BY <1>2, <1>5, <3>1
    <3>3. LastValue(P2, at[i], o[i][2])
      BY <1>1, <3>1, <3>2, ValueKept DEF P2
    <3> QED
      BY <3>1, <3>2, <3>3
  <2> QED
    BY <1>8, <2>1, <2>2
<1>13. Listed(P2, o2, at2)
  BY <1>2, <1>4, <1>7, <1>10, <1>11, <1>12 DEF Listed
<1> QED
  BY <1>13 DEF P2, o2, p

(* Where a key is found.                                                   *)
LEMMA FoundKey ==
  ASSUME ordered \in Seq(OrderedKeys \X OrderedValues), NEW k \in OrderedKeys
  PROVE  /\ DOMAIN ordered = 1 .. Len(ordered) /\ Len(ordered) \in Nat
         /\ FindKey(k) \in 1 .. Len(ordered) => ClassOf(ordered[FindKey(k)][1]) = ClassOf(k)
         /\ FindKey(k) \notin 1 .. Len(ordered) =>
              /\ FindKey(k) = Len(ordered) + 1
              /\ \A i \in 1 .. Len(ordered) : ClassOf(ordered[i][1]) # ClassOf(k)
<1> DEFINE o == ordered
           N == Len(o) + 1
           S == {n \in DOMAIN o : SameKey(o[n][1], k)} \cup {N}
           pos == FindKey(k)
<1>1. DOMAIN o = 1 .. Len(o) /\ Len(o) \in Nat
  OBVIOUS
<1>2. \A i \in 1 .. Len(o) : SameKey(o[i][1], k) <=> ClassOf(o[i][1]) = ClassOf(k)
  BY PairIs, ClassIs
<1>3. S \in SUBSET Nat /\ S # {}
  BY <1>1
<1>4. pos \in S /\ \A n \in S : pos <= n
  <2>1. \E m \in S : \A n \in S : m <= n
    <3> HIDE DEF S
    <3> QED
      BY <1>3, LeastNatural
  <2>2. pos = CHOOSE m \in S : \A n \in S : m <= n
    BY DEF FindKey, Min
  <2> HIDE DEF S, pos
  <2> QED
    BY <2>1, <2>2
<1> HIDE DEF pos
<1>5. pos \in 1 .. Len(o) => ClassOf(o[pos][1]) = ClassOf(k)
  <2>1. N \notin 1 .. Len(o)
    BY <1>1
  <2>2. pos \in 1 .. Len(o) => SameKey(o[pos][1], k)
    BY <1>1, <1>4, <2>1
  <2> QED
    BY <1>2, <2>2
<1>6. ASSUME pos \notin 1 .. Len(o)
      PROVE  pos = N /\ \A i \in 1 .. Len(o) : ClassOf(o[i][1]) # ClassOf(k)
  <2>1. pos = N
    BY <1>1, <1>4, <1>6
  <2>2. ASSUME NEW i \in 1 .. Len(o), ClassOf(o[i][1]) = ClassOf(k) PROVE FALSE
    <3>1. i \in S
      BY <1>1, <1>2, <2>2
    <3>2. pos <= i
      BY <1>4, <3>1
    <3> QED
      BY <1>1, <2>1, <3>2
  <2> QED
    BY <2>1, <2>2
<1> QED
  BY <1>1, <1>5, <1>6 DEF pos

LEMMA OrderedCall ==
  ASSUME OrderedInv, NEW k \in OrderedKeys, NEW v \in OrderedValues, NEW r \in BOOLEAN,
         putCalls' = Append(putCalls, <<k, v, r>>),
         ordered' = IF FindKey(k) \in 1 .. Len(ordered)
                      THEN IF r THEN [ordered EXCEPT ![FindKey(k)][2] = v] ELSE ordered
                    ELSE Append(ordered, <<k, v>>)
  PROVE  OrderedInv'
<1> DEFINE pos == FindKey(k)
<1>1. PICK at : Listed(putCalls, ordered, at)
  BY DEF OrderedInv
<1>2. ordered \in Seq(OrderedKeys \X OrderedValues)
  BY <1>1 DEF Listed
<1>3. /\ pos \in 1 .. Len(ordered) => ClassOf(ordered[pos][1]) = ClassOf(k)
      /\ pos \notin 1 .. Len(ordered) => \A i \in 1 .. Len(ordered) : ClassOf(ordered[i][1]) # ClassOf(k)
  BY <1>2, FoundKey
<1> HIDE DEF pos
<1>4. CASE pos \in 1 .. Len(ordered)
  <2>1. ordered' = IF r THEN [ordered EXCEPT ![pos][2] = v] ELSE ordered
    BY <1>4 DEF pos
  <2>2. Listed(Append(putCalls, <<k, v, r>>), IF r THEN [ordered EXCEPT ![pos][2] = v] ELSE ordered, at)
    BY <1>1, <1>3, <1>4, ListedSame
  <2>3. Listed(putCalls', ordered', at)
    BY <2>1, <2>2
  <2> QED
    BY <2>3 DEF OrderedInv
<1>5. CASE pos \notin 1 .. Len(ordered)
  <2>1. ordered' = Append(ordered, <<k, v>>)
    BY <1>5 DEF pos
  <2>2. \E at2 : Listed(putCalls', ordered', at2)
    BY <1>1, <1>3, <1>5, <2>1, ListedNew
  <2> QED
    BY <2>2 DEF OrderedInv
<1> QED
  BY <1>4, <1>5

LEMMA OrderedNone ==
  ASSUME NEW P, NEW o, P = <<>>, o = <<>>
  PROVE  \E at : Listed(P, o, at)
<1> DEFINE at == [i \in 1 .. Len(o) |-> 1]
<1>1. P \in Seq(CallsMade) /\ o \in Seq(OrderedKeys \X OrderedValues) /\ Len(P) = 0 /\ Len(o) = 0
  OBVIOUS
<1>2. \A i \in 1 .. Len(o) : FALSE
  BY <1>1
<1>3. \A i \in 1 .. Len(P) : FALSE
  BY <1>1
<1>4. at \in [1 .. Len(o) -> 1 .. Len(P)]
  BY <1>2
<1> HIDE DEF at
<1>5. Listed(P, o, at)
  BY <1>1, <1>2, <1>3, <1>4 DEF Listed
<1> QED
  BY <1>5

LEMMA OrderedBegin == OrderedInit => OrderedInv
  BY OrderedNone DEF OrderedInit, OrderedInv

LEMMA OrderedStep ==
  ASSUME OrderedInv, OrderedNext
  PROVE  OrderedInv'
<1>1. ordered \in Seq(OrderedKeys \X OrderedValues) /\ 0 \in OrderedValues
  BY OrderedMapAssumption DEF OrderedInv, Listed
<1>2. CASE ClearOrdered
  <2>1. putCalls' = <<>> /\ ordered' = <<>>
    BY <1>2 DEF ClearOrdered
  <2> QED
    BY <2>1, OrderedNone DEF OrderedInv
<1>3. ASSUME NEW k \in OrderedKeys, NEW v \in OrderedValues, InsertPair(k, v) \/ AtKey(k, v) \/ AtKeyChecked(k, v)
      PROVE  OrderedInv'
  <2> DEFINE pos == FindKey(k)
             no == FALSE
             yes == TRUE
  <2>1. DOMAIN ordered = 1 .. Len(ordered) /\ Len(ordered) \in Nat
        /\ (pos \notin 1 .. Len(ordered) => pos = Len(ordered) + 1)
    BY <1>1, FoundKey
  <2>2. no \in BOOLEAN /\ yes \in BOOLEAN /\ yes /\ ~no
    OBVIOUS
  <2>3. ASSUME NEW z \in OrderedValues, Asks(k, z, FALSE),
               ordered' = IF pos \in DOMAIN ordered THEN ordered ELSE Append(ordered, <<k, z>>)
        PROVE  OrderedInv'
    <3>1. putCalls' = Append(putCalls, <<k, z, no>>)
      BY <2>3 DEF Asks
    <3>2. ordered' = IF pos \in 1 .. Len(ordered)
                       THEN IF no THEN [ordered EXCEPT ![pos][2] = z] ELSE ordered
                     ELSE Append(ordered, <<k, z>>)
      BY <2>1, <2>3
    <3> HIDE DEF no
    <3> QED
      BY <2>2, <3>1, <3>2, OrderedCall
  <2>4. ASSUME Asks(k, v, TRUE),
               pos \in DOMAIN ordered => ordered' = [ordered EXCEPT ![pos][2] = v],
               pos \notin DOMAIN ordered => ordered' = Append(ordered, <<k, v>>)
        PROVE  OrderedInv'
    <3>1. putCalls' = Append(putCalls, <<k, v, yes>>)
      BY <2>4 DEF Asks
    <3>2. ordered' = IF pos \in 1 .. Len(ordered)
                       THEN IF yes THEN [ordered EXCEPT ![pos][2] = v] ELSE ordered
                     ELSE Append(ordered, <<k, v>>)
      BY <2>1, <2>4
    <3> HIDE DEF yes
    <3> QED
      BY <2>2, <3>1, <3>2, OrderedCall
  <2>5. CASE InsertPair(k, v)
    BY <2>3, <2>5 DEF InsertPair
  <2>6. CASE AtKeyChecked(k, v)
    <3>1. Asks(k, v, TRUE) /\ pos \in DOMAIN ordered /\ ordered' = [ordered EXCEPT ![pos][2] = v]
      BY <2>6 DEF AtKeyChecked
    <3> HIDE DEF pos
    <3> QED
      BY <2>4, <3>1
  <2>7. CASE AtKey(k, v)
    <3> DEFINE kept == IF pos \in DOMAIN ordered THEN ordered ELSE Append(ordered, <<k, 0>>)
    <3>1. \/ Asks(k, 0, FALSE) /\ ordered' = kept
          \/ Asks(k, v, TRUE) /\ ordered' = [kept EXCEPT ![pos][2] = v]
      BY <2>7 DEF AtKey
    <3>2. CASE Asks(k, 0, FALSE) /\ ordered' = kept
      BY <1>1, <2>3, <3>2
    <3>3. CASE Asks(k, v, TRUE) /\ ordered' = [kept EXCEPT ![pos][2] = v]
      <4>1. pos \in DOMAIN ordered => ordered' = [ordered EXCEPT ![pos][2] = v]
        BY <3>3
      <4>2. ASSUME pos \notin DOMAIN ordered PROVE ordered' = Append(ordered, <<k, v>>)
        <5> DEFINE o == ordered
                   p == <<k, 0>>
                   q == <<k, v>>
                   more == Append(o, p)
        <5>1. pos = Len(o) + 1
          BY <2>1, <4>2
        <5>2. ordered' = [more EXCEPT ![pos][2] = v]
          BY <3>3, <4>2
        <5>3. [p EXCEPT ![2] = v] = q
          OBVIOUS
        <5>4. p \in OrderedKeys \X OrderedValues /\ q \in OrderedKeys \X OrderedValues
          BY <1>1
        <5> DEFINE Pairs == OrderedKeys \X OrderedValues
        <5>5. o \in Seq(Pairs) /\ p \in Pairs /\ q \in Pairs
          BY <1>1, <5>4
        <5>6. ordered' = [more EXCEPT ![pos] = [more[pos] EXCEPT ![2] = v]]
          BY <5>2
        <5> HIDE DEF p, q, Pairs, pos, o
        <5>7. more[pos] = p
          BY <5>1, <5>5
        <5>8. ordered' = [more EXCEPT ![pos] = q]
          BY <5>3, <5>6, <5>7
        <5>9. [more EXCEPT ![pos] = q] = Append(o, q)
          <6> DEFINE a == [more EXCEPT ![pos] = q]
                     b == Append(o, q)
          <6>1. more \in Seq(Pairs) /\ Len(more) = Len(o) + 1 /\ Len(o) \in Nat
                /\ \A i \in 1 .. Len(o) : more[i] = o[i]
            BY <5>5
          <6> HIDE DEF more
          <6>2. a \in Seq(Pairs) /\ Len(a) = Len(o) + 1 /\ a[pos] = q /\ \A i \in 1 .. Len(o) : a[i] = o[i]
            BY <5>1, <5>5, <6>1
          <6>3. b \in Seq(Pairs) /\ Len(b) = Len(o) + 1 /\ b[pos] = q /\ \A i \in 1 .. Len(o) : b[i] = o[i]
            BY <5>1, <5>5, <6>1
          <6> HIDE DEF a, b
          <6>4. ASSUME NEW i \in 1 .. Len(a) PROVE a[i] = b[i]
            <7>1. i \in 1 .. Len(o) \/ i = pos
              BY <5>1, <6>1, <6>2
            <7> QED
              BY <6>2, <6>3, <7>1
          <6>5. a = b
            BY <6>2, <6>3, <6>4, SeqEqual
          <6> QED
            BY <6>5 DEF a, b
        <5> QED
          BY <5>8, <5>9 DEF o, q
      <4> HIDE DEF pos
      <4> QED
        BY <2>4, <3>3, <4>1, <4>2
    <3> QED
      BY <3>1, <3>2, <3>3
  <2> QED
    BY <1>3, <2>5, <2>6, <2>7
<1> QED
  BY <1>2, <1>3 DEF OrderedNext

LEMMA OrderedRest ==
  ASSUME OrderedInv, UNCHANGED orderedVars
  PROVE  OrderedInv'
  BY DEF OrderedInv, orderedVars

LEMMA MinOfSome ==
  ASSUME NEW S \in SUBSET Nat, NEW n \in S
  PROVE  n = Min(S) <=> \A m \in S : n <= m
<1>1. \E m \in S : \A j \in S : m <= j
  BY LeastNatural
<1>2. Min(S) = CHOOSE m \in S : \A j \in S : m <= j
  BY DEF Min
<1>3. Min(S) \in S /\ \A j \in S : Min(S) <= j
  BY <1>1, <1>2
<1>4. Min(S) \in Nat /\ n \in Nat
  BY <1>3
<1>5. ASSUME \A m \in S : n <= m PROVE n = Min(S)
  <2>1. n <= Min(S) /\ Min(S) <= n
    BY <1>3, <1>5
  <2> QED
    BY <1>4, <2>1
<1> QED
  BY <1>3, <1>5

LEMMA MaxOfSome ==
  ASSUME NEW S \in SUBSET Nat, NEW n \in S, \A m \in S : ~(m > n)
  PROVE  Max(S) = n
<1>1. \A m \in S : n >= m
  OBVIOUS
<1>2. Max(S) = CHOOSE m \in S : \A j \in S : m >= j
  BY DEF Max
<1>3. Max(S) \in S /\ \A j \in S : Max(S) >= j
  BY <1>1, <1>2
<1>4. Max(S) \in Nat /\ n \in Nat /\ Max(S) >= n /\ n >= Max(S)
  BY <1>1, <1>3
<1> QED
  BY <1>4

LEMMA OrderedHoldsIt ==
  ASSUME OrderedInv
  PROVE  OrderedHolds
<1> DEFINE P == putCalls
           L == Len(P)
           o == ordered
           N == Len(o)
           calls == DOMAIN P
           Same(n) == {m \in calls : SameKey(P[m][1], P[n][1])}
           firsts == {n \in calls : n = Min(Same(n))}
           Assigned(n) == {m \in Same(n) : P[m][3]}
           Value(n) == P[IF Assigned(n) = {} THEN n ELSE Max(Assigned(n))][2]
<1>1. PICK at : Listed(P, o, at)
  BY DEF OrderedInv
<1>2. /\ P \in Seq(CallsMade) /\ o \in Seq(OrderedKeys \X OrderedValues) /\ at \in [1 .. N -> 1 .. L]
      /\ \A i, j \in 1 .. N : i < j => at[i] < at[j]
      /\ \A n \in 1 .. L : FirstCall(P, n) <=> \E i \in 1 .. N : at[i] = n
      /\ \A i \in 1 .. N : o[i][1] = P[at[i]][1] /\ LastValue(P, at[i], o[i][2])
  BY <1>1 DEF Listed
<1>3. calls = 1 .. L /\ L \in Nat /\ N \in Nat
  BY <1>2
<1>4. ASSUME NEW n \in 1 .. L PROVE Same(n) = SameClass(P, n) /\ n \in Same(n) /\ Same(n) \in SUBSET Nat
  <2>1. \A m \in 1 .. L : P[m][1] \in OrderedKeys
    BY <1>2, CallIs
  <2>2. Same(n) = SameClass(P, n)
    BY <1>3, <2>1, ClassIs DEF SameClass
  <2>3. n \in SameClass(P, n) /\ SameClass(P, n) \in SUBSET Nat
    BY DEF SameClass
  <2> QED
    BY <2>2, <2>3
<1>5. ASSUME NEW n \in 1 .. L PROVE n = Min(Same(n)) <=> FirstCall(P, n)
  <2>1. n = Min(Same(n)) <=> \A m \in Same(n) : n <= m
    <3> HIDE DEF Same
    <3> QED
      BY <1>4, MinOfSome
  <2>2. (\A m \in SameClass(P, n) : n <= m) <=> FirstCall(P, n)
    <3>1. ASSUME FirstCall(P, n), NEW m \in SameClass(P, n) PROVE n <= m
      <4>1. m \in 1 .. L /\ ClassOf(P[m][1]) = ClassOf(P[n][1])
        BY DEF SameClass
      <4>2. m \notin 1 .. n - 1
        BY <3>1, <4>1 DEF FirstCall
      <4> QED
        BY <1>3, <4>1, <4>2
    <3>2. ASSUME \A m \in SameClass(P, n) : n <= m PROVE FirstCall(P, n)
      <4>1. ASSUME NEW m \in 1 .. n - 1, ClassOf(P[m][1]) = ClassOf(P[n][1]) PROVE FALSE
        <5>1. m \in SameClass(P, n)
          BY <1>3, <4>1 DEF SameClass
        <5> QED
          BY <1>3, <3>2, <5>1
      <4> QED
        BY <4>1 DEF FirstCall
    <3> QED
      BY <3>1, <3>2
  <2> QED
    BY <1>4, <2>1, <2>2
<1>6. firsts = {at[i] : i \in 1 .. N}
  <2>1. \A n \in firsts : n \in 1 .. L /\ FirstCall(P, n)
    BY <1>3, <1>5
  <2>2. \A n \in 1 .. L : FirstCall(P, n) => n \in firsts
    BY <1>3, <1>5
  <2>3. \A i \in 1 .. N : at[i] \in 1 .. L /\ FirstCall(P, at[i])
    BY <1>2
  <2> HIDE DEF firsts
  <2>4. \A n \in firsts : \E i \in 1 .. N : at[i] = n
    BY <1>2, <2>1
  <2> QED
    BY <2>2, <2>3, <2>4
<1> HIDE DEF firsts, Same, L, N
<1>7. \A i \in 1 .. N : at[i] \in Nat /\ \A j \in 1 .. N : at[i] = at[j] => i = j
  <2>1. \A i \in 1 .. N : at[i] \in Nat
    BY <1>2
  <2>2. ASSUME NEW i \in 1 .. N, NEW j \in 1 .. N, at[i] = at[j] PROVE i = j
    <3>1. (i < j => at[i] < at[j]) /\ (j < i => at[j] < at[i]) /\ at[i] \in Nat /\ at[j] \in Nat
      BY <1>2, <2>1
    <3>2. ~(i < j) /\ ~(j < i)
      BY <2>2, <3>1
    <3> QED
      BY <3>2
  <2> QED
    BY <2>1, <2>2
<1>8. ASSUME NEW i \in 0 .. N
      PROVE  IsFiniteSet({at[j] : j \in 1 .. i}) /\ Cardinality({at[j] : j \in 1 .. i}) = i
  <2> DEFINE S == 1 .. i
             T == {at[j] : j \in S}
             f == [j \in S |-> at[j]]
  <2>1. IsFiniteSet(S) /\ Cardinality(S) = i
    BY <1>3, FS_Interval
  <2>2. f \in [S -> T] /\ \A z \in T : \E x \in S : f[x] = z
    OBVIOUS
  <2>3. \A x \in S : x \in 1 .. N /\ f[x] = at[x]
    BY <1>3
  <2> HIDE DEF S, T, f
  <2>4. \A x, y \in S : f[x] = f[y] => x = y
    BY <1>7, <2>3
  <2>5. IsFiniteSet(T) /\ Cardinality(T) = Cardinality(S)
    BY <2>1, <2>2, <2>4, SameCount
  <2> QED
    BY <2>1, <2>5 DEF S, T
<1>9. Len(o) = Cardinality(firsts)
  <2>1. N \in 0 .. N
    BY <1>3
  <2> QED
    BY <1>6, <1>8, <2>1 DEF N
<1>10. ASSUME NEW i \in 1 .. N PROVE Cardinality({m \in firsts : m <= at[i]}) = i
  <2>1. ASSUME NEW j \in 1 .. N PROVE at[j] <= at[i] <=> j <= i
    <3>1. (i < j => at[i] < at[j]) /\ (j < i => at[j] < at[i]) /\ at[i] \in Nat /\ at[j] \in Nat
      BY <1>2, <1>7
    <3>2. j = i => at[j] = at[i]
      OBVIOUS
    <3>3. CASE i < j
      BY <3>1, <3>3
    <3>4. CASE j < i
      BY <3>1, <3>4
    <3>5. CASE j = i
      BY <3>1, <3>5
    <3> QED
      BY <3>3, <3>4, <3>5
  <2>2. {m \in firsts : m <= at[i]} = {at[j] : j \in 1 .. i}
    <3>1. ASSUME NEW m \in firsts, m <= at[i] PROVE \E j \in 1 .. i : m = at[j]
      <4>1. PICK j \in 1 .. N : m = at[j]
        BY <1>6
      <4>2. j \in 1 .. i
        BY <1>3, <2>1, <3>1, <4>1
      <4> QED
        BY <4>1, <4>2
    <3>2. ASSUME NEW j \in 1 .. i PROVE at[j] \in firsts /\ at[j] <= at[i]
      <4>1. j \in 1 .. N /\ j <= i
        BY <1>3
      <4> QED
        BY <1>6, <2>1, <4>1
    <3> QED
      BY <3>1, <3>2
  <2> QED
    <3>1. i \in 0 .. N
      BY <1>3
    <3>2. Cardinality({at[j] : j \in 1 .. i}) = i
      BY <1>8, <3>1
    <3> QED
      BY <2>2, <3>2
<1>11. ASSUME NEW n \in 1 .. L, NEW x, LastValue(P, n, x) PROVE Value(n) = x
  <2>1. Same(n) = SameClass(P, n) /\ Same(n) \in SUBSET Nat /\ \A m \in Same(n) : P[m][3] \in BOOLEAN
    <3>1. \A m \in SameClass(P, n) : m \in 1 .. L
      BY DEF SameClass, L
    <3> QED
      BY <1>2, <1>4, <3>1, CallIs DEF L
  <2>2. CASE x = P[n][2] /\ \A m \in SameClass(P, n) : P[m][3] = FALSE
    BY <2>1, <2>2
  <2>3. ASSUME NEW m \in SameClass(P, n), P[m][3] = TRUE, x = P[m][2],
               \A l \in SameClass(P, n) : l > m => P[l][3] = FALSE
        PROVE  Value(n) = x
    <3>1. m \in Assigned(n) /\ Assigned(n) \in SUBSET Nat
      BY <2>1, <2>3
    <3>2. \A l \in Assigned(n) : ~(l > m)
      BY <2>1, <2>3
    <3> HIDE DEF Assigned
    <3>3. Max(Assigned(n)) = m
      BY <3>1, <3>2, MaxOfSome
    <3> QED
      BY <2>3, <3>1, <3>3
  <2> QED
    BY <1>11, <2>2, <2>3 DEF LastValue
<1>12. ASSUME NEW n \in firsts PROVE o[Cardinality({m \in firsts : m <= n})] = <<P[n][1], Value(n)>>
  <2>1. PICK i \in 1 .. N : n = at[i]
    BY <1>6
  <2>2. Cardinality({m \in firsts : m <= n}) = i /\ n \in 1 .. L
    BY <1>2, <1>10, <2>1
  <2>3. Value(n) = o[i][2] /\ o[i][1] = P[n][1]
    BY <1>2, <1>11, <2>1, <2>2
  <2>4. o[i] = <<o[i][1], o[i][2]>>
    BY <1>2, PairIs DEF N
  <2> HIDE DEF Value
  <2> QED
    BY <2>2, <2>3, <2>4
<1> QED
  BY <1>9, <1>12 DEF OrderedHolds, firsts, Same

-------------------------------------------------------------------------------
(* The perfect hash table.                                                 *)

PowersOf2(f, m) == f = [s \in 0 .. m |-> IF s = 0 THEN 1 ELSE 2 * f[s \div 2]]

LEMMA HalfIs == \A s \in Nat : s # 0 => s \div 2 \in 0 .. s - 1
<1>1. \A s \in Nat : s \div 2 \in Int /\ s = 2 * (s \div 2) + (s % 2) /\ s % 2 \in 0 .. 1
  OBVIOUS
<1> SUFFICES ASSUME NEW s \in Nat, s # 0 PROVE s \div 2 \in 0 .. s - 1
  OBVIOUS
<1> DEFINE h == s \div 2
           r == s % 2
<1>2. h \in Int /\ s = 2 * h + r /\ r \in 0 .. 1
  BY <1>1
<1> HIDE DEF h, r
<1>3. h \in 0 .. s - 1
  BY <1>2
<1> QED
  BY <1>3 DEF h

LEMMA NextPow2Is ==
  ASSUME NEW n \in Nat
  PROVE  NextPow2(n) \in Nat
<1> DEFINE none == {m \in Nat : ~\E f : PowersOf2(f, m)}
<1>1. ASSUME none # {} PROVE FALSE
  <2>1. PICK m \in none : \A k \in none : m <= k
    <3>1. none \in SUBSET Nat
      OBVIOUS
    <3> HIDE DEF none
    <3> QED
      BY <1>1, <3>1, LeastNatural
  <2>2. m \in Nat /\ ~\E f : PowersOf2(f, m)
    OBVIOUS
  <2>3. CASE m = 0
    <3> DEFINE f == [s \in 0 .. 0 |-> 1]
    <3>1. f = [s \in 0 .. 0 |-> IF s = 0 THEN 1 ELSE 2 * f[s \div 2]]
      <4>1. \A s \in 0 .. 0 : s = 0
        OBVIOUS
      <4> QED
        BY <4>1
    <3> HIDE DEF f
    <3>2. PowersOf2(f, m)
      BY <2>3, <3>1 DEF PowersOf2
    <3> QED
      BY <2>2, <3>2
  <2>4. CASE m # 0
    <3>1. m - 1 \in Nat /\ m - 1 \notin none
      BY <2>1, <2>2, <2>4
    <3>2. PICK f : PowersOf2(f, m - 1)
      BY <3>1
    <3> DEFINE g == [s \in 0 .. m |-> IF s = m THEN 2 * f[m \div 2] ELSE f[s]]
    <3>3. \A s \in 0 .. m - 1 : f[s] = IF s = 0 THEN 1 ELSE 2 * f[s \div 2]
      <4> DEFINE h == [s \in 0 .. m - 1 |-> IF s = 0 THEN 1 ELSE 2 * f[s \div 2]]
      <4>1. f = h
        BY <3>2 DEF PowersOf2
      <4>2. \A s \in 0 .. m - 1 : h[s] = IF s = 0 THEN 1 ELSE 2 * f[s \div 2]
        OBVIOUS
      <4> HIDE DEF h
      <4> QED
        BY <4>1, <4>2
    <3>4. \A s \in 0 .. m - 1 : g[s] = f[s] /\ s \in 0 .. m
      BY <2>2
    <3>5. g[m] = 2 * f[m \div 2]
      BY <2>2
    <3>6. ASSUME NEW s \in 0 .. m PROVE g[s] = IF s = 0 THEN 1 ELSE 2 * g[s \div 2]
      <4> HIDE DEF g
      <4>1. CASE s = m
        <5>1. m \div 2 \in 0 .. m - 1
          BY <2>2, <2>4, HalfIs
        <5>2. g[m \div 2] = f[m \div 2]
          BY <3>4, <5>1
        <5> QED
          BY <2>4, <3>5, <4>1, <5>2
      <4>2. CASE s # m
        <5>1. s \in 0 .. m - 1 /\ s \in Nat
          BY <2>2, <4>2
        <5>2. s # 0 => s \div 2 \in 0 .. s - 1
          BY <5>1, HalfIs
        <5>3. s # 0 => s \div 2 \in 0 .. m - 1
          BY <2>2, <5>1, <5>2
        <5>4. s # 0 => g[s \div 2] = f[s \div 2]
          BY <3>4, <5>3
        <5>5. g[s] = f[s]
          BY <3>4, <5>1
        <5> QED
          BY <3>3, <5>1, <5>4, <5>5
      <4> QED
        BY <4>1, <4>2
    <3>7. g = [s \in 0 .. m |-> IF s = 0 THEN 1 ELSE 2 * g[s \div 2]]
      BY <3>6
    <3> HIDE DEF g
    <3> QED
      BY <2>2, <3>7 DEF PowersOf2
  <2> QED
    BY <2>3, <2>4
<1> DEFINE ret == CHOOSE f : f = [s \in 0 .. n |-> IF s = 0 THEN 1 ELSE 2 * f[s \div 2]]
<1>2. PowersOf2(ret, n)
  <2>1. n \notin none
    BY <1>1
  <2>2. \E f : PowersOf2(f, n)
    BY <2>1
  <2> QED
    BY <2>2 DEF PowersOf2
<1>3. NextPow2(n) = ret[n]
  BY DEF NextPow2
<1> HIDE DEF ret
<1>4. \A s \in 0 .. n : ret[s] = IF s = 0 THEN 1 ELSE 2 * ret[s \div 2]
  <2> DEFINE h == [s \in 0 .. n |-> IF s = 0 THEN 1 ELSE 2 * ret[s \div 2]]
  <2>1. ret = h
    BY <1>2 DEF PowersOf2
  <2>2. \A s \in 0 .. n : h[s] = IF s = 0 THEN 1 ELSE 2 * ret[s \div 2]
    OBVIOUS
  <2> HIDE DEF h
  <2> QED
    BY <2>1, <2>2
<1> DEFINE bad == {s \in 0 .. n : ret[s] \notin Nat}
<1>5. ASSUME bad # {} PROVE FALSE
  <2>1. bad \in SUBSET Nat
    OBVIOUS
  <2>2. PICK s \in bad : \A t \in bad : s <= t
    <3> HIDE DEF bad
    <3> QED
      BY <1>5, <2>1, LeastNatural
  <2>3. s \in 0 .. n /\ ret[s] \notin Nat /\ s \in Nat
    OBVIOUS
  <2>4. s # 0
    BY <1>4, <2>3
  <2>5. s \div 2 \in 0 .. s - 1
    BY <2>3, <2>4, HalfIs
  <2> DEFINE t == s \div 2
  <2>6. t \in 0 .. n /\ ~(s <= t)
    BY <2>3, <2>5
  <2>7. ret[t] \in Nat
    BY <2>2, <2>6
  <2>8. ret[s] = 2 * ret[t]
    BY <1>4, <2>3, <2>4
  <2> HIDE DEF t
  <2> QED
    BY <2>3, <2>7, <2>8
<1>6. n \in 0 .. n
  OBVIOUS
<1> QED
  BY <1>3, <1>5, <1>6

(* How many of S come before x, and the one of T as many of T come before. *)
RankIn(S, x) == Cardinality({y \in S : y < x})
InTurn(S, T, s) == CHOOSE k \in T : RankIn(T, k) = RankIn(S, s)

LEMMA RankIs ==
  ASSUME NEW S, IsFiniteSet(S), \A x \in S : x \in Int
  PROVE  /\ \A x \in S : RankIn(S, x) \in 0 .. Cardinality(S) - 1
         /\ \A x, y \in S : RankIn(S, x) = RankIn(S, y) => x = y
         /\ \A r \in 0 .. Cardinality(S) - 1 : \E x \in S : RankIn(S, x) = r
<1> DEFINE R == 0 .. Cardinality(S) - 1
           below(x) == {y \in S : y < x}
           f == [x \in S |-> RankIn(S, x)]
<1>0. Cardinality(S) \in Nat
  BY FS_CardinalityType
<1>1. ASSUME NEW x \in S PROVE IsFiniteSet(below(x)) /\ RankIn(S, x) = Cardinality(below(x)) /\ RankIn(S, x) \in R
  <2>1. below(x) \in SUBSET S /\ x \notin below(x)
    OBVIOUS
  <2>2. RankIn(S, x) = Cardinality(below(x))
    BY DEF RankIn
  <2> HIDE DEF below
  <2>3. IsFiniteSet(below(x)) /\ Cardinality(below(x)) <= Cardinality(S) /\ Cardinality(below(x)) # Cardinality(S)
    BY <2>1, FS_Subset
  <2>4. Cardinality(below(x)) \in Nat
    BY <2>3, FS_CardinalityType
  <2> QED
    BY <1>0, <2>2, <2>3, <2>4
<1>2. ASSUME NEW x \in S, NEW y \in S, x < y PROVE RankIn(S, x) < RankIn(S, y)
  <2>1. below(x) \in SUBSET below(y) /\ x \in below(y) /\ x \notin below(x)
    BY <1>2
  <2>2. Cardinality(below(x)) <= Cardinality(below(y)) /\ Cardinality(below(x)) # Cardinality(below(y))
    <3> HIDE DEF below
    <3> QED
      BY <1>1, <2>1, FS_Subset
  <2>3. RankIn(S, x) = Cardinality(below(x)) /\ RankIn(S, y) = Cardinality(below(y))
    BY <1>1
  <2>4. RankIn(S, x) \in Nat /\ RankIn(S, y) \in Nat
    <3>1. RankIn(S, x) \in R /\ RankIn(S, y) \in R
      BY <1>1
    <3>2. \A r \in R : r \in Nat
      BY <1>0
    <3> HIDE DEF R
    <3> QED
      BY <3>1, <3>2
  <2> HIDE DEF below
  <2> QED
    BY <2>2, <2>3, <2>4
<1>3. ASSUME NEW x \in S, NEW y \in S, RankIn(S, x) = RankIn(S, y) PROVE x = y
  <2>1. RankIn(S, x) \in R /\ RankIn(S, y) \in R
    BY <1>1
  <2>2. ~(x < y)
    BY <1>2, <1>3, <2>1
  <2>3. ~(y < x)
    BY <1>2, <1>3, <2>1
  <2> QED
    BY <2>2, <2>3
<1>4. f \in [S -> R] /\ \A x \in S : f[x] = RankIn(S, x)
  BY <1>1
<1> HIDE DEF f
<1>5. IsFiniteSet(R) /\ Cardinality(R) = Cardinality(S)
  BY <1>0, FS_Interval
<1> HIDE DEF R
<1>6. f \in Injection(S, R)
  BY <1>3, <1>4 DEF Injection, IsInjective
<1>7. f \in Surjection(S, R)
  BY <1>5, <1>6, FS_Injection
<1>8. \A r \in R : \E x \in S : f[x] = r
  BY <1>7 DEF Surjection
<1> QED
  BY <1>1, <1>3, <1>4, <1>8 DEF R

LEMMA AlikeIs ==
  ASSUME NEW S, IsFiniteSet(S), \A x \in S : x \in Int, NEW T, IsFiniteSet(T), \A x \in T : x \in Int,
         Cardinality(S) = Cardinality(T)
  PROVE  /\ \A s \in S : InTurn(S, T, s) \in T
         /\ \A s, t \in S : InTurn(S, T, s) = InTurn(S, T, t) => s = t
         /\ \A k \in T : \E s \in S : InTurn(S, T, s) = k
<1> DEFINE R == 0 .. Cardinality(S) - 1
<1>1. /\ \A x \in S : RankIn(S, x) \in R
      /\ \A x, y \in S : RankIn(S, x) = RankIn(S, y) => x = y
      /\ \A r \in R : \E x \in S : RankIn(S, x) = r
  BY RankIs
<1>2. /\ \A x \in T : RankIn(T, x) \in R
      /\ \A x, y \in T : RankIn(T, x) = RankIn(T, y) => x = y
      /\ \A r \in R : \E x \in T : RankIn(T, x) = r
  BY RankIs
<1> HIDE DEF R
<1>3. ASSUME NEW s \in S PROVE InTurn(S, T, s) \in T /\ RankIn(T, InTurn(S, T, s)) = RankIn(S, s)
  <2>1. \E k \in T : RankIn(T, k) = RankIn(S, s)
    BY <1>1, <1>2
  <2> QED
    BY <2>1 DEF InTurn
<1>4. ASSUME NEW k \in T PROVE \E s \in S : InTurn(S, T, s) = k
  <2>1. PICK s \in S : RankIn(S, s) = RankIn(T, k)
    BY <1>1, <1>2
  <2>2. InTurn(S, T, s) = k
    BY <1>2, <1>3, <2>1
  <2> QED
    BY <2>2
<1>5. ASSUME NEW s \in S, NEW t \in S, InTurn(S, T, s) = InTurn(S, T, t) PROVE s = t
  BY <1>1, <1>3, <1>5
<1> QED
  BY <1>3, <1>4, <1>5

-------------------------------------------------------------------------------
(* The items of bucket b, those that are alone in theirs, and those of the *)
(* buckets before next.                                                    *)
BinOf(n, bucket, b) == {k \in 1 .. n : bucket[k] = b}
Lone(n, bucket) == {k \in 1 .. n : BinOf(n, bucket, bucket[k]) = {k}}
ItemsBefore(n, bucket, next) == {k \in 1 .. n : bucket[k] < next}
LoneBefore(n, bucket, next) == ItemsBefore(n, bucket, next) \cap Lone(n, bucket)
LoneHere(n, bucket, b) == IF Cardinality(BinOf(n, bucket, b)) = 1 THEN 1 ELSE 0

LEMMA BinIs ==
  ASSUME NEW n \in Nat, NEW bucket \in [1 .. n -> Int], NEW b
  PROVE  /\ IsFiniteSet(BinOf(n, bucket, b)) /\ Cardinality(BinOf(n, bucket, b)) \in Nat
         /\ \A S \in SUBSET (1 .. n) : IsFiniteSet(S) /\ Cardinality(S) \in Nat /\ Cardinality(S) <= n
         /\ (Cardinality(BinOf(n, bucket, b)) = 0 <=> BinOf(n, bucket, b) = {})
         /\ (Cardinality(BinOf(n, bucket, b)) = 1 <=> \E k \in 1 .. n : BinOf(n, bucket, b) = {k})
<1>1. IsFiniteSet(1 .. n) /\ Cardinality(1 .. n) = n
  BY FS_Interval
<1>2. ASSUME NEW S \in SUBSET (1 .. n) PROVE IsFiniteSet(S) /\ Cardinality(S) \in Nat /\ Cardinality(S) <= n
  <2> DEFINE I == 1 .. n
  <2>1. S \in SUBSET I /\ IsFiniteSet(I) /\ Cardinality(I) = n
    BY <1>1
  <2> HIDE DEF I
  <2>2. IsFiniteSet(S) /\ Cardinality(S) <= Cardinality(I)
    BY <2>1, FS_Subset
  <2>3. Cardinality(S) \in Nat
    BY <2>2, FS_CardinalityType
  <2> QED
    BY <2>1, <2>2, <2>3
<1>3. BinOf(n, bucket, b) \in SUBSET (1 .. n)
  BY DEF BinOf
<1>4. IsFiniteSet(BinOf(n, bucket, b)) /\ Cardinality(BinOf(n, bucket, b)) \in Nat
  BY <1>2, <1>3
<1>5. Cardinality(BinOf(n, bucket, b)) = 0 <=> BinOf(n, bucket, b) = {}
  BY <1>4, FS_EmptySet
<1>6. Cardinality(BinOf(n, bucket, b)) = 1 <=> \E k : BinOf(n, bucket, b) = {k}
  BY <1>4, FS_Singleton
<1>7. \A k : BinOf(n, bucket, b) = {k} => k \in 1 .. n
  BY <1>3
<1> QED
  BY <1>2, <1>4, <1>5, <1>6, <1>7

LEMMA Counted ==
  ASSUME NEW n \in Nat, NEW bucket \in [1 .. n -> Int], NEW next \in Int
  PROVE  LET here == Cardinality(BinOf(n, bucket, next))
             one == LoneHere(n, bucket, next)
             before(b) == Cardinality(ItemsBefore(n, bucket, b))
             alone(b) == Cardinality(LoneBefore(n, bucket, b))
         IN /\ before(next) \in Nat /\ alone(next) \in Nat /\ here \in Nat
            /\ before(next + 1) = before(next) + here /\ before(next + 1) <= n
            /\ alone(next + 1) = alone(next) + one
            /\ alone(next + 1) <= Cardinality(Lone(n, bucket)) /\ Cardinality(Lone(n, bucket)) \in Nat
<1> DEFINE items == BinOf(n, bucket, next)
           P == ItemsBefore(n, bucket, next)
           Q == ItemsBefore(n, bucket, next + 1)
           lone == Lone(n, bucket)
<1>1. \A S \in SUBSET (1 .. n) : IsFiniteSet(S) /\ Cardinality(S) \in Nat /\ Cardinality(S) <= n
  BY BinIs
<1>2. items \in SUBSET (1 .. n) /\ P \in SUBSET (1 .. n) /\ Q \in SUBSET (1 .. n) /\ lone \in SUBSET (1 .. n)
  BY DEF BinOf, ItemsBefore, Lone
<1>3. Q = P \cup items /\ P \cap items = {}
  <2>1. \A k \in 1 .. n : bucket[k] \in Int
    OBVIOUS
  <2>2. \A k \in 1 .. n : bucket[k] < next + 1 <=> bucket[k] < next \/ bucket[k] = next
    BY <2>1
  <2>3. \A k \in 1 .. n : ~(bucket[k] < next /\ bucket[k] = next)
    BY <2>1
  <2> QED
    BY <2>2, <2>3 DEF BinOf, ItemsBefore
<1>4. items \cap lone = IF Cardinality(items) = 1 THEN items ELSE {}
  <2>1. \A k \in items : bucket[k] = next
    BY DEF BinOf
  <2>2. CASE Cardinality(items) = 1
    <3>1. PICK k \in 1 .. n : items = {k}
      BY <2>2, BinIs
    <3>2. k \in lone
      BY <2>1, <3>1 DEF Lone
    <3> QED
      BY <2>2, <3>1, <3>2
  <2>3. CASE Cardinality(items) # 1
    <3>1. ASSUME NEW k \in items, k \in lone PROVE FALSE
      <4>1. items = {k} /\ k \in 1 .. n
        BY <1>2, <2>1, <3>1 DEF Lone
      <4> QED
        BY <2>3, <4>1, BinIs
    <3> QED
      BY <2>3, <3>1
  <2> QED
    BY <2>2, <2>3
<1> HIDE DEF items, P, Q, lone
<1> DEFINE more == items \cap lone
<1>5. IsFiniteSet(P) /\ IsFiniteSet(items) /\ IsFiniteSet(P \cap lone) /\ IsFiniteSet(more)
      /\ Cardinality(P) \in Nat /\ Cardinality(items) \in Nat /\ Cardinality(P \cap lone) \in Nat
      /\ Cardinality(Q) <= n /\ IsFiniteSet(lone) /\ Cardinality(lone) \in Nat
  <2>1. P \cap lone \in SUBSET (1 .. n) /\ more \in SUBSET (1 .. n)
    BY <1>2
  <2> QED
    BY <1>1, <1>2, <2>1
<1>6. Cardinality({}) = 0
  BY FS_EmptySet
<1>7. Cardinality(Q) = Cardinality(P) + Cardinality(items)
  <2>1. Cardinality(P \cup items) = Cardinality(P) + Cardinality(items) - Cardinality(P \cap items)
    BY <1>5, FS_Union
  <2>2. Cardinality(P \cap items) = 0 /\ Cardinality(P \cup items) = Cardinality(Q)
    BY <1>3, <1>6
  <2> QED
    BY <1>5, <2>1, <2>2
<1>8. Cardinality(more) = LoneHere(n, bucket, next)
  BY <1>4, <1>6 DEF LoneHere, items
<1>9. Cardinality(Q \cap lone) = Cardinality(P \cap lone) + Cardinality(more)
  <2>1. Q \cap lone = (P \cap lone) \cup more /\ (P \cap lone) \cap more = {}
    BY <1>3
  <2> DEFINE a == P \cap lone
  <2> HIDE DEF more
  <2>2. Cardinality(a \cup more) = Cardinality(a) + Cardinality(more) - Cardinality(a \cap more)
    BY <1>5, FS_Union
  <2>3. Cardinality(more) \in Nat
    BY <1>5, FS_CardinalityType
  <2>4. Cardinality(a \cap more) = 0 /\ Cardinality(a \cup more) = Cardinality(Q \cap lone)
    BY <1>6, <2>1
  <2> QED
    BY <1>5, <2>2, <2>3, <2>4
<1>10. Cardinality(Q \cap lone) <= Cardinality(lone)
  <2>1. Q \cap lone \in SUBSET lone
    OBVIOUS
  <2> QED
    BY <1>5, <2>1, FS_Subset
<1>11. LoneBefore(n, bucket, next) = P \cap lone /\ LoneBefore(n, bucket, next + 1) = Q \cap lone
  BY DEF LoneBefore, P, Q, lone
<1> QED
  BY <1>5, <1>7, <1>8, <1>9, <1>10, <1>11 DEF items, P, Q, lone

HashSlotsOf(n) == 0 .. NextPow2(n) - 1
SlotsSuffice(n, bucket) == n + Cardinality(Lone(n, bucket)) <= NextPow2(n)

(* The items of the buckets before next have the slots they were given,    *)
(* and no other slot is claimed but one for each of them that is alone.    *)
PerfectGood(n, bucket, default, next, keys, claimed, slot) ==
  /\ n \in Nat \ {0} /\ bucket \in [1 .. n -> 0 .. BucketCount(n) - 1] /\ default \in {0, n} /\ next \in Nat
  /\ \A b, c \in 0 .. BucketCount(n) - 1 :
       b < c => Cardinality(BinOf(n, bucket, b)) >= Cardinality(BinOf(n, bucket, c))
  /\ claimed \subseteq HashSlotsOf(n)
  /\ Cardinality(claimed) = Cardinality(ItemsBefore(n, bucket, next)) + Cardinality(LoneBefore(n, bucket, next))
  /\ \A k \in ItemsBefore(n, bucket, next) : slot[k] \in claimed /\ keys[slot[k]] = k
  /\ \A s \in claimed : keys[s] \in 1 .. n
  /\ \A s \in HashSlotsOf(n) \ claimed : keys[s] = default

LEMMA BucketsAre ==
  ASSUME NEW n \in Nat, NEW bucket \in [1 .. n -> 0 .. BucketCount(n) - 1]
  PROVE  BucketCount(n) \in Int /\ bucket \in [1 .. n -> Int] /\ NextPow2(n) \in Nat
         /\ IsFiniteSet(HashSlotsOf(n)) /\ Cardinality(HashSlotsOf(n)) = NextPow2(n)
<1>1. NextPow2(n) \in Nat
  BY NextPow2Is
<1>2. \A x \in Nat : x \div 2 \in Int
  OBVIOUS
<1>3. BucketCount(n) \in Int
  BY <1>1, <1>2 DEF BucketCount
<1>4. \A b \in 0 .. BucketCount(n) - 1 : b \in Int
  OBVIOUS
<1>5. bucket \in [1 .. n -> Int]
  BY <1>4
<1>6. IsFiniteSet(HashSlotsOf(n)) /\ Cardinality(HashSlotsOf(n)) = NextPow2(n)
  <2> DEFINE top == NextPow2(n) - 1
  <2>1. top \in Int /\ 0 \in Int /\ NextPow2(n) = top + 1 /\ top >= -1
    BY <1>1
  <2>2. HashSlotsOf(n) = 0 .. top
    BY DEF HashSlotsOf
  <2> HIDE DEF top
  <2>3. IsFiniteSet(0 .. top) /\ Cardinality(0 .. top) = IF 0 > top THEN 0 ELSE top - 0 + 1
    BY <2>1, FS_Interval
  <2>4. Cardinality(0 .. top) = top + 1
    BY <2>1, <2>3
  <2> QED
    BY <2>1, <2>2, <2>3, <2>4
<1> QED
  BY <1>1, <1>3, <1>5, <1>6

LEMMA GoodPlaced ==
  ASSUME NEW n, NEW bucket, NEW default, NEW next, NEW keys, NEW claimed, NEW slot,
         PerfectGood(n, bucket, default, next, keys, claimed, slot),
         NEW items, items = BinOf(n, bucket, next), NEW extra, extra \subseteq HashSlotsOf(n) \ claimed,
         IsFiniteSet(extra), Cardinality(extra) = LoneHere(n, bucket, next), NEW slots, 
         slots \subseteq HashSlotsOf(n), slots \cap (claimed \cup extra) = {}, Cardinality(slots) = Cardinality(items),
         NEW keys2, \A s \in slots : keys2[s] = InTurn(slots, items, s), \A s \in extra : keys2[s] \in items,
         \A s \in HashSlotsOf(n) : s \notin slots \cup extra => keys2[s] = keys[s],
         NEW slot2, \A k \in items : slot2[k] = CHOOSE s \in slots : InTurn(slots, items, s) = k,
         \A k \in 1 .. n : k \notin items => slot2[k] = slot[k]
  PROVE  PerfectGood(n, bucket, default, next + 1, keys2, (claimed \cup extra) \cup slots, slot2)
<1> DEFINE H == HashSlotsOf(n)
           P == ItemsBefore(n, bucket, next)
           Q == ItemsBefore(n, bucket, next + 1)
           all == (claimed \cup extra) \cup slots
<1>1. /\ n \in Nat \ {0} /\ bucket \in [1 .. n -> 0 .. BucketCount(n) - 1] /\ default \in {0, n} /\ next \in Nat
      /\ \A b, c \in 0 .. BucketCount(n) - 1 :
           b < c => Cardinality(BinOf(n, bucket, b)) >= Cardinality(BinOf(n, bucket, c))
      /\ claimed \subseteq H
      /\ Cardinality(claimed) = Cardinality(P) + Cardinality(LoneBefore(n, bucket, next))
      /\ \A k \in P : slot[k] \in claimed /\ keys[slot[k]] = k
      /\ \A s \in claimed : keys[s] \in 1 .. n
      /\ \A s \in H \ claimed : keys[s] = default
  BY DEF PerfectGood
<1>2. n \in Nat /\ next \in Int /\ bucket \in [1 .. n -> Int] /\ IsFiniteSet(H)
  BY <1>1, BucketsAre
<1>3. /\ Cardinality(P) \in Nat /\ Cardinality(LoneBefore(n, bucket, next)) \in Nat /\ Cardinality(items) \in Nat
      /\ Cardinality(Q) = Cardinality(P) + Cardinality(items)
      /\ Cardinality(LoneBefore(n, bucket, next + 1)) =
           Cardinality(LoneBefore(n, bucket, next)) + LoneHere(n, bucket, next)
  BY <1>2, Counted
<1>4. items \subseteq 1 .. n /\ IsFiniteSet(items) /\ \A k \in 1 .. n : k \in Q <=> k \in P \/ k \in items
  <2>1. \A k \in 1 .. n : bucket[k] \in Int
    BY <1>2
  <2>2. \A k \in 1 .. n : bucket[k] < next + 1 <=> bucket[k] < next \/ bucket[k] = next
    BY <1>2, <2>1
  <2>3. \A k \in 1 .. n : k \in Q <=> k \in P \/ k \in items
    BY <2>2 DEF BinOf, ItemsBefore
  <2>4. IsFiniteSet(items)
    BY <1>2, BinIs
  <2> QED
    BY <2>3, <2>4 DEF BinOf
<1>5. P \subseteq 1 .. n /\ Q \subseteq 1 .. n /\ P \cap items = {}
  <2>1. \A k \in 1 .. n : bucket[k] \in Int
    BY <1>2
  <2>2. \A k \in 1 .. n : ~(bucket[k] < next /\ bucket[k] = next)
    BY <1>2, <2>1
  <2> QED
    BY <2>2 DEF BinOf, ItemsBefore
<1>6. IsFiniteSet(claimed) /\ IsFiniteSet(slots)
  <2> HIDE DEF H
  <2>1. claimed \in SUBSET H /\ slots \in SUBSET H
    BY <1>1 DEF H
  <2> QED
    BY <1>2, <2>1, FS_Subset
<1>7. /\ \A s \in slots : InTurn(slots, items, s) \in items
      /\ \A s, t \in slots : InTurn(slots, items, s) = InTurn(slots, items, t) => s = t
      /\ \A k \in items : \E s \in slots : InTurn(slots, items, s) = k
  <2>1. \A s \in slots : s \in Int
    BY DEF HashSlotsOf
  <2>2. \A k \in items : k \in Int
    BY <1>4
  <2> QED
    BY <1>4, <1>6, <2>1, <2>2, AlikeIs
<1> HIDE DEF H, P, Q
<1>8. Cardinality(all) = Cardinality(Q) + Cardinality(LoneBefore(n, bucket, next + 1))
  <2> DEFINE a == claimed \cup extra
             one == LoneHere(n, bucket, next)
  <2>0. Cardinality({}) = 0 /\ one \in Nat
    BY FS_EmptySet DEF LoneHere
  <2>1. IsFiniteSet(a) /\ Cardinality(a) = Cardinality(claimed) + Cardinality(extra) - Cardinality(claimed \cap extra)
    BY <1>6, FS_Union
  <2>2. claimed \cap extra = {} /\ a \cap slots = {}
    OBVIOUS
  <2>3. Cardinality(claimed \cap extra) = 0 /\ Cardinality(a \cap slots) = 0
    BY <2>0, <2>2
  <2> HIDE DEF a
  <2>4. Cardinality(a \cup slots) = Cardinality(a) + Cardinality(slots) - Cardinality(a \cap slots)
    BY <1>6, <2>1, FS_Union
  <2>5. all = a \cup slots
    BY DEF a
  <2> HIDE DEF one, all
  <2>6. Cardinality(a) = Cardinality(P) + Cardinality(LoneBefore(n, bucket, next)) + one
    BY <1>1, <1>3, <2>0, <2>1, <2>3 DEF one
  <2> QED
    BY <1>3, <2>0, <2>3, <2>4, <2>5, <2>6 DEF one
<1>9. ASSUME NEW k \in Q PROVE slot2[k] \in all /\ keys2[slot2[k]] = k
  <2>1. CASE k \in items
    <3>1. \E s \in slots : InTurn(slots, items, s) = k
      BY <1>7, <2>1
    <3>2. slot2[k] \in slots /\ InTurn(slots, items, slot2[k]) = k
      BY <2>1, <3>1
    <3> QED
      BY <3>2
  <2>2. CASE k \notin items
    <3>1. k \in P /\ slot2[k] = slot[k]
      BY <1>4, <1>5, <2>2
    <3>2. slot[k] \in claimed /\ keys[slot[k]] = k
      BY <1>1, <3>1 DEF P
    <3>3. slot[k] \in HashSlotsOf(n) /\ slot[k] \notin slots \cup extra
      BY <1>1, <3>2 DEF H
    <3> QED
      BY <3>1, <3>2, <3>3
  <2> QED
    BY <2>1, <2>2
<1>10. ASSUME NEW s \in all PROVE keys2[s] \in 1 .. n
  <2>1. CASE s \in slots
    BY <1>4, <1>7, <2>1
  <2>2. CASE s \in extra
    BY <1>4, <2>2
  <2>3. CASE s \in claimed
    <3>1. s \in HashSlotsOf(n) /\ s \notin slots \cup extra
      BY <1>1, <2>3 DEF H
    <3> QED
      BY <1>1, <2>3, <3>1
  <2> QED
    BY <2>1, <2>2, <2>3
<1>11. ASSUME NEW s \in H \ all PROVE keys2[s] = default
  BY <1>1 DEF H
<1>12. all \subseteq H
  BY <1>1 DEF H
<1>13. next + 1 \in Nat
  BY <1>1
<1> HIDE DEF all
<1>14. PerfectGood(n, bucket, default, next + 1, keys2, all, slot2)
  BY <1>1, <1>8, <1>9, <1>10, <1>11, <1>12, <1>13 DEF PerfectGood, H, Q
<1> QED
  BY <1>14 DEF all

PerfectInv ==
  /\ perfect = [n |-> perfect.n, bucket |-> perfect.bucket, default |-> perfect.default, next |-> perfect.next,
                place |-> perfect.place, keys |-> perfect.keys, claimed |-> perfect.claimed, slot |-> perfect.slot]
  /\ PerfectGood(perfect.n, perfect.bucket, perfect.default, perfect.next, perfect.keys, perfect.claimed,
                 perfect.slot)
  /\ perfect.place = "constructor" => perfect.next < BucketCount(perfect.n)
  /\ perfect.place = "built" => ItemsBefore(perfect.n, perfect.bucket, perfect.next) = 1 .. perfect.n
  /\ perfect.place \in {"abort", "unsalted"} => ~SlotsSuffice(perfect.n, perfect.bucket)

LEMMA PerfectBegin ==
  ASSUME PerfectInit
  PROVE  PerfectInv
<1>0. PICK n \in PerfectSizes : \E bucket \in [1 .. n -> 0 .. BucketCount(n) - 1], default \in {0, n} :
        /\ \A b, c \in 0 .. BucketCount(n) - 1 :
             b < c => Cardinality({k \in 1 .. n : bucket[k] = b}) >= Cardinality({k \in 1 .. n : bucket[k] = c})
        /\ perfect = Unbuilt(n, bucket, default)
  BY DEF PerfectInit
<1>1. PICK bucket \in [1 .. n -> 0 .. BucketCount(n) - 1], default \in {0, n} :
        /\ \A b, c \in 0 .. BucketCount(n) - 1 :
             b < c => Cardinality({k \in 1 .. n : bucket[k] = b}) >= Cardinality({k \in 1 .. n : bucket[k] = c})
        /\ perfect = Unbuilt(n, bucket, default)
  BY <1>0
<1> DEFINE keys == [s \in 0 .. NextPow2(n) - 1 |-> default]
           slot == [k \in 1 .. n |-> -1]
           none == {}
<1>2. perfect = [n |-> n, bucket |-> bucket, default |-> default, next |-> 0, place |-> "constructor",
                 keys |-> keys, claimed |-> none, slot |-> slot]
  BY <1>1 DEF Unbuilt
<1>3. n \in Nat \ {0} /\ n \in Nat
  BY PerfectHashAssumption
<1>4. \A s \in HashSlotsOf(n) : keys[s] = default
  BY DEF HashSlotsOf
<1>5. bucket \in [1 .. n -> Int] /\ BucketCount(n) \in Int
  BY <1>1, <1>3, BucketsAre
<1>6. \A k \in 1 .. n : bucket[k] \in 0 .. BucketCount(n) - 1
  OBVIOUS
<1>7. 0 < BucketCount(n)
  <2>1. 1 \in 1 .. n
    BY <1>3
  <2>2. bucket[1] \in 0 .. BucketCount(n) - 1
    BY <1>6, <2>1
  <2> QED
    BY <1>5, <2>2
<1>8. ItemsBefore(n, bucket, 0) = {}
  <2>1. \A k \in 1 .. n : ~(bucket[k] < 0)
    BY <1>6
  <2> QED
    BY <2>1 DEF ItemsBefore
<1>9. LoneBefore(n, bucket, 0) = {} /\ Cardinality({}) = 0
  BY <1>8, FS_EmptySet DEF LoneBefore
<1> HIDE DEF keys, slot
<1>10. PerfectGood(n, bucket, default, 0, keys, none, slot)
  <2>1. \A b, c \in 0 .. BucketCount(n) - 1 :
          b < c => Cardinality(BinOf(n, bucket, b)) >= Cardinality(BinOf(n, bucket, c))
    BY <1>1 DEF BinOf
  <2>2. Cardinality(none) = Cardinality(ItemsBefore(n, bucket, 0)) + Cardinality(LoneBefore(n, bucket, 0))
    <3>1. Cardinality(ItemsBefore(n, bucket, 0)) = 0 /\ Cardinality(LoneBefore(n, bucket, 0)) = 0 /\ Cardinality(none) = 0
      BY <1>8, <1>9
    <3> QED
      BY <3>1
  <2>3. n \in Nat \ {0} /\ bucket \in [1 .. n -> 0 .. BucketCount(n) - 1] /\ default \in {0, n} /\ 0 \in Nat
    BY <1>3
  <2>4. \A k \in ItemsBefore(n, bucket, 0) : slot[k] \in none /\ keys[slot[k]] = k
    BY <1>8
  <2>5. none \subseteq HashSlotsOf(n) /\ \A s \in none : keys[s] \in 1 .. n
    OBVIOUS
  <2>6. \A s \in HashSlotsOf(n) \ none : keys[s] = default
    BY <1>4
  <2> HIDE DEF none
  <2> QED
    BY <2>1, <2>2, <2>3, <2>4, <2>5, <2>6 DEF PerfectGood
<1> HIDE DEF none
<1>11. /\ perfect.n = n /\ perfect.bucket = bucket /\ perfect.default = default /\ perfect.next = 0
       /\ perfect.place = "constructor" /\ perfect.keys = keys /\ perfect.claimed = none /\ perfect.slot = slot
  BY <1>2
<1> QED
  BY <1>2, <1>7, <1>10, <1>11 DEF PerfectInv

LEMMA PerfectRest ==
  ASSUME PerfectInv, UNCHANGED perfect
  PROVE  PerfectInv'
  BY DEF PerfectInv

LEMMA PerfectFindsIt ==
  ASSUME PerfectInv
  PROVE  PerfectFinds
<1> DEFINE n == perfect.n
           bucket == perfect.bucket
           keys == perfect.keys
           claimed == perfect.claimed
           slot == perfect.slot
           P == ItemsBefore(n, bucket, perfect.next)
           enough == n + Cardinality(Singles) <= Cardinality(HashSlots)
<1>1. /\ n \in Nat \ {0} /\ n \in Nat /\ bucket \in [1 .. n -> 0 .. BucketCount(n) - 1]
      /\ perfect.default \in {0, n} /\ perfect.next \in Nat
      /\ claimed \subseteq HashSlotsOf(n)
      /\ Cardinality(claimed) = Cardinality(P) + Cardinality(LoneBefore(n, bucket, perfect.next))
      /\ \A k \in P : slot[k] \in claimed /\ keys[slot[k]] = k
      /\ \A s \in claimed : keys[s] \in 1 .. n
      /\ \A s \in HashSlotsOf(n) \ claimed : keys[s] = perfect.default
  BY DEF PerfectInv, PerfectGood
<1>2. Items = 1 .. n /\ HashSlots = HashSlotsOf(n) /\ Singles = Lone(n, bucket)
  BY DEF Items, HashSlots, HashSlotsOf, Singles, Lone, Bucket, BinOf
<1>3. NextPow2(n) \in Nat /\ IsFiniteSet(HashSlotsOf(n)) /\ Cardinality(HashSlotsOf(n)) = NextPow2(n)
  BY <1>1, BucketsAre
<1>4. enough <=> SlotsSuffice(n, bucket)
  BY <1>2, <1>3 DEF SlotsSuffice
<1>5. ASSUME perfect.place = "built"
      PROVE  /\ enough
             /\ \A k \in Items : FindsPerfect(k) # {}
             /\ \A j, k \in Items : FindDataIndex(j) = FindDataIndex(k) => j = k
             /\ FindsPerfect(0) = IF perfect.default = 0 THEN Unclaimed ELSE {}
  <2>1. P = 1 .. n
    BY <1>5 DEF PerfectInv
  <2> HIDE DEF n, bucket, keys, claimed, slot, P
  <2>2. enough
    <3>1. Cardinality(1 .. n) = n /\ LoneBefore(n, bucket, perfect.next) = Lone(n, bucket)
      <4>1. Cardinality(1 .. n) = n
        BY <1>1, FS_Interval
      <4> QED
        BY <2>1, <4>1 DEF LoneBefore, Lone, P
    <3>2. Cardinality(claimed) <= NextPow2(n)
      <4>1. claimed \in SUBSET HashSlotsOf(n)
        BY <1>1
      <4>2. Cardinality(claimed) <= Cardinality(HashSlotsOf(n))
        BY <1>3, <4>1, FS_Subset
      <4> QED
        BY <1>3, <4>2
    <3>3. Cardinality(claimed) = n + Cardinality(Lone(n, bucket))
      BY <1>1, <2>1, <3>1
    <3> QED
      BY <1>4, <3>2, <3>3 DEF SlotsSuffice
  <2>3. \A k \in 1 .. n : FindDataIndex(k) = {slot[k]} /\ slot[k] \in claimed /\ keys[slot[k]] = k
    BY <1>1, <1>2, <2>1 DEF FindDataIndex, slot
  <2>4. \A k \in Items : FindsPerfect(k) # {}
    BY <1>2, <2>3 DEF FindsPerfect, keys
  <2>5. ASSUME NEW j \in Items, NEW k \in Items, FindDataIndex(j) = FindDataIndex(k) PROVE j = k
    <3>1. {slot[j]} = {slot[k]} /\ keys[slot[j]] = j /\ keys[slot[k]] = k
      BY <1>2, <2>3, <2>5
    <3>2. slot[j] = slot[k]
      BY <3>1
    <3> QED
      BY <3>1, <3>2
  <2>6. FindsPerfect(0) = IF perfect.default = 0 THEN Unclaimed ELSE {}
    <3>1. 0 \notin Items /\ 0 # n
      BY <1>1, <1>2
    <3>2. FindsPerfect(0) = {s \in HashSlotsOf(n) : keys[s] = 0}
      BY <1>2, <3>1 DEF FindsPerfect, FindDataIndex, keys
    <3>3. \A s \in HashSlotsOf(n) : keys[s] = 0 <=> s \notin claimed /\ perfect.default = 0
      <4>1. \A s \in claimed : keys[s] # 0
        BY <1>1
      <4>2. \A s \in HashSlotsOf(n) : s \notin claimed => keys[s] = perfect.default
        BY <1>1
      <4> QED
        BY <4>1, <4>2
    <3>4. Unclaimed = HashSlotsOf(n) \ claimed
      BY <1>2 DEF Unclaimed, claimed
    <3> QED
      BY <3>2, <3>3, <3>4
  <2> QED
    BY <2>2, <2>4, <2>5, <2>6
<1>6. perfect.place \in {"abort", "unsalted"} => ~enough
  BY <1>4 DEF PerfectInv
<1> HIDE DEF enough
<1>7. PerfectFinds <=> /\ perfect.place = "built" =>
                            /\ enough
                            /\ \A k \in Items : FindsPerfect(k) # {}
                            /\ \A j, k \in Items : FindDataIndex(j) = FindDataIndex(k) => j = k
                            /\ FindsPerfect(0) = IF perfect.default = 0 THEN Unclaimed ELSE {}
                       /\ perfect.place \in {"abort", "unsalted"} => ~enough
  BY DEF PerfectFinds, enough
<1> QED
  BY <1>5, <1>6, <1>7

(* The first slot, or item, of some.                                       *)
LEMMA FirstOfIs ==
  ASSUME NEW S \in SUBSET Nat, S # {}
  PROVE  FirstOf(S) \in S
<1>1. \E s \in S : \A t \in S : s <= t
  BY LeastNatural
<1> QED
  BY <1>1 DEF FirstOf

(* The buckets hold less and less: once one is empty, so are all after it. *)
LEMMA AllPlaced ==
  ASSUME NEW n, NEW bucket, NEW default, NEW next, NEW keys, NEW claimed, NEW slot,
         PerfectGood(n, bucket, default, next, keys, claimed, slot), next < BucketCount(n),
         BinOf(n, bucket, next) = {}
  PROVE  ItemsBefore(n, bucket, next) = 1 .. n
<1>1. /\ n \in Nat /\ bucket \in [1 .. n -> 0 .. BucketCount(n) - 1] /\ next \in Nat
      /\ \A b, c \in 0 .. BucketCount(n) - 1 :
           b < c => Cardinality(BinOf(n, bucket, b)) >= Cardinality(BinOf(n, bucket, c))
  BY DEF PerfectGood
<1>2. bucket \in [1 .. n -> Int] /\ BucketCount(n) \in Int
  BY <1>1, BucketsAre
<1>3. ASSUME NEW k \in 1 .. n, ~(bucket[k] < next) PROVE FALSE
  <2> DEFINE b == bucket[k]
  <2>1. b \in 0 .. BucketCount(n) - 1 /\ b # next /\ k \in BinOf(n, bucket, b)
    BY <1>1 DEF BinOf
  <2>2. next \in 0 .. BucketCount(n) - 1 /\ next < b
    BY <1>1, <1>2, <1>3, <2>1
  <2>3. Cardinality(BinOf(n, bucket, next)) >= Cardinality(BinOf(n, bucket, b))
    BY <1>1, <2>1, <2>2
  <2>4. Cardinality(BinOf(n, bucket, next)) = 0
    BY FS_EmptySet
  <2>5. Cardinality(BinOf(n, bucket, b)) \in Nat /\ Cardinality(BinOf(n, bucket, b)) # 0
    <3>1. BinOf(n, bucket, b) # {}
      BY <2>1
    <3> HIDE DEF b
    <3> QED
      BY <1>1, <1>2, <3>1, BinIs
  <2> QED
    BY <2>3, <2>4, <2>5
<1> QED
  BY <1>3 DEF ItemsBefore

LEMMA TooFew ==
  ASSUME NEW n, NEW bucket, NEW default, NEW next, NEW keys, NEW claimed, NEW slot,
         PerfectGood(n, bucket, default, next, keys, claimed, slot),
         NextPow2(n) < Cardinality(claimed) + LoneHere(n, bucket, next) + Cardinality(BinOf(n, bucket, next))
  PROVE  ~SlotsSuffice(n, bucket)
<1> DEFINE one == LoneHere(n, bucket, next)
           here == Cardinality(BinOf(n, bucket, next))
           before == Cardinality(ItemsBefore(n, bucket, next))
           alone == Cardinality(LoneBefore(n, bucket, next))
           after == Cardinality(ItemsBefore(n, bucket, next + 1))
           aloneAfter == Cardinality(LoneBefore(n, bucket, next + 1))
           lone == Cardinality(Lone(n, bucket))
           top == NextPow2(n)
           all == Cardinality(claimed)
<1>1. /\ n \in Nat /\ bucket \in [1 .. n -> 0 .. BucketCount(n) - 1] /\ next \in Int /\ all = before + alone
  BY DEF PerfectGood
<1>2. bucket \in [1 .. n -> Int] /\ top \in Nat
  BY <1>1, BucketsAre
<1>3. /\ before \in Nat /\ alone \in Nat /\ here \in Nat /\ after = before + here /\ after <= n
      /\ aloneAfter = alone + one /\ aloneAfter <= lone /\ lone \in Nat
  BY <1>1, <1>2, Counted
<1>4. one \in Nat
  BY DEF LoneHere
<1>5. top < all + one + here
  OBVIOUS
<1> HIDE DEF one, here, before, alone, after, aloneAfter, lone, top, all
<1>6. ~(n + lone <= top)
  BY <1>1, <1>2, <1>3, <1>4, <1>5
<1> QED
  BY <1>6 DEF SlotsSuffice, lone, top

LEMMA PerfectRecord ==
  ASSUME NEW n, NEW bucket, NEW default, NEW next, NEW place, NEW keys, NEW claimed, NEW slot,
         NEW next2, NEW place2, NEW keys2, NEW claimed2, NEW slot2, NEW r, NEW q,
         r = [n |-> n, bucket |-> bucket, default |-> default, next |-> next, place |-> place, keys |-> keys,
              claimed |-> claimed, slot |-> slot],
         q = [r EXCEPT !.next = next2, !.place = place2, !.claimed = claimed2, !.slot = slot2, !.keys = keys2]
  PROVE  q = [n |-> n, bucket |-> bucket, default |-> default, next |-> next2, place |-> place2, keys |-> keys2,
              claimed |-> claimed2, slot |-> slot2]
  OBVIOUS

(* The bucket of next finds its salt, or not.                              *)
LEMMA PerfectStep ==
  ASSUME PerfectInv, PerfectNext
  PROVE  PerfectInv'
<1> DEFINE n == perfect.n
           bucket == perfect.bucket
           default == perfect.default
           next == perfect.next
           keys == perfect.keys
           claimed == perfect.claimed
           slot == perfect.slot
           items == Bucket(next)
           H == HashSlotsOf(n)
           Spare == H \ claimed
           extra == IF Alone THEN {FirstOf(Unclaimed)} ELSE {}
<1>1. /\ perfect = [n |-> n, bucket |-> bucket, default |-> default, next |-> next,
                    place |-> perfect.place, keys |-> keys, claimed |-> claimed, slot |-> slot]
      /\ PerfectGood(n, bucket, default, next, keys, claimed, slot)
  BY DEF PerfectInv
<1>2. perfect.place = "constructor" /\ next < BucketCount(n)
  BY DEF PerfectNext, FindSaltForBucket, PerfectInv
<1>3. n \in Nat /\ bucket \in [1 .. n -> 0 .. BucketCount(n) - 1] /\ next \in Nat /\ claimed \subseteq H
      /\ Cardinality(claimed) = Cardinality(ItemsBefore(n, bucket, next)) + Cardinality(LoneBefore(n, bucket, next))
  BY <1>1 DEF PerfectGood
<1>4. BucketCount(n) \in Int /\ bucket \in [1 .. n -> Int] /\ NextPow2(n) \in Nat
      /\ IsFiniteSet(H) /\ Cardinality(H) = NextPow2(n)
  BY <1>3, BucketsAre
<1>5. Items = 1 .. n /\ HashSlots = H /\ items = BinOf(n, bucket, next) /\ Unclaimed = Spare
      /\ ClaimedAlone = claimed \cup extra /\ (Alone <=> Cardinality(items) = 1)
  BY DEF Items, HashSlots, HashSlotsOf, Bucket, BinOf, Unclaimed, ClaimedAlone, Alone
<1>6. IsFiniteSet(claimed) /\ IsFiniteSet(items) /\ Cardinality(items) \in Nat /\ Cardinality(claimed) \in Nat
      /\ items \subseteq Nat /\ (Cardinality(items) = 1 => items # {}) 
  <2>1. claimed \in SUBSET H
    BY <1>3
  <2> HIDE DEF items, H, claimed
  <2>2. IsFiniteSet(claimed)
    BY <1>4, <2>1, FS_Subset
  <2>3. IsFiniteSet(items) /\ Cardinality(items) \in Nat
    BY <1>3, <1>4, <1>5, BinIs
  <2>4. items \subseteq Nat
    BY <1>3, <1>5 DEF BinOf
  <2>5. Cardinality(items) = 1 => items # {}
    BY FS_EmptySet
  <2> QED
    BY <2>2, <2>3, <2>4, <2>5, FS_CardinalityType
<1>7. \/ items = {} /\ perfect' = [perfect EXCEPT !.place = "built"]
      \/ items # {} /\ Alone /\ Unclaimed = {} /\ perfect' = [perfect EXCEPT !.place = "abort"]
      \/ items # {} /\ ~(Alone /\ Unclaimed = {}) /\ Cardinality(HashSlots \ ClaimedAlone) < Cardinality(items)
         /\ perfect' = [perfect EXCEPT !.place = "unsalted"]
      \/ ~(Alone /\ Unclaimed = {}) /\ \E slots \in SUBSET (HashSlots \ ClaimedAlone) :
           /\ Cardinality(slots) = Cardinality(items)
           /\ perfect' =
               [perfect EXCEPT
                  !.next = @ + 1,
                  !.place = IF perfect.next + 1 = BucketCount(perfect.n) THEN "built" ELSE @,
                  !.claimed = ClaimedAlone \cup slots,
                  !.slot = [k \in Items |-> IF k \in items THEN CHOOSE s \in slots : InTurn(slots, items, s) = k
                                            ELSE @[k]],
                  !.keys = [s \in HashSlots |->
                              IF s \in slots THEN InTurn(slots, items, s)
                              ELSE IF Alone /\ s = FirstOf(Unclaimed) THEN FirstOf(items) ELSE @[s]]]
  BY DEF PerfectNext, FindSaltForBucket, InTurn, RankIn
<1>8. ~(Alone /\ Unclaimed = {}) => extra \subseteq Spare /\ IsFiniteSet(extra)
                                    /\ Cardinality(extra) = LoneHere(n, bucket, next)
  <2>1. Spare \in SUBSET Nat
    BY DEF HashSlotsOf
  <2>2. CASE Alone
    <3>1. Alone /\ Unclaimed # {} => FirstOf(Unclaimed) \in Spare
      <4> HIDE DEF Spare
      <4> QED
        BY <1>5, <2>1, FirstOfIs
    <3>2. extra = {FirstOf(Unclaimed)}
      BY <2>2
    <3>3. LoneHere(n, bucket, next) = 1
      BY <1>5, <2>2 DEF LoneHere
    <3>4. IsFiniteSet({FirstOf(Unclaimed)}) /\ Cardinality({FirstOf(Unclaimed)}) = 1
      BY FS_Singleton
    <3> HIDE DEF extra, Spare
    <3> QED
      BY <2>2, <3>1, <3>2, <3>3, <3>4
  <2>3. CASE ~Alone
    <3>1. extra = {} /\ LoneHere(n, bucket, next) = 0
      BY <1>5, <2>3 DEF LoneHere
    <3> HIDE DEF extra, Spare
    <3> QED
      BY <3>1, FS_EmptySet
  <2> QED
    BY <2>2, <2>3
<1>9. CASE items = {} /\ perfect' = [perfect EXCEPT !.place = "built"]
  <2>1. ItemsBefore(n, bucket, next) = 1 .. n
    <3>1. BinOf(n, bucket, next) = {}
      BY <1>5, <1>9
    <3> HIDE DEF n, bucket, default, next, keys, claimed, slot
    <3> QED
      BY <1>1, <1>2, <3>1, AllPlaced
  <2>2. perfect' = [n |-> n, bucket |-> bucket, default |-> default, next |-> next,
                    place |-> "built", keys |-> keys, claimed |-> claimed, slot |-> slot]
    BY <1>1, <1>9
  <2> HIDE DEF n, bucket, default, next, keys, claimed, slot
  <2> QED
    BY <1>1, <2>1, <2>2 DEF PerfectInv
<1>10. CASE items # {} /\ Alone /\ Unclaimed = {} /\ perfect' = [perfect EXCEPT !.place = "abort"]
  <2>1. claimed = H
    BY <1>3, <1>5, <1>10
  <2>2. Cardinality(claimed) = NextPow2(n) /\ LoneHere(n, bucket, next) = 1 /\ Cardinality(items) = 1
    BY <1>4, <1>5, <1>10, <2>1 DEF LoneHere
  <2>3. NextPow2(n) < Cardinality(claimed) + LoneHere(n, bucket, next) + Cardinality(BinOf(n, bucket, next))
    BY <1>4, <1>5, <2>2
  <2>4. perfect' = [n |-> n, bucket |-> bucket, default |-> default, next |-> next,
                    place |-> "abort", keys |-> keys, claimed |-> claimed, slot |-> slot]
    BY <1>1, <1>10
  <2> HIDE DEF n, bucket, default, next, keys, claimed, slot
  <2>5. ~SlotsSuffice(n, bucket)
    BY <1>1, <2>3, TooFew
  <2> QED
    BY <1>1, <2>4, <2>5 DEF PerfectInv
<1>11. CASE ~(Alone /\ Unclaimed = {}) /\ Cardinality(HashSlots \ ClaimedAlone) < Cardinality(items)
            /\ perfect' = [perfect EXCEPT !.place = "unsalted"]
  <2> DEFINE free == H \ (claimed \cup extra)
             one == LoneHere(n, bucket, next)
  <2>1. Cardinality(free) < Cardinality(items)
    BY <1>5, <1>11
  <2>2. one \in Nat
    BY DEF LoneHere
  <2>3. Cardinality(free) = NextPow2(n) - Cardinality(claimed) - one
    <3> DEFINE all == claimed \cup extra
    <3>1. extra \subseteq Spare /\ IsFiniteSet(extra) /\ Cardinality(extra) = one
      BY <1>8, <1>11
    <3>2. claimed \cap extra = {} /\ H \cap all = all /\ free = H \ all
      BY <1>3, <3>1
    <3> HIDE DEF H, extra, claimed, one, free
    <3>3. IsFiniteSet(all) /\ Cardinality(all) = Cardinality(claimed) + Cardinality(extra) - Cardinality(claimed \cap extra)
      BY <1>6, <3>1, FS_Union
    <3>4. Cardinality(claimed \cap extra) = 0
      BY <3>2, FS_EmptySet
    <3> HIDE DEF all
    <3>5. Cardinality(H \ all) = Cardinality(H) - Cardinality(H \cap all)
      BY <1>4, <3>3, FS_Difference
    <3>6. Cardinality(all) = Cardinality(claimed) + one
      BY <1>6, <2>2, <3>1, <3>3, <3>4
    <3>7. Cardinality(H \ all) = NextPow2(n) - Cardinality(all)
      BY <1>4, <3>2, <3>5
    <3>8. Cardinality(free) = NextPow2(n) - Cardinality(all)
      BY <3>2, <3>7
    <3> QED
      BY <1>4, <1>6, <2>2, <3>6, <3>8
  <2>4. NextPow2(n) < Cardinality(claimed) + one + Cardinality(items)
    <3> HIDE DEF free, one, items, claimed
    <3> QED
      BY <1>4, <1>6, <2>1, <2>2, <2>3
  <2>5. NextPow2(n) < Cardinality(claimed) + LoneHere(n, bucket, next) + Cardinality(BinOf(n, bucket, next))
    BY <1>5, <2>4
  <2>6. perfect' = [n |-> n, bucket |-> bucket, default |-> default, next |-> next,
                    place |-> "unsalted", keys |-> keys, claimed |-> claimed, slot |-> slot]
    BY <1>1, <1>11
  <2> HIDE DEF n, bucket, default, next, keys, claimed, slot
  <2>7. ~SlotsSuffice(n, bucket)
    BY <1>1, <2>5, TooFew
  <2> QED
    BY <1>1, <2>6, <2>7 DEF PerfectInv
<1>12. ASSUME ~(Alone /\ Unclaimed = {}), NEW slots \in SUBSET (HashSlots \ ClaimedAlone),
              Cardinality(slots) = Cardinality(items),
              perfect' =
               [perfect EXCEPT
                  !.next = @ + 1,
                  !.place = IF perfect.next + 1 = BucketCount(perfect.n) THEN "built" ELSE @,
                  !.claimed = ClaimedAlone \cup slots,
                  !.slot = [k \in Items |-> IF k \in items THEN CHOOSE s \in slots : InTurn(slots, items, s) = k
                                            ELSE @[k]],
                  !.keys = [s \in HashSlots |->
                              IF s \in slots THEN InTurn(slots, items, s)
                              ELSE IF Alone /\ s = FirstOf(Unclaimed) THEN FirstOf(items) ELSE @[s]]]
       PROVE  PerfectInv'
  <2> DEFINE place2 == IF next + 1 = BucketCount(n) THEN "built" ELSE "constructor"
             claimed2 == (claimed \cup extra) \cup slots
             slot2 == [k \in Items |-> IF k \in items THEN CHOOSE s \in slots : InTurn(slots, items, s) = k
                                       ELSE slot[k]]
             keys2 == [s \in HashSlots |->
                         IF s \in slots THEN InTurn(slots, items, s)
                         ELSE IF Alone /\ s = FirstOf(Unclaimed) THEN FirstOf(items) ELSE keys[s]]
             next2 == next + 1
  <2>1. perfect' = [perfect EXCEPT !.next = next2, !.place = place2, !.claimed = claimed2, !.slot = slot2,
                                   !.keys = keys2]
    BY <1>2, <1>5, <1>12
  <2>2. perfect' = [n |-> n, bucket |-> bucket, default |-> default, next |-> next2,
                    place |-> place2, keys |-> keys2, claimed |-> claimed2, slot |-> slot2]
    <3> DEFINE was == perfect
               place == perfect.place
               new == perfect'
    <3>1. was = [n |-> n, bucket |-> bucket, default |-> default, next |-> next, place |-> place, keys |-> keys,
                 claimed |-> claimed, slot |-> slot]
      BY <1>1
    <3>2. new = [was EXCEPT !.next = next2, !.place = place2, !.claimed = claimed2, !.slot = slot2, !.keys = keys2]
      BY <2>1
    <3> HIDE DEF next2, place2, claimed2, slot2, keys2, n, bucket, default, next, keys, claimed, slot, was, place, new
    <3>3. new = [n |-> n, bucket |-> bucket, default |-> default, next |-> next2,
                 place |-> place2, keys |-> keys2, claimed |-> claimed2, slot |-> slot2]
      BY <3>1, <3>2, PerfectRecord
    <3> QED
      BY <3>3 DEF new
  <2>3. PerfectGood(n, bucket, default, next2, keys2, claimed2, slot2)
    <3>1. extra \subseteq HashSlotsOf(n) \ claimed /\ IsFiniteSet(extra) /\ Cardinality(extra) = LoneHere(n, bucket, next)
      BY <1>8, <1>12
    <3>2. /\ slots \subseteq HashSlotsOf(n) /\ slots \cap (claimed \cup extra) = {}
          /\ Cardinality(slots) = Cardinality(items)
      BY <1>5, <1>12
    <3>3. \A s \in slots : keys2[s] = InTurn(slots, items, s)
      BY <1>12
    <3>4. ASSUME NEW s \in extra PROVE keys2[s] \in items
      <4>1. Alone /\ s = FirstOf(Unclaimed)
        OBVIOUS
      <4>2. s \in HashSlots /\ s \notin slots
        BY <1>5, <3>1, <3>2
      <4>3. keys2[s] = FirstOf(items)
        BY <4>1, <4>2
      <4>4. items # {}
        BY <1>5, <1>6, <4>1
      <4>5. FirstOf(items) \in items
        <5> HIDE DEF items
        <5> QED
          BY <1>6, <4>4, FirstOfIs
      <4> QED
        BY <4>3, <4>5
    <3>5. ASSUME NEW s \in HashSlotsOf(n), s \notin slots \cup extra PROVE keys2[s] = keys[s]
      <4>1. ~(Alone /\ s = FirstOf(Unclaimed))
        BY <3>5
      <4>2. s \in HashSlots /\ s \notin slots
        BY <1>5, <3>5
      <4> QED
        BY <4>1, <4>2
    <3>6. \A k \in items : slot2[k] = CHOOSE s \in slots : InTurn(slots, items, s) = k
      <4>1. items \subseteq Items
        BY DEF Bucket
      <4> QED
        BY <4>1
    <3>7. \A k \in 1 .. n : k \notin items => slot2[k] = slot[k]
      BY <1>5
    <3>8. items = BinOf(n, bucket, next)
      BY <1>5
    <3> HIDE DEF items, extra, keys2, slot2, n, bucket, default, next, keys, claimed, slot
    <3> QED
      BY <1>1, <3>1, <3>2, <3>3, <3>4, <3>5, <3>6, <3>7, <3>8, GoodPlaced
  <2>4. place2 = "constructor" => next2 < BucketCount(n)
    BY <1>2, <1>3, <1>4
  <2>5. place2 = "built" => ItemsBefore(n, bucket, next2) = 1 .. n
    <3> SUFFICES ASSUME next2 = BucketCount(n) PROVE ItemsBefore(n, bucket, next2) = 1 .. n
      OBVIOUS
    <3>1. \A k \in 1 .. n : bucket[k] \in 0 .. BucketCount(n) - 1
      BY <1>3
    <3>2. \A k \in 1 .. n : bucket[k] < next2
      BY <1>4, <3>1
    <3> QED
      BY <3>2 DEF ItemsBefore
  <2>6. place2 \notin {"abort", "unsalted"}
    OBVIOUS
  <2> HIDE DEF next2, place2, claimed2, slot2, keys2, n, bucket, default, keys, claimed, slot
  <2> QED
    BY <2>2, <2>3, <2>4, <2>5, <2>6 DEF PerfectInv
<1> HIDE DEF items, extra, Spare, H, n, bucket, next, default, keys, claimed, slot
<1> QED
  BY <1>7, <1>9, <1>10, <1>11, <1>12

-------------------------------------------------------------------------------
(* The bounded graph.                                                      *)

IdTables == [TableCells -> NodeIds \cup {NoId}]
HomesKnown == bg.home \in [NodeIds -> TableCells]
InReach(t) == Reached(t, MaxVertices, bg.home, NoId)

LEMMA IdTablesAre ==
  ASSUME HomesKnown, NEW t \in IdTables
  PROVE  /\ MaxVertices \in Nat /\ TableCells = 0 .. MaxVertices - 1 /\ NoId \notin NodeIds
         /\ Housed(t, MaxVertices, bg.home, NoId)
         /\ \A id \in NodeIds : bg.home[id] \in 0 .. MaxVertices - 1
<1>1. MaxVertices \in Nat /\ NoId \notin NodeIds /\ TableCells = 0 .. MaxVertices - 1
  BY BoundedGraphAssumption DEF NodeIds, NoId, TableCells
<1>2. \A id \in NodeIds : bg.home[id] \in 0 .. MaxVertices - 1
  BY <1>1 DEF HomesKnown
<1>3. \A p \in 0 .. MaxVertices - 1 : t[p] # NoId => t[p] \in NodeIds
  BY <1>1 DEF IdTables
<1> QED
  BY <1>1, <1>2, <1>3 DEF Housed

LEMMA CellIs ==
  ASSUME HomesKnown, NEW t \in IdTables, NEW id \in NodeIds
  PROVE  CellOf(t, id) = FirstFor(t, MaxVertices, bg.home[id], id, NoId)
<1> DEFINE h == bg.home[id]
<1>1. MaxVertices \in Nat /\ TableCells = 0 .. MaxVertices - 1 /\ h \in 0 .. MaxVertices - 1
  BY IdTablesAre
<1>2. \A n \in TableCells : Distance(id, n) = Ahead(MaxVertices, h, n)
  BY <1>1, AheadAround DEF Distance
<1> HIDE DEF h
<1>3. CellOf(t, id) = FirstFor(t, MaxVertices, h, id, NoId)
  BY <1>1, <1>2 DEF CellOf, FirstFor
<1> QED
  BY <1>3 DEF h

(* Where an id is looked for, it is, if it is anywhere.                    *)
LEMMA CellHas ==
  ASSUME HomesKnown, NEW t \in IdTables, NEW id \in NodeIds
  PROVE  /\ \A n \in CellOf(t, id) : n \in TableCells /\ t[n] \in {NoId, id}
         /\ \A m, n \in CellOf(t, id) : m = n
         /\ id \notin EdgeKeys(t) => \A n \in CellOf(t, id) : t[n] = NoId
         /\ HasKey(t, id) => id \in EdgeKeys(t)
         /\ InReach(t) => (HasKey(t, id) <=> id \in EdgeKeys(t))
         /\ InReach(t) => \A p \in TableCells : t[p] = id => CellOf(t, id) = {p}
<1> DEFINE h == bg.home[id]
<1>1. /\ MaxVertices \in Nat /\ TableCells = 0 .. MaxVertices - 1 /\ h \in 0 .. MaxVertices - 1
      /\ Housed(t, MaxVertices, bg.home, NoId) /\ id # NoId
  BY IdTablesAre
<1>2. CellOf(t, id) = FirstFor(t, MaxVertices, h, id, NoId)
  BY CellIs
<1>3. \A n \in CellOf(t, id) : n \in TableCells /\ t[n] \in {NoId, id}
  BY DEF CellOf
<1>4. \A m, n \in CellOf(t, id) : m = n
  <2> HIDE DEF h
  <2> QED
    BY <1>1, <1>2, FirstOnly
<1>5. \A n \in TableCells : t[n] # NoId => t[n] \in EdgeKeys(t)
  BY DEF EdgeKeys
<1>6. id \notin EdgeKeys(t) => \A n \in CellOf(t, id) : t[n] = NoId
  BY <1>3, <1>5
<1>7. HasKey(t, id) => id \in EdgeKeys(t)
  BY <1>1, <1>3, <1>5 DEF HasKey
<1>8. ASSUME InReach(t), NEW p \in TableCells, t[p] = id PROVE CellOf(t, id) = {p}
  <2>1. Reached(t, MaxVertices, bg.home, NoId) /\ t[p] # NoId
    BY <1>1, <1>8 DEF InReach
  <2>2. FirstFor(t, MaxVertices, bg.home[t[p]], t[p], NoId) = {p}
    <3> DEFINE home == bg.home
               cells == 0 .. MaxVertices - 1
    <3>1. MaxVertices \in Nat /\ p \in cells /\ Housed(t, MaxVertices, home, NoId) /\ Reached(t, MaxVertices, home, NoId)
      BY <1>1, <2>1
    <3> HIDE DEF home
    <3>2. FirstFor(t, MaxVertices, home[t[p]], t[p], NoId) = {p}
      BY <2>1, <3>1, ReachedFirst
    <3> QED
      BY <3>2 DEF home
  <2> QED
    BY <1>2, <1>8, <2>2
<1>9. ASSUME InReach(t), id \in EdgeKeys(t) PROVE HasKey(t, id)
  <2>1. PICK p \in TableCells : t[p] = id
    BY <1>9 DEF EdgeKeys
  <2> QED
    BY <1>8, <1>9, <2>1 DEF HasKey
<1> QED
  BY <1>3, <1>4, <1>6, <1>7, <1>8, <1>9

LEMMA InsertedIs ==
  ASSUME HomesKnown, NEW t \in IdTables, NEW id \in NodeIds, Fits(t, id)
  PROVE  /\ Inserted(t, id) \in IdTables
         /\ InReach(t) => EdgeKeys(Inserted(t, id)) = EdgeKeys(t) \cup {id} /\ InReach(Inserted(t, id))
         /\ InReach(t) /\ id \in EdgeKeys(t) => Inserted(t, id) = t
<1> DEFINE u == Inserted(t, id)
<1>1. PICK n \in CellOf(t, id) : TRUE
  BY DEF Fits
<1>2. n \in TableCells /\ t[n] \in {NoId, id} /\ CellOf(t, id) = {n} /\ id # NoId
  BY CellHas, IdTablesAre
<1>3. t \in [TableCells -> NodeIds \cup {NoId}]
  BY DEF IdTables
<1>4. u[n] = id /\ \A m \in TableCells : m # n => u[m] = t[m]
  BY <1>2 DEF Inserted
<1>5. u \in IdTables
  BY <1>3 DEF Inserted, IdTables
<1>6. ASSUME InReach(t) PROVE EdgeKeys(u) = EdgeKeys(t) \cup {id} /\ InReach(u)
  <2>1. \A x : x \in EdgeKeys(t) <=> x # NoId /\ \E m \in TableCells : t[m] = x
    BY DEF EdgeKeys
  <2>2. \A x : x \in EdgeKeys(u) <=> x # NoId /\ \E m \in TableCells : u[m] = x
    BY DEF EdgeKeys
  <2> HIDE DEF u
  <2>3. EdgeKeys(u) = EdgeKeys(t) \cup {id}
    BY <1>2, <1>4, <2>1, <2>2
  <2> DEFINE home == bg.home
             cells == 0 .. MaxVertices - 1
  <2>4. /\ MaxVertices \in Nat /\ TableCells = cells /\ Housed(t, MaxVertices, home, NoId)
        /\ home[id] \in cells
    BY IdTablesAre
  <2>5. n \in FirstFor(t, MaxVertices, home[id], id, NoId) /\ Reached(t, MaxVertices, home, NoId)
    BY <1>1, <1>6, CellIs DEF InReach
  <2> HIDE DEF home
  <2>6. Reached(u, MaxVertices, home, NoId)
    BY <1>2, <1>4, <2>4, <2>5, ReachedFill
  <2> QED
    BY <2>3, <2>6 DEF InReach, home
<1>7. ASSUME InReach(t), id \in EdgeKeys(t) PROVE u = t
  <2>1. PICK p \in TableCells : t[p] = id
    BY <1>7 DEF EdgeKeys
  <2>2. p = n
    BY <1>2, <1>7, <2>1, CellHas
  <2>3. \A m \in TableCells : u[m] = t[m]
    BY <1>4, <2>1, <2>2
  <2>4. u \in [TableCells -> NodeIds \cup {NoId}]
    BY <1>5 DEF IdTables
  <2> HIDE DEF u
  <2> QED
    BY <1>3, <2>3, <2>4
<1> QED
  BY <1>5, <1>6, <1>7

LEMMA ErasedIs ==
  ASSUME HomesKnown, NEW t \in IdTables, NEW id \in NodeIds
  PROVE  /\ Erased(t, id) \in IdTables
         /\ id \notin EdgeKeys(t) => Erased(t, id) = t
         /\ InReach(t) => EdgeKeys(Erased(t, id)) = EdgeKeys(t) \ {id}
         /\ InReach(t) /\ ~Skews(t, id) => InReach(Erased(t, id))
<1> DEFINE u == Erased(t, id)
           C == CellOf(t, id)
<1>1. t \in [TableCells -> NodeIds \cup {NoId}] /\ id # NoId
  BY IdTablesAre DEF IdTables
<1>2. \A m \in TableCells : u[m] = IF m \in C THEN NoId ELSE t[m]
  BY DEF Erased
<1>3. u \in [TableCells -> NodeIds \cup {NoId}]
  BY <1>1 DEF Erased
<1>4. u \in IdTables
  BY <1>3 DEF IdTables
<1> HIDE DEF u, C
<1>5. ASSUME id \notin EdgeKeys(t) PROVE u = t
  <2>1. \A n \in C : t[n] = NoId
    BY <1>5, CellHas DEF C
  <2>2. \A m \in TableCells : u[m] = t[m]
    BY <1>2, <2>1
  <2> QED
    BY <1>1, <1>3, <2>2
<1>6. \A x : x \in EdgeKeys(t) <=> x # NoId /\ \E m \in TableCells : t[m] = x
  BY DEF EdgeKeys
<1>7. \A x : x \in EdgeKeys(u) <=> x # NoId /\ \E m \in TableCells : u[m] = x
  BY DEF EdgeKeys
<1>8. CASE id \notin EdgeKeys(t)
  <2>1. EdgeKeys(u) = EdgeKeys(t) \ {id} /\ (InReach(t) => InReach(u))
    BY <1>5, <1>8
  <2> QED
    BY <1>4, <1>5, <2>1 DEF u
<1>9. CASE id \in EdgeKeys(t)
  <2>1. PICK n \in TableCells : t[n] = id
    BY <1>6, <1>9
  <2>2. ASSUME InReach(t) PROVE EdgeKeys(u) = EdgeKeys(t) \ {id} /\ (~Skews(t, id) => InReach(u))
    <3>1. C = {n}
      BY <2>1, <2>2, CellHas DEF C
    <3>2. \A p \in TableCells : t[p] = id => p = n
      BY <2>1, <2>2, <3>1, CellHas DEF C
    <3>3. u[n] = NoId /\ \A m \in TableCells : m # n => u[m] = t[m]
      BY <1>2, <3>1
    <3>4. EdgeKeys(u) = EdgeKeys(t) \ {id}
      BY <1>1, <1>6, <1>7, <2>1, <3>2, <3>3
    <3>5. ASSUME ~Skews(t, id) PROVE InReach(u)
      <4> DEFINE home == bg.home
                 cells == 0 .. MaxVertices - 1
      <4>1. /\ MaxVertices \in Nat /\ TableCells = cells /\ Housed(t, MaxVertices, home, NoId)
            /\ Reached(t, MaxVertices, home, NoId)
        BY <2>2, IdTablesAre DEF InReach
      <4>2. \A p \in cells : t[p] # NoId /\ p # n => ~(Ahead(MaxVertices, home[t[p]], n) < Ahead(MaxVertices, home[t[p]], p))
        <5>1. \A p \in TableCells : t[p] # NoId /\ p # n => ~(Distance(t[p], n) < Distance(t[p], p))
          BY <2>1, <3>1, <3>2, <3>5 DEF Skews, C
        <5>2. \A k \in NodeIds, p \in TableCells : Distance(k, p) = Ahead(MaxVertices, home[k], p)
          <6>1. \A k \in NodeIds : home[k] \in cells
            BY IdTablesAre
          <6> QED
            BY <4>1, <6>1, AheadAround DEF Distance
        <5>3. \A p \in TableCells : t[p] # NoId => t[p] \in NodeIds
          BY <1>1
        <5> HIDE DEF cells, home
        <5> QED
          BY <2>1, <4>1, <5>1, <5>2, <5>3
      <4> HIDE DEF home
      <4>3. Reached(u, MaxVertices, home, NoId)
        BY <2>1, <3>3, <4>1, <4>2, ReachedEmpty
      <4> QED
        BY <4>3 DEF InReach, home
    <3> QED
      BY <3>4, <3>5
  <2> QED
    BY <1>4, <1>9, <2>2 DEF u
<1> QED
  BY <1>8, <1>9

(* Until tables are skewed, every id in them is reached. They have the     *)
(* edges the calls made, of nodes that are live, always.                   *)
Outgoing(a) == {b \in NodeIds : <<a, b>> \in bg.pairs}
Incoming(b) == {a \in NodeIds : <<a, b>> \in bg.pairs}

GraphTyped ==
  /\ bg = [home |-> bg.home, cur_id |-> bg.cur_id, nodes |-> bg.nodes, out |-> bg.out, in |-> bg.in,
           live |-> bg.live, pairs |-> bg.pairs, skewed |-> bg.skewed]
  /\ HomesKnown /\ bg.cur_id \in Nat /\ bg.nodes \in IdTables
  /\ bg.out \in [NodeIds -> IdTables] /\ bg.in \in [NodeIds -> IdTables]
  /\ bg.live \in SUBSET NodeIds /\ bg.pairs \in SUBSET (bg.live \X bg.live)
  /\ \A id \in bg.live : id < bg.cur_id
GraphKeyed ==
  /\ EdgeKeys(bg.nodes) = bg.live
  /\ \A id \in bg.live : EdgeKeys(bg.out[id]) = Outgoing(id) /\ EdgeKeys(bg.in[id]) = Incoming(id)
GraphReached ==
  InReach(bg.nodes) /\ \A id \in bg.live : InReach(bg.out[id]) /\ InReach(bg.in[id])
BoundedGraphInv == GraphTyped /\ GraphKeyed /\ (~bg.skewed => GraphReached)

LEMMA BoundedGraphBegin ==
  ASSUME BoundedGraphInit
  PROVE  BoundedGraphInv
<1> DEFINE none == [id \in NodeIds |-> NoKeys]
           empty == {}
           no == FALSE
<1>1. PICK home \in [NodeIds -> TableCells] :
        bg = [home |-> home, cur_id |-> 0, nodes |-> NoKeys, out |-> none, in |-> none,
              live |-> empty, pairs |-> empty, skewed |-> no]
  BY DEF BoundedGraphInit, NoNodes
<1>2. NoKeys \in IdTables
  BY DEF NoKeys, IdTables
<1>3. none \in [NodeIds -> IdTables]
  BY <1>2
<1>4. \A n \in TableCells : NoKeys[n] = NoId
  BY DEF NoKeys
<1> HIDE DEF none, no
<1>5. /\ bg.home = home /\ bg.cur_id = 0 /\ bg.nodes = NoKeys /\ bg.out = none /\ bg.in = none
      /\ bg.live = empty /\ bg.pairs = empty /\ bg.skewed = no
  BY <1>1
<1>6. bg = [home |-> bg.home, cur_id |-> bg.cur_id, nodes |-> bg.nodes, out |-> bg.out, in |-> bg.in,
            live |-> bg.live, pairs |-> bg.pairs, skewed |-> bg.skewed]
  BY <1>1, <1>5
<1>7. GraphTyped
  BY <1>2, <1>3, <1>5, <1>6 DEF GraphTyped, HomesKnown
<1>8. GraphKeyed
  BY <1>4, <1>5 DEF GraphKeyed, EdgeKeys
<1>9. InReach(NoKeys)
  <2> HIDE DEF empty
  <2> QED
    BY <1>4 DEF InReach, Reached, TableCells
<1> QED
  BY <1>5, <1>7, <1>8, <1>9 DEF BoundedGraphInv, GraphReached

LEMMA BoundedGraphRest ==
  ASSUME BoundedGraphInv, UNCHANGED bg
  PROVE  BoundedGraphInv'
  BY DEF BoundedGraphInv, GraphTyped, GraphKeyed, GraphReached, HomesKnown, InReach, Outgoing, Incoming

(* The ids of cells that have ids of some, each once.                      *)
LEMMA VisitedOnce ==
  ASSUME GraphTyped, InReach(bg.nodes), NEW T \in SUBSET bg.live, EdgeKeys(bg.nodes) = bg.live
  PROVE  LET cells == {n \in TableCells : bg.nodes[n] \in T}
         IN {bg.nodes[n] : n \in cells} = T /\ Cardinality(cells) = Cardinality(T)
<1> DEFINE t == bg.nodes
           S == {n \in TableCells : t[n] \in T}
           f == [n \in S |-> t[n]]
<1>1. /\ MaxVertices \in Nat /\ TableCells = 0 .. MaxVertices - 1 /\ NoId \notin NodeIds
      /\ Housed(t, MaxVertices, bg.home, NoId)
  BY IdTablesAre DEF GraphTyped
<1>2. NoId \notin T /\ \A id \in T : \E n \in S : t[n] = id
  <2>1. T \subseteq NodeIds /\ \A id \in T : id \in EdgeKeys(t)
    BY DEF GraphTyped
  <2> QED
    BY <1>1, <2>1 DEF EdgeKeys
<1>3. \A m, n \in S : t[m] = t[n] => m = n
  <2> DEFINE home == bg.home
  <2>1. Reached(t, MaxVertices, home, NoId) /\ Housed(t, MaxVertices, home, NoId)
    BY <1>1 DEF InReach
  <2>2. \A n \in S : n \in 0 .. MaxVertices - 1 /\ t[n] # NoId
    BY <1>1, <1>2
  <2> HIDE DEF home, t, S
  <2> QED
    BY <1>1, <2>1, <2>2, ReachedOnce
<1>4. IsFiniteSet(S)
  <2> DEFINE top == MaxVertices - 1
  <2>1. top \in Int /\ 0 \in Int /\ S \in SUBSET (0 .. top)
    BY <1>1
  <2> HIDE DEF top, S
  <2> QED
    BY <2>1, FS_Interval, FS_Subset
<1>5. f \in [S -> T] /\ (\A m, n \in S : f[m] = f[n] => m = n) /\ \A id \in T : \E n \in S : f[n] = id
  BY <1>2, <1>3
<1>6. {t[n] : n \in S} = T
  BY <1>2
<1> HIDE DEF f, S
<1>7. Cardinality(T) = Cardinality(S)
  BY <1>4, <1>5, SameCount
<1> QED
  BY <1>6, <1>7 DEF S

LEMMA BoundedGraphHoldsIt ==
  ASSUME BoundedGraphInv
  PROVE  BoundedGraphHolds
<1> DEFINE ids(cells) == {bg.nodes[n] : n \in cells}
           once(cells, set) == ids(cells) = set /\ Cardinality(cells) = Cardinality(set)
           roots == {id \in bg.live : \A p \in bg.pairs : p[2] # id}
           leaves == {id \in bg.live : \A p \in bg.pairs : p[1] # id}
<1>1. /\ GraphTyped /\ HomesKnown /\ bg.nodes \in IdTables /\ bg.live \subseteq NodeIds
      /\ bg.pairs \in SUBSET (bg.live \X bg.live)
      /\ \A id \in bg.live : bg.out[id] \in IdTables /\ bg.in[id] \in IdTables
  BY DEF BoundedGraphInv, GraphTyped
<1>2. /\ EdgeKeys(bg.nodes) = bg.live
      /\ \A id \in bg.live : EdgeKeys(bg.out[id]) = Outgoing(id) /\ EdgeKeys(bg.in[id]) = Incoming(id)
  BY DEF BoundedGraphInv, GraphKeyed
<1>3. \A id \in NodeIds : HasNode(id) => id \in bg.live
  BY <1>1, <1>2, CellHas DEF HasNode
<1>4. ASSUME NEW a \in bg.live, NEW b \in bg.live, HasKey(bg.out[a], b) \/ HasKey(bg.in[b], a)
      PROVE  <<a, b>> \in bg.pairs
  <2>1. b \in EdgeKeys(bg.out[a]) \/ a \in EdgeKeys(bg.in[b])
    BY <1>1, <1>4, CellHas
  <2> QED
    BY <1>2, <2>1 DEF Outgoing, Incoming
<1>5. ASSUME ~bg.skewed
      PROVE  /\ once({n \in TableCells : bg.nodes[n] # NoId}, bg.live) /\ \A id \in bg.live : HasNode(id)
             /\ \A a, b \in bg.live :
                  <<a, b>> \in bg.pairs => HasKey(bg.out[a], b) /\ HasKey(bg.in[b], a)
             /\ once(FindRoots, roots)
             /\ once(FindLeaves, leaves)
  <2>1. InReach(bg.nodes) /\ \A id \in bg.live : InReach(bg.out[id]) /\ InReach(bg.in[id])
    BY <1>5 DEF BoundedGraphInv, GraphReached
  <2>2. \A id \in bg.live : HasNode(id)
    BY <1>1, <1>2, <2>1, CellHas DEF HasNode
  <2>3. ASSUME NEW a \in bg.live, NEW b \in bg.live, <<a, b>> \in bg.pairs
        PROVE  HasKey(bg.out[a], b) /\ HasKey(bg.in[b], a)
    <3>1. b \in EdgeKeys(bg.out[a]) /\ a \in EdgeKeys(bg.in[b])
      BY <1>1, <1>2, <2>3 DEF Outgoing, Incoming
    <3> QED
      BY <1>1, <2>1, <3>1, CellHas
  <2>4. \A n \in TableCells : bg.nodes[n] # NoId <=> bg.nodes[n] \in bg.live
    <3>1. NoId \notin bg.live
      BY <1>1, IdTablesAre
    <3>2. \A n \in TableCells : bg.nodes[n] # NoId => bg.nodes[n] \in EdgeKeys(bg.nodes)
      BY DEF EdgeKeys
    <3> QED
      BY <1>2, <3>1, <3>2
  <2>5. ASSUME NEW T \in SUBSET bg.live, NEW cells, cells = {n \in TableCells : bg.nodes[n] \in T} PROVE once(cells, T)
    BY <1>1, <1>2, <2>1, <2>5, VisitedOnce
  <2>6. once({n \in TableCells : bg.nodes[n] # NoId}, bg.live)
    <3>1. {n \in TableCells : bg.nodes[n] # NoId} = {n \in TableCells : bg.nodes[n] \in bg.live}
      BY <2>4
    <3> HIDE DEF once
    <3> QED
      BY <2>5, <3>1
  <2>7. \A p \in bg.pairs : p = <<p[1], p[2]>> /\ p[1] \in bg.live /\ p[2] \in bg.live
    BY <1>1
  <2>8. once(FindRoots, roots)
    <3>1. \A id \in bg.live : EdgeKeys(bg.in[id]) = {} <=> \A p \in bg.pairs : p[2] # id
      <4> SUFFICES ASSUME NEW id \in bg.live PROVE EdgeKeys(bg.in[id]) = {} <=> \A p \in bg.pairs : p[2] # id
        OBVIOUS
      <4>1. \A a : a \in EdgeKeys(bg.in[id]) <=> a \in NodeIds /\ <<a, id>> \in bg.pairs
        BY <1>2 DEF Incoming
      <4>2. \A a : <<a, id>>[2] = id
        OBVIOUS
      <4>3. \A p \in bg.pairs : p[2] = id => p[1] \in EdgeKeys(bg.in[id])
        <5> SUFFICES ASSUME NEW p \in bg.pairs, p[2] = id PROVE p[1] \in EdgeKeys(bg.in[id])
          OBVIOUS
        <5>1. p = <<p[1], p[2]>> /\ p[1] \in NodeIds
          BY <1>1, <2>7
        <5> QED
          BY <4>1, <5>1
      <4> QED
        BY <4>1, <4>2, <4>3
    <3>2. \A n \in TableCells : bg.nodes[n] \in NodeIds => bg.nodes[n] \in bg.live
      BY <1>1, <2>4, IdTablesAre
    <3>3. FindRoots = {n \in TableCells : bg.nodes[n] \in roots}
      BY <1>1, <3>1, <3>2 DEF FindRoots, FindNodes
    <3>4. roots \in SUBSET bg.live
      OBVIOUS
    <3> HIDE DEF once, roots
    <3> QED
      BY <2>5, <3>3, <3>4
  <2>9. once(FindLeaves, leaves)
    <3>1. \A id \in bg.live : EdgeKeys(bg.out[id]) = {} <=> \A p \in bg.pairs : p[1] # id
      <4> SUFFICES ASSUME NEW id \in bg.live PROVE EdgeKeys(bg.out[id]) = {} <=> \A p \in bg.pairs : p[1] # id
        OBVIOUS
      <4>1. \A a : a \in EdgeKeys(bg.out[id]) <=> a \in NodeIds /\ <<id, a>> \in bg.pairs
        BY <1>2 DEF Outgoing
      <4>2. \A a : <<id, a>>[1] = id
        OBVIOUS
      <4>3. \A p \in bg.pairs : p[1] = id => p[2] \in EdgeKeys(bg.out[id])
        <5> SUFFICES ASSUME NEW p \in bg.pairs, p[1] = id PROVE p[2] \in EdgeKeys(bg.out[id])
          OBVIOUS
        <5>1. p = <<p[1], p[2]>> /\ p[2] \in NodeIds
          BY <1>1, <2>7
        <5> QED
          BY <4>1, <5>1
      <4> QED
        BY <4>1, <4>2, <4>3
    <3>2. \A n \in TableCells : bg.nodes[n] \in NodeIds => bg.nodes[n] \in bg.live
      BY <1>1, <2>4, IdTablesAre
    <3>3. FindLeaves = {n \in TableCells : bg.nodes[n] \in leaves}
      BY <1>1, <3>1, <3>2 DEF FindLeaves, FindNodes
    <3>4. leaves \in SUBSET bg.live
      OBVIOUS
    <3> HIDE DEF once, leaves
    <3> QED
      BY <2>5, <3>3, <3>4
  <2> QED
    BY <2>2, <2>3, <2>6, <2>8, <2>9
<1> QED
  BY <1>3, <1>4, <1>5 DEF BoundedGraphHolds

(* What a step leaves, in all.                                             *)
LEMMA BoundedGraphBecomes ==
  ASSUME HomesKnown, NEW cur \in Nat, NEW nodes \in IdTables, NEW out \in [NodeIds -> IdTables],
         NEW in \in [NodeIds -> IdTables], NEW live \in SUBSET NodeIds, NEW pairs \in SUBSET (live \X live), NEW skewed,
         \A id \in live : id < cur, EdgeKeys(nodes) = live,
         \A id \in live : \A x : x \in EdgeKeys(out[id]) <=> x \in NodeIds /\ <<id, x>> \in pairs,
         \A id \in live : \A x : x \in EdgeKeys(in[id]) <=> x \in NodeIds /\ <<x, id>> \in pairs,
         ~skewed => InReach(nodes) /\ \A id \in live : InReach(out[id]) /\ InReach(in[id]),
         NEW home, home = bg.home,
         bg' = [home |-> home, cur_id |-> cur, nodes |-> nodes, out |-> out, in |-> in, live |-> live,
                pairs |-> pairs, skewed |-> skewed]
  PROVE  BoundedGraphInv'
<1>1. /\ bg'.home = home /\ bg'.cur_id = cur /\ bg'.nodes = nodes /\ bg'.out = out /\ bg'.in = in
      /\ bg'.live = live /\ bg'.pairs = pairs /\ bg'.skewed = skewed
  OBVIOUS
<1>2. bg' = [home |-> bg'.home, cur_id |-> bg'.cur_id, nodes |-> bg'.nodes, out |-> bg'.out, in |-> bg'.in,
             live |-> bg'.live, pairs |-> bg'.pairs, skewed |-> bg'.skewed]
  BY <1>1
<1>3. GraphTyped'
  BY <1>1, <1>2 DEF GraphTyped, HomesKnown
<1>4. GraphKeyed'
  <2>1. ASSUME NEW id \in live
        PROVE  EdgeKeys(out[id]) = {x \in NodeIds : <<id, x>> \in pairs} /\ EdgeKeys(in[id]) = {x \in NodeIds : <<x, id>> \in pairs}
    OBVIOUS
  <2> QED
    BY <1>1, <2>1 DEF GraphKeyed, Outgoing, Incoming
<1>5. ~skewed => GraphReached'
  BY <1>1 DEF GraphReached, InReach
<1> QED
  BY <1>1, <1>3, <1>4, <1>5 DEF BoundedGraphInv

LEMMA BoundedGraphRecord ==
  ASSUME NEW home, NEW cur, NEW nodes, NEW out, NEW in, NEW live, NEW pairs, NEW skewed, NEW r, NEW q,
         r = [home |-> home, cur_id |-> cur, nodes |-> nodes, out |-> out, in |-> in, live |-> live,
              pairs |-> pairs, skewed |-> skewed],
         NEW cur2, NEW nodes2, NEW out2, NEW in2, NEW live2, NEW pairs2, NEW skewed2
  PROVE  /\ q = [r EXCEPT !.cur_id = cur2, !.nodes = nodes2, !.live = live2, !.out = out2, !.in = in2] =>
              q = [home |-> home, cur_id |-> cur2, nodes |-> nodes2, out |-> out2, in |-> in2, live |-> live2,
                   pairs |-> pairs, skewed |-> skewed]
         /\ q = [r EXCEPT !.out = out2, !.in = in2, !.pairs = pairs2] =>
              q = [home |-> home, cur_id |-> cur, nodes |-> nodes, out |-> out2, in |-> in2, live |-> live,
                   pairs |-> pairs2, skewed |-> skewed]
         /\ q = [r EXCEPT !.out = out2, !.in = in2, !.pairs = pairs2, !.skewed = skewed2] =>
              q = [home |-> home, cur_id |-> cur, nodes |-> nodes, out |-> out2, in |-> in2, live |-> live,
                   pairs |-> pairs2, skewed |-> skewed2]
         /\ q = [r EXCEPT !.out = out2, !.in = in2, !.nodes = nodes2, !.live = live2, !.pairs = pairs2,
                          !.skewed = skewed2] =>
              q = [home |-> home, cur_id |-> cur, nodes |-> nodes2, out |-> out2, in |-> in2, live |-> live2,
                   pairs |-> pairs2, skewed |-> skewed2]
  OBVIOUS

(* What holds before a step.                                               *)
LEMMA BoundedGraphBefore ==
  ASSUME BoundedGraphInv, ~bg.skewed
  PROVE  /\ HomesKnown /\ bg.cur_id \in Nat /\ bg.nodes \in IdTables
         /\ bg.out \in [NodeIds -> IdTables] /\ bg.in \in [NodeIds -> IdTables]
         /\ \A id \in NodeIds : bg.out[id] \in IdTables /\ bg.in[id] \in IdTables
         /\ bg.live \in SUBSET NodeIds /\ bg.pairs \in SUBSET (bg.live \X bg.live)
         /\ \A id \in bg.live : id < bg.cur_id
         /\ EdgeKeys(bg.nodes) = bg.live /\ InReach(bg.nodes)
         /\ \A id \in bg.live : \A x : x \in EdgeKeys(bg.out[id]) <=> x \in NodeIds /\ <<id, x>> \in bg.pairs
         /\ \A id \in bg.live : \A x : x \in EdgeKeys(bg.in[id]) <=> x \in NodeIds /\ <<x, id>> \in bg.pairs
         /\ \A id \in bg.live : InReach(bg.out[id]) /\ InReach(bg.in[id])
         /\ \A id \in NodeIds : HasNode(id) => id \in bg.live
<1>1. /\ HomesKnown /\ bg.cur_id \in Nat /\ bg.nodes \in IdTables
      /\ bg.out \in [NodeIds -> IdTables] /\ bg.in \in [NodeIds -> IdTables]
      /\ bg.live \in SUBSET NodeIds /\ bg.pairs \in SUBSET (bg.live \X bg.live)
      /\ \A id \in bg.live : id < bg.cur_id
  BY DEF BoundedGraphInv, GraphTyped
<1>2. /\ EdgeKeys(bg.nodes) = bg.live
      /\ \A id \in bg.live : EdgeKeys(bg.out[id]) = Outgoing(id) /\ EdgeKeys(bg.in[id]) = Incoming(id)
  BY DEF BoundedGraphInv, GraphKeyed
<1>3. InReach(bg.nodes) /\ \A id \in bg.live : InReach(bg.out[id]) /\ InReach(bg.in[id])
  BY DEF BoundedGraphInv, GraphReached
<1>4. \A id \in NodeIds : HasNode(id) => id \in bg.live
  BY <1>1, <1>2, CellHas DEF HasNode
<1>5. \A id \in bg.live : \A x : x \in EdgeKeys(bg.out[id]) <=> x \in NodeIds /\ <<id, x>> \in bg.pairs
  BY <1>2 DEF Outgoing
<1>6. \A id \in bg.live : \A x : x \in EdgeKeys(bg.in[id]) <=> x \in NodeIds /\ <<x, id>> \in bg.pairs
  BY <1>2 DEF Incoming
<1>7. \A id \in NodeIds : bg.out[id] \in IdTables /\ bg.in[id] \in IdTables
  BY <1>1
<1> QED
  BY <1>1, <1>2, <1>3, <1>4, <1>5, <1>6, <1>7

LEMMA NodeAdded ==
  ASSUME BoundedGraphInv, ~bg.skewed, AddBoundedNode
  PROVE  BoundedGraphInv'
<1> DEFINE home == bg.home
           cur == bg.cur_id
           nodes == bg.nodes
           out == bg.out
           in == bg.in
           live == bg.live
           pairs == bg.pairs
           skewed == bg.skewed
           nodes2 == Inserted(nodes, cur)
           out2 == [out EXCEPT ![cur] = NoKeys]
           in2 == [in EXCEPT ![cur] = NoKeys]
           live2 == live \cup {cur}
           cur2 == cur + 1
           was == bg
           new == bg'
<1>1. /\ HomesKnown /\ cur \in Nat /\ nodes \in IdTables
      /\ out \in [NodeIds -> IdTables] /\ in \in [NodeIds -> IdTables]
      /\ live \in SUBSET NodeIds /\ pairs \in SUBSET (live \X live)
      /\ \A id \in live : id < cur
      /\ EdgeKeys(nodes) = live /\ InReach(nodes)
      /\ \A id \in live : \A x : x \in EdgeKeys(out[id]) <=> x \in NodeIds /\ <<id, x>> \in pairs
      /\ \A id \in live : \A x : x \in EdgeKeys(in[id]) <=> x \in NodeIds /\ <<x, id>> \in pairs
      /\ \A id \in live : InReach(out[id]) /\ InReach(in[id])
  BY BoundedGraphBefore
<1>2. was = [home |-> home, cur_id |-> cur, nodes |-> nodes, out |-> out, in |-> in, live |-> live,
             pairs |-> pairs, skewed |-> skewed]
  BY DEF BoundedGraphInv, GraphTyped
<1>3. cur \in NodeIds /\ Fits(nodes, cur)
  BY <1>1, BoundedGraphAssumption DEF AddBoundedNode, NodeIds
<1>4. new = [was EXCEPT !.cur_id = cur2, !.nodes = nodes2, !.live = live2, !.out = out2, !.in = in2]
  BY DEF AddBoundedNode
<1>5. NoKeys \in IdTables /\ InReach(NoKeys) /\ EdgeKeys(NoKeys) = {}
  BY DEF NoKeys, IdTables, InReach, Reached, TableCells, EdgeKeys
<1>6. cur2 \in Nat /\ \A id \in live2 : id < cur2
  <2>1. \A id \in live : id \in Int
    BY <1>1 DEF NodeIds
  <2> QED
    BY <1>1, <2>1
<1>7. out2 \in [NodeIds -> IdTables] /\ in2 \in [NodeIds -> IdTables] /\ live2 \in SUBSET NodeIds
      /\ out2[cur] = NoKeys /\ in2[cur] = NoKeys /\ (\A id \in live : id # cur => out2[id] = out[id] /\ in2[id] = in[id])
  BY <1>1, <1>3, <1>5
<1>8. nodes2 \in IdTables /\ EdgeKeys(nodes2) = live2 /\ InReach(nodes2)
  <2> HIDE DEF nodes, live, cur
  <2> QED
    BY <1>1, <1>3, InsertedIs
<1>9. cur \notin live /\ \A x : <<cur, x>> \notin pairs /\ <<x, cur>> \notin pairs
  <2>1. \A id \in live : id # cur
    <3>1. \A id \in live : id \in Int
      BY <1>1 DEF NodeIds
    <3> QED
      BY <1>1, <3>1
  <2> QED
    BY <1>1, <2>1
<1> HIDE DEF home, cur, nodes, out, in, live, pairs, skewed, nodes2, out2, in2, live2, cur2, was, new
<1>10. new = [home |-> home, cur_id |-> cur2, nodes |-> nodes2, out |-> out2, in |-> in2, live |-> live2,
              pairs |-> pairs, skewed |-> skewed]
  BY <1>2, <1>4, BoundedGraphRecord
<1>11. \A id \in live2 : \A x : x \in EdgeKeys(out2[id]) <=> x \in NodeIds /\ <<id, x>> \in pairs
  <2> SUFFICES ASSUME NEW id \in live2 PROVE \A x : x \in EdgeKeys(out2[id]) <=> x \in NodeIds /\ <<id, x>> \in pairs
    OBVIOUS
  <2>1. CASE id = cur
    BY <1>5, <1>7, <1>9, <2>1
  <2>2. CASE id # cur
    BY <1>1, <1>7, <2>2 DEF live2
  <2> QED
    BY <2>1, <2>2
<1>12. \A id \in live2 : \A x : x \in EdgeKeys(in2[id]) <=> x \in NodeIds /\ <<x, id>> \in pairs
  <2> SUFFICES ASSUME NEW id \in live2 PROVE \A x : x \in EdgeKeys(in2[id]) <=> x \in NodeIds /\ <<x, id>> \in pairs
    OBVIOUS
  <2>1. CASE id = cur
    BY <1>5, <1>7, <1>9, <2>1
  <2>2. CASE id # cur
    BY <1>1, <1>7, <2>2 DEF live2
  <2> QED
    BY <2>1, <2>2
<1>13. \A id \in live2 : InReach(out2[id]) /\ InReach(in2[id])
  BY <1>1, <1>5, <1>7 DEF live2
<1>14. pairs \in SUBSET (live2 \X live2)
  BY <1>1 DEF live2
<1>15. bg' = [home |-> home, cur_id |-> cur2, nodes |-> nodes2, out |-> out2, in |-> in2, live |-> live2,
              pairs |-> pairs, skewed |-> skewed] /\ home = bg.home
  BY <1>10 DEF new, home
<1> QED
  BY <1>1, <1>6, <1>7, <1>8, <1>11, <1>12, <1>13, <1>14, <1>15, BoundedGraphBecomes

(* What a call leaves that changes edges only.                             *)
LEMMA EdgesBecome ==
  ASSUME BoundedGraphInv, ~bg.skewed, NEW out2 \in [NodeIds -> IdTables], NEW in2 \in [NodeIds -> IdTables],
         NEW pairs2 \in SUBSET (bg.live \X bg.live), NEW skewed2,
         \A id \in bg.live : \A x : x \in EdgeKeys(out2[id]) <=> x \in NodeIds /\ <<id, x>> \in pairs2,
         \A id \in bg.live : \A x : x \in EdgeKeys(in2[id]) <=> x \in NodeIds /\ <<x, id>> \in pairs2,
         ~skewed2 => \A id \in bg.live : InReach(out2[id]) /\ InReach(in2[id]),
         \/ bg' = [bg EXCEPT !.out = out2, !.in = in2, !.pairs = pairs2, !.skewed = skewed2]
         \/ ~skewed2 /\ bg' = [bg EXCEPT !.out = out2, !.in = in2, !.pairs = pairs2]
  PROVE  BoundedGraphInv'
<1> DEFINE home == bg.home
           cur == bg.cur_id
           nodes == bg.nodes
           out == bg.out
           in == bg.in
           live == bg.live
           pairs == bg.pairs
           skewed == bg.skewed
           was == bg
           new == bg'
           skewed3 == new.skewed
<1>1. /\ HomesKnown /\ cur \in Nat /\ nodes \in IdTables /\ live \in SUBSET NodeIds
      /\ \A id \in live : id < cur
      /\ EdgeKeys(nodes) = live /\ InReach(nodes)
  BY BoundedGraphBefore
<1>2. was = [home |-> home, cur_id |-> cur, nodes |-> nodes, out |-> out, in |-> in, live |-> live,
             pairs |-> pairs, skewed |-> skewed]
  BY DEF BoundedGraphInv, GraphTyped
<1>3. \/ new = [was EXCEPT !.out = out2, !.in = in2, !.pairs = pairs2, !.skewed = skewed2]
      \/ ~skewed2 /\ new = [was EXCEPT !.out = out2, !.in = in2, !.pairs = pairs2]
  OBVIOUS
<1>4. ~skewed /\ home = bg.home /\ live = bg.live /\ new = bg'
  OBVIOUS
<1> HIDE DEF home, cur, nodes, out, in, live, pairs, skewed, was, new
<1>5. \/ new = [home |-> home, cur_id |-> cur, nodes |-> nodes, out |-> out2, in |-> in2, live |-> live,
                pairs |-> pairs2, skewed |-> skewed2]
      \/ ~skewed2 /\ new = [home |-> home, cur_id |-> cur, nodes |-> nodes, out |-> out2, in |-> in2, live |-> live,
                            pairs |-> pairs2, skewed |-> skewed]
  BY <1>2, <1>3, BoundedGraphRecord
<1>6. /\ pairs2 \in SUBSET (live \X live)
      /\ \A id \in live : \A x : x \in EdgeKeys(out2[id]) <=> x \in NodeIds /\ <<id, x>> \in pairs2
      /\ \A id \in live : \A x : x \in EdgeKeys(in2[id]) <=> x \in NodeIds /\ <<x, id>> \in pairs2
      /\ ~skewed2 => InReach(nodes) /\ \A id \in live : InReach(out2[id]) /\ InReach(in2[id])
  BY <1>1, <1>4
<1>7. CASE new = [home |-> home, cur_id |-> cur, nodes |-> nodes, out |-> out2, in |-> in2, live |-> live,
                  pairs |-> pairs2, skewed |-> skewed2]
  <2>1. bg' = [home |-> home, cur_id |-> cur, nodes |-> nodes, out |-> out2, in |-> in2, live |-> live,
               pairs |-> pairs2, skewed |-> skewed2]
    BY <1>4, <1>7
  <2> QED
    BY <1>1, <1>4, <1>6, <2>1, BoundedGraphBecomes
<1>8. CASE ~skewed2 /\ new = [home |-> home, cur_id |-> cur, nodes |-> nodes, out |-> out2, in |-> in2, live |-> live,
                              pairs |-> pairs2, skewed |-> skewed]
  <2>1. bg' = [home |-> home, cur_id |-> cur, nodes |-> nodes, out |-> out2, in |-> in2, live |-> live,
               pairs |-> pairs2, skewed |-> skewed]
    BY <1>4, <1>8
  <2>2. ~skewed => InReach(nodes) /\ \A id \in live : InReach(out2[id]) /\ InReach(in2[id])
    BY <1>6, <1>8
  <2> QED
    BY <1>1, <1>4, <1>6, <2>1, <2>2, BoundedGraphBecomes
<1> QED
  BY <1>5, <1>7, <1>8

LEMMA DirectedAdded ==
  ASSUME BoundedGraphInv, ~bg.skewed, NEW from \in NodeIds, NEW to \in NodeIds, AddBoundedDirected(from, to)
  PROVE  BoundedGraphInv'
<1> DEFINE out2 == [bg.out EXCEPT ![from] = Inserted(bg.out[from], to)]
           in2 == [bg.in EXCEPT ![to] = Inserted(bg.in[to], from)]
           pairs2 == bg.pairs \cup {<<from, to>>}
           no == FALSE
<1>1. /\ HomesKnown /\ bg.out \in [NodeIds -> IdTables] /\ bg.in \in [NodeIds -> IdTables]
      /\ \A id \in NodeIds : bg.out[id] \in IdTables /\ bg.in[id] \in IdTables
      /\ bg.live \in SUBSET NodeIds /\ bg.pairs \in SUBSET (bg.live \X bg.live)
      /\ \A id \in bg.live : \A x : x \in EdgeKeys(bg.out[id]) <=> x \in NodeIds /\ <<id, x>> \in bg.pairs
      /\ \A id \in bg.live : \A x : x \in EdgeKeys(bg.in[id]) <=> x \in NodeIds /\ <<x, id>> \in bg.pairs
      /\ \A id \in bg.live : InReach(bg.out[id]) /\ InReach(bg.in[id])
      /\ \A id \in NodeIds : HasNode(id) => id \in bg.live
  BY BoundedGraphBefore
<1>2. from \in bg.live /\ to \in bg.live /\ Fits(bg.out[from], to) /\ Fits(bg.in[to], from)
  BY <1>1 DEF AddBoundedDirected
<1>3. bg' = [bg EXCEPT !.out = out2, !.in = in2, !.pairs = pairs2]
  BY DEF AddBoundedDirected
<1>4. /\ Inserted(bg.out[from], to) \in IdTables /\ InReach(Inserted(bg.out[from], to))
      /\ EdgeKeys(Inserted(bg.out[from], to)) = EdgeKeys(bg.out[from]) \cup {to}
  BY <1>1, <1>2, InsertedIs
<1>5. /\ Inserted(bg.in[to], from) \in IdTables /\ InReach(Inserted(bg.in[to], from))
      /\ EdgeKeys(Inserted(bg.in[to], from)) = EdgeKeys(bg.in[to]) \cup {from}
  BY <1>1, <1>2, InsertedIs
<1>6. /\ out2 \in [NodeIds -> IdTables] /\ in2 \in [NodeIds -> IdTables]
      /\ \A id \in NodeIds : out2[id] = IF id = from THEN Inserted(bg.out[from], to) ELSE bg.out[id]
      /\ \A id \in NodeIds : in2[id] = IF id = to THEN Inserted(bg.in[to], from) ELSE bg.in[id]
  BY <1>1, <1>4, <1>5
<1>7. pairs2 \in SUBSET (bg.live \X bg.live)
  BY <1>1, <1>2
<1>8. \A x, y : <<x, y>> \in pairs2 <=> <<x, y>> \in bg.pairs \/ (x = from /\ y = to)
  OBVIOUS
<1> HIDE DEF out2, in2, pairs2, no
<1>9. \A id \in bg.live : \A x : x \in EdgeKeys(out2[id]) <=> x \in NodeIds /\ <<id, x>> \in pairs2
  BY <1>1, <1>2, <1>4, <1>6, <1>8
<1>10. \A id \in bg.live : \A x : x \in EdgeKeys(in2[id]) <=> x \in NodeIds /\ <<x, id>> \in pairs2
  BY <1>1, <1>2, <1>5, <1>6, <1>8
<1>11. ~no => \A id \in bg.live : InReach(out2[id]) /\ InReach(in2[id])
  BY <1>1, <1>4, <1>5, <1>6
<1>12. ~no
  BY DEF no
<1> QED
  BY <1>3, <1>6, <1>7, <1>9, <1>10, <1>11, <1>12, EdgesBecome

LEMMA DirectedRemoved ==
  ASSUME BoundedGraphInv, ~bg.skewed, NEW from \in NodeIds, NEW to \in NodeIds, RemoveBoundedDirected(from, to)
  PROVE  BoundedGraphInv'
<1> DEFINE out2 == [bg.out EXCEPT ![from] = Erased(bg.out[from], to)]
           in2 == [bg.in EXCEPT ![to] = Erased(bg.in[to], from)]
           pairs2 == bg.pairs \ {<<from, to>>}
           skewed2 == Skews(bg.out[from], to) \/ Skews(bg.in[to], from)
<1>1. /\ HomesKnown /\ bg.out \in [NodeIds -> IdTables] /\ bg.in \in [NodeIds -> IdTables]
      /\ \A id \in NodeIds : bg.out[id] \in IdTables /\ bg.in[id] \in IdTables
      /\ bg.live \in SUBSET NodeIds /\ bg.pairs \in SUBSET (bg.live \X bg.live)
      /\ \A id \in bg.live : \A x : x \in EdgeKeys(bg.out[id]) <=> x \in NodeIds /\ <<id, x>> \in bg.pairs
      /\ \A id \in bg.live : \A x : x \in EdgeKeys(bg.in[id]) <=> x \in NodeIds /\ <<x, id>> \in bg.pairs
      /\ \A id \in bg.live : InReach(bg.out[id]) /\ InReach(bg.in[id])
      /\ \A id \in NodeIds : HasNode(id) => id \in bg.live
  BY BoundedGraphBefore
<1>2. from \in bg.live /\ to \in bg.live
  BY <1>1 DEF RemoveBoundedDirected
<1>3. bg' = [bg EXCEPT !.out = out2, !.in = in2, !.pairs = pairs2, !.skewed = skewed2]
  BY DEF RemoveBoundedDirected
<1>4. /\ Erased(bg.out[from], to) \in IdTables /\ (~skewed2 => InReach(Erased(bg.out[from], to)))
      /\ EdgeKeys(Erased(bg.out[from], to)) = EdgeKeys(bg.out[from]) \ {to}
  BY <1>1, <1>2, ErasedIs
<1>5. /\ Erased(bg.in[to], from) \in IdTables /\ (~skewed2 => InReach(Erased(bg.in[to], from)))
      /\ EdgeKeys(Erased(bg.in[to], from)) = EdgeKeys(bg.in[to]) \ {from}
  BY <1>1, <1>2, ErasedIs
<1>6. /\ out2 \in [NodeIds -> IdTables] /\ in2 \in [NodeIds -> IdTables]
      /\ \A id \in NodeIds : out2[id] = IF id = from THEN Erased(bg.out[from], to) ELSE bg.out[id]
      /\ \A id \in NodeIds : in2[id] = IF id = to THEN Erased(bg.in[to], from) ELSE bg.in[id]
  BY <1>1, <1>4, <1>5
<1>7. pairs2 \in SUBSET (bg.live \X bg.live)
  BY <1>1
<1>8. \A x, y : <<x, y>> \in pairs2 <=> <<x, y>> \in bg.pairs /\ ~(x = from /\ y = to)
  OBVIOUS
<1> HIDE DEF out2, in2, pairs2, skewed2
<1>9. \A id \in bg.live : \A x : x \in EdgeKeys(out2[id]) <=> x \in NodeIds /\ <<id, x>> \in pairs2
  BY <1>1, <1>2, <1>4, <1>6, <1>8
<1>10. \A id \in bg.live : \A x : x \in EdgeKeys(in2[id]) <=> x \in NodeIds /\ <<x, id>> \in pairs2
  BY <1>1, <1>2, <1>5, <1>6, <1>8
<1>11. ~skewed2 => \A id \in bg.live : InReach(out2[id]) /\ InReach(in2[id])
  BY <1>1, <1>4, <1>5, <1>6
<1> QED
  BY <1>3, <1>6, <1>7, <1>9, <1>10, <1>11, EdgesBecome

LEMMA UndirectedAdded ==
  ASSUME BoundedGraphInv, ~bg.skewed, NEW a \in NodeIds, NEW b \in NodeIds, AddBoundedUndirected(a, b)
  PROVE  BoundedGraphInv'
<1> DEFINE out2 == InsertedBoth(bg.out, a, b)
           in2 == InsertedBoth(bg.in, a, b)
           pairs2 == bg.pairs \cup {<<a, b>>, <<b, a>>}
           no == FALSE
<1>1. /\ HomesKnown /\ bg.out \in [NodeIds -> IdTables] /\ bg.in \in [NodeIds -> IdTables]
      /\ \A id \in NodeIds : bg.out[id] \in IdTables /\ bg.in[id] \in IdTables
      /\ bg.live \in SUBSET NodeIds /\ bg.pairs \in SUBSET (bg.live \X bg.live)
      /\ \A id \in bg.live : \A x : x \in EdgeKeys(bg.out[id]) <=> x \in NodeIds /\ <<id, x>> \in bg.pairs
      /\ \A id \in bg.live : \A x : x \in EdgeKeys(bg.in[id]) <=> x \in NodeIds /\ <<x, id>> \in bg.pairs
      /\ \A id \in bg.live : InReach(bg.out[id]) /\ InReach(bg.in[id])
      /\ \A id \in NodeIds : HasNode(id) => id \in bg.live
  BY BoundedGraphBefore
<1>2. a \in bg.live /\ b \in bg.live
      /\ Fits(bg.out[a], b) /\ Fits(bg.in[a], b) /\ Fits(bg.out[b], a) /\ Fits(bg.in[b], a)
  BY <1>1 DEF AddBoundedUndirected
<1>3. bg' = [bg EXCEPT !.out = out2, !.in = in2, !.pairs = pairs2]
  BY DEF AddBoundedUndirected
<1>4. /\ Inserted(bg.out[a], b) \in IdTables /\ InReach(Inserted(bg.out[a], b))
      /\ EdgeKeys(Inserted(bg.out[a], b)) = EdgeKeys(bg.out[a]) \cup {b}
      /\ Inserted(bg.out[b], a) \in IdTables /\ InReach(Inserted(bg.out[b], a))
      /\ EdgeKeys(Inserted(bg.out[b], a)) = EdgeKeys(bg.out[b]) \cup {a}
  BY <1>1, <1>2, InsertedIs
<1>5. /\ Inserted(bg.in[a], b) \in IdTables /\ InReach(Inserted(bg.in[a], b))
      /\ EdgeKeys(Inserted(bg.in[a], b)) = EdgeKeys(bg.in[a]) \cup {b}
      /\ Inserted(bg.in[b], a) \in IdTables /\ InReach(Inserted(bg.in[b], a))
      /\ EdgeKeys(Inserted(bg.in[b], a)) = EdgeKeys(bg.in[b]) \cup {a}
  BY <1>1, <1>2, InsertedIs
<1>6. /\ out2 \in [NodeIds -> IdTables] /\ in2 \in [NodeIds -> IdTables]
      /\ \A id \in NodeIds : out2[id] = IF id = a THEN Inserted(bg.out[a], b)
                                        ELSE IF id = b THEN Inserted(bg.out[b], a) ELSE bg.out[id]
      /\ \A id \in NodeIds : in2[id] = IF id = a THEN Inserted(bg.in[a], b)
                                       ELSE IF id = b THEN Inserted(bg.in[b], a) ELSE bg.in[id]
  BY <1>1, <1>4, <1>5 DEF InsertedBoth
<1>7. pairs2 \in SUBSET (bg.live \X bg.live)
  BY <1>1, <1>2
<1>8. \A x, y : <<x, y>> \in pairs2 <=> <<x, y>> \in bg.pairs \/ (x = a /\ y = b) \/ (x = b /\ y = a)
  OBVIOUS
<1> HIDE DEF out2, in2, pairs2, no
<1>9. \A id \in bg.live : \A x : x \in EdgeKeys(out2[id]) <=> x \in NodeIds /\ <<id, x>> \in pairs2
  <2> SUFFICES ASSUME NEW id \in bg.live PROVE \A x : x \in EdgeKeys(out2[id]) <=> x \in NodeIds /\ <<id, x>> \in pairs2
    OBVIOUS
  <2>1. id \in NodeIds /\ \A x : x \in EdgeKeys(bg.out[id]) <=> x \in NodeIds /\ <<id, x>> \in bg.pairs
    BY <1>1
  <2>2. CASE id = a
    BY <1>2, <1>4, <1>6, <1>8, <2>1, <2>2
  <2>3. CASE id # a /\ id = b
    BY <1>2, <1>4, <1>6, <1>8, <2>1, <2>3
  <2>4. CASE id # a /\ id # b
    BY <1>6, <1>8, <2>1, <2>4
  <2> QED
    BY <2>2, <2>3, <2>4
<1>10. \A id \in bg.live : \A x : x \in EdgeKeys(in2[id]) <=> x \in NodeIds /\ <<x, id>> \in pairs2
  <2> SUFFICES ASSUME NEW id \in bg.live PROVE \A x : x \in EdgeKeys(in2[id]) <=> x \in NodeIds /\ <<x, id>> \in pairs2
    OBVIOUS
  <2>1. id \in NodeIds /\ \A x : x \in EdgeKeys(bg.in[id]) <=> x \in NodeIds /\ <<x, id>> \in bg.pairs
    BY <1>1
  <2>2. CASE id = a
    BY <1>2, <1>5, <1>6, <1>8, <2>1, <2>2
  <2>3. CASE id # a /\ id = b
    BY <1>2, <1>5, <1>6, <1>8, <2>1, <2>3
  <2>4. CASE id # a /\ id # b
    BY <1>6, <1>8, <2>1, <2>4
  <2> QED
    BY <2>2, <2>3, <2>4
<1>11. ~no => \A id \in bg.live : InReach(out2[id]) /\ InReach(in2[id])
  BY <1>1, <1>4, <1>5, <1>6
<1>12. ~no
  BY DEF no
<1> QED
  BY <1>3, <1>6, <1>7, <1>9, <1>10, <1>11, <1>12, EdgesBecome

LEMMA EdgesRemoved ==
  ASSUME BoundedGraphInv, ~bg.skewed, NEW a \in NodeIds, NEW b \in NodeIds, RemoveBoundedEdges(a, b)
  PROVE  BoundedGraphInv'
<1> DEFINE out2 == ErasedBoth(bg.out, a, b)
           in2 == ErasedBoth(bg.in, a, b)
           pairs2 == bg.pairs \ {<<a, b>>, <<b, a>>}
           skewed2 == \/ Skews(bg.out[a], b) \/ Skews(bg.in[a], b)
                      \/ Skews(bg.out[b], a) \/ Skews(bg.in[b], a)
<1>1. /\ HomesKnown /\ bg.out \in [NodeIds -> IdTables] /\ bg.in \in [NodeIds -> IdTables]
      /\ \A id \in NodeIds : bg.out[id] \in IdTables /\ bg.in[id] \in IdTables
      /\ bg.live \in SUBSET NodeIds /\ bg.pairs \in SUBSET (bg.live \X bg.live)
      /\ \A id \in bg.live : \A x : x \in EdgeKeys(bg.out[id]) <=> x \in NodeIds /\ <<id, x>> \in bg.pairs
      /\ \A id \in bg.live : \A x : x \in EdgeKeys(bg.in[id]) <=> x \in NodeIds /\ <<x, id>> \in bg.pairs
      /\ \A id \in bg.live : InReach(bg.out[id]) /\ InReach(bg.in[id])
      /\ \A id \in NodeIds : HasNode(id) => id \in bg.live
  BY BoundedGraphBefore
<1>2. a \in bg.live /\ b \in bg.live
  BY <1>1 DEF RemoveBoundedEdges
<1>3. bg' = [bg EXCEPT !.out = out2, !.in = in2, !.pairs = pairs2, !.skewed = skewed2]
  BY DEF RemoveBoundedEdges
<1>4. /\ Erased(bg.out[a], b) \in IdTables /\ (~skewed2 => InReach(Erased(bg.out[a], b)))
      /\ EdgeKeys(Erased(bg.out[a], b)) = EdgeKeys(bg.out[a]) \ {b}
      /\ Erased(bg.out[b], a) \in IdTables /\ (~skewed2 => InReach(Erased(bg.out[b], a)))
      /\ EdgeKeys(Erased(bg.out[b], a)) = EdgeKeys(bg.out[b]) \ {a}
  BY <1>1, <1>2, ErasedIs
<1>5. /\ Erased(bg.in[a], b) \in IdTables /\ (~skewed2 => InReach(Erased(bg.in[a], b)))
      /\ EdgeKeys(Erased(bg.in[a], b)) = EdgeKeys(bg.in[a]) \ {b}
      /\ Erased(bg.in[b], a) \in IdTables /\ (~skewed2 => InReach(Erased(bg.in[b], a)))
      /\ EdgeKeys(Erased(bg.in[b], a)) = EdgeKeys(bg.in[b]) \ {a}
  BY <1>1, <1>2, ErasedIs
<1>6. /\ out2 \in [NodeIds -> IdTables] /\ in2 \in [NodeIds -> IdTables]
      /\ \A id \in NodeIds : out2[id] = IF id = a THEN Erased(bg.out[a], b)
                                        ELSE IF id = b THEN Erased(bg.out[b], a) ELSE bg.out[id]
      /\ \A id \in NodeIds : in2[id] = IF id = a THEN Erased(bg.in[a], b)
                                       ELSE IF id = b THEN Erased(bg.in[b], a) ELSE bg.in[id]
  BY <1>1, <1>4, <1>5 DEF ErasedBoth
<1>7. pairs2 \in SUBSET (bg.live \X bg.live)
  BY <1>1
<1>8. \A x, y : <<x, y>> \in pairs2 <=> <<x, y>> \in bg.pairs /\ ~(x = a /\ y = b) /\ ~(x = b /\ y = a)
  OBVIOUS
<1> HIDE DEF out2, in2, pairs2, skewed2
<1>9. \A id \in bg.live : \A x : x \in EdgeKeys(out2[id]) <=> x \in NodeIds /\ <<id, x>> \in pairs2
  <2> SUFFICES ASSUME NEW id \in bg.live PROVE \A x : x \in EdgeKeys(out2[id]) <=> x \in NodeIds /\ <<id, x>> \in pairs2
    OBVIOUS
  <2>1. id \in NodeIds /\ \A x : x \in EdgeKeys(bg.out[id]) <=> x \in NodeIds /\ <<id, x>> \in bg.pairs
    BY <1>1
  <2>2. CASE id = a
    BY <1>2, <1>4, <1>6, <1>8, <2>1, <2>2
  <2>3. CASE id # a /\ id = b
    BY <1>2, <1>4, <1>6, <1>8, <2>1, <2>3
  <2>4. CASE id # a /\ id # b
    BY <1>6, <1>8, <2>1, <2>4
  <2> QED
    BY <2>2, <2>3, <2>4
<1>10. \A id \in bg.live : \A x : x \in EdgeKeys(in2[id]) <=> x \in NodeIds /\ <<x, id>> \in pairs2
  <2> SUFFICES ASSUME NEW id \in bg.live PROVE \A x : x \in EdgeKeys(in2[id]) <=> x \in NodeIds /\ <<x, id>> \in pairs2
    OBVIOUS
  <2>1. id \in NodeIds /\ \A x : x \in EdgeKeys(bg.in[id]) <=> x \in NodeIds /\ <<x, id>> \in bg.pairs
    BY <1>1
  <2>2. CASE id = a
    BY <1>2, <1>5, <1>6, <1>8, <2>1, <2>2
  <2>3. CASE id # a /\ id = b
    BY <1>2, <1>5, <1>6, <1>8, <2>1, <2>3
  <2>4. CASE id # a /\ id # b
    BY <1>6, <1>8, <2>1, <2>4
  <2> QED
    BY <2>2, <2>3, <2>4
<1>11. ~skewed2 => \A id \in bg.live : InReach(out2[id]) /\ InReach(in2[id])
  BY <1>1, <1>4, <1>5, <1>6
<1> QED
  BY <1>3, <1>6, <1>7, <1>9, <1>10, <1>11, EdgesBecome

LEMMA NodeRemoved ==
  ASSUME BoundedGraphInv, ~bg.skewed, NEW id \in NodeIds, RemoveBoundedNode(id)
  PROVE  BoundedGraphInv'
<1> DEFINE home == bg.home
           cur == bg.cur_id
           nodes == bg.nodes
           out == bg.out
           in == bg.in
           live == bg.live
           pairs == bg.pairs
           skewed == bg.skewed
           out1 == [n \in NodeIds |-> IF n \in EdgeKeys(in[id]) THEN Erased(out[n], id) ELSE out[n]]
           in1 == [n \in NodeIds |-> IF n \in EdgeKeys(out1[id]) THEN Erased(in[n], id) ELSE in[n]]
           nodes2 == Erased(nodes, id)
           live2 == live \ {id}
           pairs2 == {p \in pairs : id \notin {p[1], p[2]}}
           skewed2 == \/ \E n \in EdgeKeys(in[id]) : Skews(out[n], id)
                      \/ \E n \in EdgeKeys(out1[id]) : Skews(in[n], id)
                      \/ Skews(nodes, id)
           was == bg
           new == bg'
<1>1. /\ HomesKnown /\ cur \in Nat /\ nodes \in IdTables
      /\ out \in [NodeIds -> IdTables] /\ in \in [NodeIds -> IdTables]
      /\ \A n \in NodeIds : out[n] \in IdTables /\ in[n] \in IdTables
      /\ live \in SUBSET NodeIds /\ pairs \in SUBSET (live \X live)
      /\ \A n \in live : n < cur
      /\ EdgeKeys(nodes) = live /\ InReach(nodes)
      /\ \A n \in live : \A x : x \in EdgeKeys(out[n]) <=> x \in NodeIds /\ <<n, x>> \in pairs
      /\ \A n \in live : \A x : x \in EdgeKeys(in[n]) <=> x \in NodeIds /\ <<x, n>> \in pairs
      /\ \A n \in live : InReach(out[n]) /\ InReach(in[n])
      /\ \A n \in NodeIds : HasNode(n) => n \in live
  BY BoundedGraphBefore
<1>2. was = [home |-> home, cur_id |-> cur, nodes |-> nodes, out |-> out, in |-> in, live |-> live,
             pairs |-> pairs, skewed |-> skewed]
  BY DEF BoundedGraphInv, GraphTyped
<1>3. HasNode(id) /\ new = [was EXCEPT !.out = out1, !.in = in1, !.nodes = nodes2, !.live = live2, !.pairs = pairs2,
                                       !.skewed = skewed2]
  BY DEF RemoveBoundedNode
<1>4. id \in live
  BY <1>1, <1>3
<1>5. home = bg.home /\ new = bg'
  OBVIOUS
<1>6. \A n \in NodeIds : /\ Erased(out[n], id) \in IdTables /\ Erased(in[n], id) \in IdTables
  BY <1>1, ErasedIs
<1>7. /\ out1 \in [NodeIds -> IdTables]
      /\ \A n \in NodeIds : out1[n] = IF n \in EdgeKeys(in[id]) THEN Erased(out[n], id) ELSE out[n]
  BY <1>1, <1>6
<1>8. /\ in1 \in [NodeIds -> IdTables]
      /\ \A n \in NodeIds : in1[n] = IF n \in EdgeKeys(out1[id]) THEN Erased(in[n], id) ELSE in[n]
  <2> HIDE DEF out1
  <2> QED
    BY <1>1, <1>6
<1>9. nodes2 \in IdTables /\ EdgeKeys(nodes2) = live2 /\ (~Skews(nodes, id) => InReach(nodes2))
  <2> HIDE DEF nodes, live
  <2> QED
    BY <1>1, ErasedIs DEF live2
<1>10. live2 \in SUBSET NodeIds /\ \A n \in live2 : n < cur /\ n \in live /\ n # id /\ n \in NodeIds
  BY <1>1
<1>11. \A x, y : <<x, y>> \in pairs2 <=> <<x, y>> \in pairs /\ x # id /\ y # id
  OBVIOUS
<1>12. pairs2 \in SUBSET (live2 \X live2)
  BY <1>1
<1>13. ~skewed2 => /\ \A n \in EdgeKeys(in[id]) : ~Skews(out[n], id)
                   /\ \A n \in EdgeKeys(out1[id]) : ~Skews(in[n], id)
                   /\ ~Skews(nodes, id)
  OBVIOUS
<1> HIDE DEF home, cur, nodes, out, in, live, pairs, skewed, out1, in1, nodes2, live2, pairs2, skewed2, was, new
<1>14. \A n \in live : /\ EdgeKeys(Erased(out[n], id)) = EdgeKeys(out[n]) \ {id}
                       /\ EdgeKeys(Erased(in[n], id)) = EdgeKeys(in[n]) \ {id}
                       /\ ~Skews(out[n], id) => InReach(Erased(out[n], id))
                       /\ ~Skews(in[n], id) => InReach(Erased(in[n], id))
  BY <1>1, ErasedIs
<1>15. \A x : x \in EdgeKeys(in[id]) <=> x \in NodeIds /\ <<x, id>> \in pairs
  BY <1>1, <1>4
<1>16. ASSUME NEW n \in live2 PROVE \A x : x \in EdgeKeys(out1[n]) <=> x \in NodeIds /\ <<n, x>> \in pairs2
  <2>1. n \in live /\ n # id /\ n \in NodeIds /\ \A x : x \in EdgeKeys(out[n]) <=> x \in NodeIds /\ <<n, x>> \in pairs
    BY <1>1, <1>10
  <2>2. CASE n \in EdgeKeys(in[id])
    <3>1. EdgeKeys(out1[n]) = EdgeKeys(out[n]) \ {id}
      BY <1>7, <1>14, <2>1, <2>2
    <3> QED
      BY <1>11, <2>1, <3>1
  <2>3. CASE n \notin EdgeKeys(in[id])
    <3>1. out1[n] = out[n] /\ <<n, id>> \notin pairs
      BY <1>7, <1>15, <2>1, <2>3
    <3> QED
      BY <1>11, <2>1, <3>1
  <2> QED
    BY <2>2, <2>3
<1>17. \A x : x # id => (x \in EdgeKeys(out1[id]) <=> x \in NodeIds /\ <<id, x>> \in pairs)
  <2>1. EdgeKeys(out1[id]) \in {EdgeKeys(out[id]), EdgeKeys(out[id]) \ {id}}
    BY <1>4, <1>7, <1>14
  <2> QED
    BY <1>1, <1>4, <2>1
<1>18. ASSUME NEW n \in live2 PROVE \A x : x \in EdgeKeys(in1[n]) <=> x \in NodeIds /\ <<x, n>> \in pairs2
  <2>1. n \in live /\ n # id /\ n \in NodeIds /\ \A x : x \in EdgeKeys(in[n]) <=> x \in NodeIds /\ <<x, n>> \in pairs
    BY <1>1, <1>10
  <2>2. CASE n \in EdgeKeys(out1[id])
    <3>1. EdgeKeys(in1[n]) = EdgeKeys(in[n]) \ {id}
      BY <1>8, <1>14, <2>1, <2>2
    <3> QED
      BY <1>11, <2>1, <3>1
  <2>3. CASE n \notin EdgeKeys(out1[id])
    <3>1. in1[n] = in[n] /\ <<id, n>> \notin pairs
      BY <1>8, <1>17, <2>1, <2>3
    <3> QED
      BY <1>11, <2>1, <3>1
  <2> QED
    BY <2>2, <2>3
<1>19. ~skewed2 => InReach(nodes2) /\ \A n \in live2 : InReach(out1[n]) /\ InReach(in1[n])
  <2> SUFFICES ASSUME ~skewed2, NEW n \in live2 PROVE InReach(nodes2) /\ InReach(out1[n]) /\ InReach(in1[n])
    BY <1>9, <1>13
  <2>1. n \in live /\ n \in NodeIds
    BY <1>10
  <2>2. InReach(out1[n])
    BY <1>1, <1>7, <1>13, <1>14, <2>1
  <2>3. InReach(in1[n])
    BY <1>1, <1>8, <1>13, <1>14, <2>1
  <2> QED
    BY <1>9, <1>13, <2>2, <2>3
<1>20. new = [home |-> home, cur_id |-> cur, nodes |-> nodes2, out |-> out1, in |-> in1, live |-> live2,
              pairs |-> pairs2, skewed |-> skewed2]
  BY <1>2, <1>3, BoundedGraphRecord
<1>21. bg' = [home |-> home, cur_id |-> cur, nodes |-> nodes2, out |-> out1, in |-> in1, live |-> live2,
              pairs |-> pairs2, skewed |-> skewed2]
  BY <1>5, <1>20
<1> QED
  BY <1>1, <1>5, <1>7, <1>8, <1>9, <1>10, <1>12, <1>16, <1>18, <1>19, <1>21, BoundedGraphBecomes

LEMMA BoundedGraphStep ==
  ASSUME BoundedGraphInv, BoundedGraphNext
  PROVE  BoundedGraphInv'
  BY NodeAdded, NodeRemoved, DirectedAdded, UndirectedAdded, DirectedRemoved, EdgesRemoved DEF BoundedGraphNext
===============================================================================
