------------------------------ MODULE OrderedMap --------------------------------
(***************************************************************************)
(* ordered_map: pairs of a key and a value in a vector, in the order they  *)
(* were put, looked for one after the other. Keys are numbers, and those   *)
(* that the comparison does not tell apart are of one class. The           *)
(* constructors from ranges and lists and the reverse iterators do not     *)
(* compile.                                                                *)
(***************************************************************************)
EXTENDS Integers, Sequences, FiniteSetsExt

CONSTANTS OrderedKeys, KeysPerClass, OrderedValues,
          OrderedCalls \* how many calls a program makes

ASSUME OrderedMapAssumption ==
  /\ OrderedKeys \subseteq Nat /\ KeysPerClass \in Nat \ {0} /\ 0 \in OrderedValues

VARIABLES ordered,  \* m_values
          putCalls   \* the calls since the map was last empty: <<key, value, whether it replaces one>>

orderedVars == <<ordered, putCalls>>

OrderedInit == ordered = <<>> /\ putCalls = <<>>

Less(k, l) == k \div KeysPerClass < l \div KeysPerClass
SameKey(k, l) == ~Less(k, l) /\ ~Less(l, k)

(* find: the position, or the one after the last.                          *)
FindKey(k) == Min({n \in DOMAIN ordered : SameKey(ordered[n][1], k)} \cup {Len(ordered) + 1})

Asks(k, v, replaces) == Len(putCalls) < OrderedCalls /\ putCalls' = Append(putCalls, <<k, v, replaces>>)

InsertPair(k, v) ==
  /\ Asks(k, v, FALSE)
  /\ ordered' = IF FindKey(k) \in DOMAIN ordered THEN ordered ELSE Append(ordered, <<k, v>>)

(* operator[], whose element keeps the value it gets when it is inserted,  *)
(* or is assigned one.                                                     *)
AtKey(k, v) ==
  LET pos == FindKey(k)
      kept == IF pos \in DOMAIN ordered THEN ordered ELSE Append(ordered, <<k, 0>>) IN
  \/ Asks(k, 0, FALSE) /\ ordered' = kept
  \/ Asks(k, v, TRUE) /\ ordered' = [kept EXCEPT ![pos][2] = v]

(* at, which throws if there is none, and assignment to its element.       *)
AtKeyChecked(k, v) ==
  /\ FindKey(k) \in DOMAIN ordered
  /\ Asks(k, v, TRUE)
  /\ ordered' = [ordered EXCEPT ![FindKey(k)][2] = v]

ClearOrdered == ordered' = <<>> /\ putCalls' = <<>>

OrderedNext ==
  \/ ClearOrdered
  \/ \E k \in OrderedKeys, v \in OrderedValues : InsertPair(k, v) \/ AtKey(k, v) \/ AtKeyChecked(k, v)

-------------------------------------------------------------------------------
(* The map holds one pair for every class of keys it was given, under the  *)
(* key that came first and in the order in which they came first, with the *)
(* last value that was assigned, or else the first that was inserted.      *)
OrderedHolds ==
  LET calls == DOMAIN putCalls
      Of(n) == {m \in calls : SameKey(putCalls[m][1], putCalls[n][1])}
      firsts == {n \in calls : n = Min(Of(n))}
      Assigned(n) == {m \in Of(n) : putCalls[m][3]}
      Value(n) == putCalls[IF Assigned(n) = {} THEN n ELSE Max(Assigned(n))][2]
  IN /\ Len(ordered) = Cardinality(firsts)
     /\ \A n \in firsts : ordered[Cardinality({m \in firsts : m <= n})] = <<putCalls[n][1], Value(n)>>
================================================================================
