------------------------- MODULE GraphAlgorithmsProofs -------------------------
(***************************************************************************)
(* Proofs about Graph and GraphAlgorithms, for any number of nodes and     *)
(* edges.                                                                  *)
(*                                                                         *)
(* Graph implements DirectedGraph. What carries that is EdgesMirror:       *)
(* remove_node finds the edges to a node through its incoming set and      *)
(* those from it through its outgoing set, so that it removes them all     *)
(* exactly because each set mirrors the other.                             *)
(*                                                                         *)
(* WalkInv is what every algorithm may rely on: the graph is consistent,   *)
(* and all nodes are there. On it rests one invariant per algorithm:       *)
(*   TopologicalInv  the nodes ready or taken are those whose parents are  *)
(*                   all taken;                                            *)
(*   VisitInv        what a node taken leads to is taken or waits in path; *)
(*   CountInv        a node waits or is taken once per edge followed to it;*)
(*   DepthInv        the children of a call wait above all earlier ones;   *)
(*   BreadthInv      path holds one level and the beginning of the next;   *)
(*   MstInv          the edges followed make up a tree.                    *)
(* That a walk comes to every node is then said with Reach, the least set  *)
(* that holds the first node and is closed under the edges.                *)
(***************************************************************************)
EXTENDS GraphAlgorithms, FiniteSetTheorems, TLAPS

-------------------------------------------------------------------------------
(* The graph.                                                              *)

IInv == TypeOK /\ EdgesMirror /\ NoDanglingEdge

LEMMA InitInv == Init => IInv
  BY Assumption DEF Init, IInv, TypeOK, EdgesMirror, NoDanglingEdge, Ids

(* What remove_node leaves: exactly the edges that do not touch id.        *)
LEMMA RemovedNode ==
  ASSUME IInv, NEW id \in Ids, RemoveNode(id)
  PROVE  /\ id \in nodes /\ nodes' = nodes \ {id} /\ cur_id' = cur_id
         /\ outgoing' = [n \in Ids |-> IF n = id THEN {} ELSE outgoing[n] \ {id}]
         /\ incoming' = [n \in Ids |-> IF n = id THEN {} ELSE incoming[n] \ {id}]
<1> DEFINE out1 == [n \in Ids |-> IF n \in incoming[id] THEN outgoing[n] \ {id} ELSE outgoing[n]]
           in1 == [n \in Ids |-> IF n \in out1[id] THEN incoming[n] \ {id} ELSE incoming[n]]
<1>0. outgoing' = [out1 EXCEPT ![id] = {}] /\ incoming' = [in1 EXCEPT ![id] = {}]
  BY DEF RemoveNode
<1>1. \A n \in Ids : n \notin incoming[id] => id \notin outgoing[n]
  BY DEF IInv, EdgesMirror
<1>2. \A n \in Ids : out1[n] = outgoing[n] \ {id}
  BY <1>1
<1>3. \A n \in Ids : n # id /\ n \notin out1[id] => id \notin incoming[n]
  BY <1>2 DEF IInv, EdgesMirror
<1>4. \A n \in Ids : n # id => in1[n] = incoming[n] \ {id}
  BY <1>3
<1>5. outgoing' = [n \in Ids |-> IF n = id THEN {} ELSE outgoing[n] \ {id}]
  BY <1>0, <1>2
<1>6. incoming' = [n \in Ids |-> IF n = id THEN {} ELSE incoming[n] \ {id}]
  BY <1>0, <1>4
<1> QED
  BY <1>5, <1>6 DEF RemoveNode

LEMMA RemoveNodeStep ==
  ASSUME IInv, NEW id \in Ids, RemoveNode(id)
  PROVE  IInv'
<1>1. /\ nodes' = nodes \ {id} /\ cur_id' = cur_id
      /\ outgoing' = [n \in Ids |-> IF n = id THEN {} ELSE outgoing[n] \ {id}]
      /\ incoming' = [n \in Ids |-> IF n = id THEN {} ELSE incoming[n] \ {id}]
  BY RemovedNode
<1>2. TypeOK'
  BY <1>1 DEF IInv, TypeOK
<1>3. EdgesMirror'
  BY <1>1 DEF IInv, EdgesMirror
<1>4. NoDanglingEdge'
  BY <1>1 DEF IInv, NoDanglingEdge
<1> QED
  BY <1>2, <1>3, <1>4 DEF IInv

LEMMA InvStep == IInv /\ [Next]_vars => IInv'
<1> SUFFICES ASSUME IInv, [Next]_vars PROVE IInv'
  OBVIOUS
<1>1. ASSUME NEW id \in Ids, RemoveNode(id) PROVE IInv'
  BY <1>1, RemoveNodeStep
<1> USE Assumption DEF IInv, TypeOK, EdgesMirror, NoDanglingEdge, Insert, Erase
<1>2. CASE AddNode
  BY <1>2 DEF AddNode, Ids
<1>3. ASSUME NEW u \in Ids, NEW v \in Ids, AddDirectedEdge(u, v) PROVE IInv'
  BY <1>3 DEF AddDirectedEdge
<1>4. ASSUME NEW u \in Ids, NEW v \in Ids, AddUndirectedEdge(u, v) PROVE IInv'
  BY <1>4 DEF AddUndirectedEdge
<1>5. ASSUME NEW u \in Ids, NEW v \in Ids, RemoveDirectedEdge(u, v) PROVE IInv'
  BY <1>5 DEF RemoveDirectedEdge
<1>6. ASSUME NEW u \in Ids, NEW v \in Ids, RemoveEdges(u, v) PROVE IInv'
  BY <1>6 DEF RemoveEdges
<1>7. CASE UNCHANGED vars
  BY <1>7 DEF vars
<1> QED
  BY <1>1, <1>2, <1>3, <1>4, <1>5, <1>6, <1>7 DEF Next

(* The inductive invariant holds in every reachable state.                 *)
THEOREM Invariance == Spec => []IInv
  BY InitInv, InvStep, PTL DEF Spec

(* Every variable has its type; only ids given out are in use.             *)
THEOREM TypeCorrect == Spec => []TypeOK
  BY Invariance, PTL DEF IInv

(* The two sides of every edge agree after any sequence of operations.     *)
THEOREM EdgesAgree == Spec => []EdgesMirror
  BY Invariance, PTL DEF IInv

(* No edge leads to, or is left at, a node that was removed.               *)
THEOREM EdgesStand == Spec => []NoDanglingEdge
  BY Invariance, PTL DEF IInv

-------------------------------------------------------------------------------
(* The refinement. E is the set of edges the outgoing sets tell of.        *)

E == {e \in Ids \X Ids : e[2] \in outgoing[e[1]]}

LEMMA RefineInit == Init => DG!Init
  BY Assumption DEF Init, DG!Init, Ids

(* An edge is in E after a step just as the outgoing sets say.             *)
LEMMA RefineStep == IInv /\ IInv' /\ [Next]_vars => [DG!Next]_(DG!vars)
<1> SUFFICES ASSUME IInv, IInv', [Next]_vars PROVE DG!Next \/ UNCHANGED DG!vars
  OBVIOUS
<1>0. /\ cur_id \in 0 .. MaxNodes /\ nodes \subseteq 0 .. cur_id - 1
      /\ outgoing \in [Ids -> SUBSET Ids] /\ nodes \subseteq Ids
  BY Assumption DEF IInv, TypeOK, Ids
<1>1. CASE AddNode
  <2>1. cur_id \in Ids /\ cur_id \notin 0 .. cur_id - 1 /\ E' = E
        /\ nodes' = nodes \cup {cur_id}
        /\ 0 .. cur_id' - 1 = (0 .. cur_id - 1) \cup {cur_id}
    BY <1>0, <1>1, Assumption DEF AddNode, Ids, E
  <2>2. DG!Add(cur_id)
    BY <2>1 DEF DG!Add, E
  <2> QED
    BY <2>1, <2>2 DEF DG!Next
<1>2. ASSUME NEW id \in Ids, RemoveNode(id) PROVE DG!Next
  <2>1. E' = {e \in E : e[1] # id /\ e[2] # id}
    <3>1. \A a, b \in Ids : b \in outgoing'[a] <=> b \in outgoing[a] /\ a # id /\ b # id
      BY <1>0, <1>2, RemovedNode
    <3> QED
      BY <3>1 DEF E
  <2>2. DG!Remove(id)
    BY <1>2, <2>1, RemovedNode DEF DG!Remove, E
  <2> QED
    BY <2>2 DEF DG!Next
<1>3. ASSUME NEW u \in Ids, NEW v \in Ids, NEW new \in DG!Between(u, v),
             u \in nodes, v \in nodes, UNCHANGED <<cur_id, nodes>>, E' = E \cup new
      PROVE  DG!Next
  <2>1. DG!Connect(u, v)
    BY <1>3 DEF DG!Connect, E
  <2> QED
    BY <2>1 DEF DG!Next
<1>4. ASSUME NEW u \in Ids, NEW v \in Ids, NEW old \in DG!Between(u, v),
             u \in nodes, v \in nodes, UNCHANGED <<cur_id, nodes>>, E' = E \ old
      PROVE  DG!Next
  <2>1. DG!Disconnect(u, v)
    BY <1>4 DEF DG!Disconnect, E
  <2> QED
    BY <2>1 DEF DG!Next
<1>5. ASSUME NEW u \in Ids, NEW v \in Ids, AddDirectedEdge(u, v) PROVE DG!Next
  <2>1. E' = E \cup {<<u, v>>}
    BY <1>0, <1>5 DEF E, AddDirectedEdge, Insert
  <2> QED
    BY <1>3, <1>5, <2>1 DEF AddDirectedEdge, DG!Between
<1>6. ASSUME NEW u \in Ids, NEW v \in Ids, AddUndirectedEdge(u, v) PROVE DG!Next
  <2>1. E' = E \cup {<<u, v>>, <<v, u>>}
    <3>1. \A a, b \in Ids : b \in outgoing'[a] <=>
            b \in outgoing[a] \/ (a = u /\ b = v) \/ (a = v /\ b = u)
      BY <1>0, <1>6 DEF AddUndirectedEdge, Insert
    <3> QED
      BY <3>1 DEF E
  <2> QED
    BY <1>3, <1>6, <2>1 DEF AddUndirectedEdge, DG!Between
<1>7. ASSUME NEW u \in Ids, NEW v \in Ids, RemoveDirectedEdge(u, v) PROVE DG!Next
  <2>1. E' = E \ {<<u, v>>}
    BY <1>0, <1>7 DEF E, RemoveDirectedEdge, Erase
  <2> QED
    BY <1>4, <1>7, <2>1 DEF RemoveDirectedEdge, DG!Between
<1>8. ASSUME NEW u \in Ids, NEW v \in Ids, RemoveEdges(u, v) PROVE DG!Next
  <2>1. E' = E \ {<<u, v>>, <<v, u>>}
    <3>1. \A a, b \in Ids : b \in outgoing'[a] <=>
            b \in outgoing[a] /\ ~(a = u /\ b = v) /\ ~(a = v /\ b = u)
      BY <1>0, <1>8 DEF RemoveEdges, Erase
    <3> QED
      BY <3>1 DEF E
  <2> QED
    BY <1>4, <1>8, <2>1 DEF RemoveEdges, DG!Between
<1>9. CASE UNCHANGED vars
  BY <1>9 DEF vars, DG!vars
<1> QED
  BY <1>1, <1>2, <1>5, <1>6, <1>7, <1>8, <1>9 DEF Next

(* The graph with its two sets per node implements the plain directed      *)
(* graph: every operation is one of those, or changes nothing in it.       *)
THEOREM Refinement == Spec => ImplementsGraph
<1>1. Init => DG!Init
  BY RefineInit
<1>2. IInv /\ IInv' /\ [Next]_vars => [DG!Next]_(DG!vars)
  BY RefineStep
<1> QED
  BY <1>1, <1>2, Invariance, PTL DEF Spec, DG!Spec, ImplementsGraph

(* An id given out for a node that was removed stays without a node.       *)
THEOREM IdsStayDead == Spec => IdsNotReused
<1> DEFINE Dead == \A id \in Ids : id < cur_id /\ id \notin nodes => id \notin nodes'
<1>1. IInv /\ [Next]_vars => [Dead]_vars
  BY RemovedNode DEF IInv, TypeOK, Next, AddNode, RemoveNode, AddDirectedEdge,
     AddUndirectedEdge, RemoveDirectedEdge, RemoveEdges, Ids
<1>2. IdsNotReused <=> [][Dead]_vars
  BY PTL DEF IdsNotReused
<1> QED
  BY <1>1, <1>2, Invariance, PTL DEF Spec

-------------------------------------------------------------------------------
(* What can be reached in a graph. This is said of any edges, so that it   *)
(* holds of the graph before a step and of the one after it.               *)

(* A set of naturals that is not empty has a least member. (The intervals  *)
(* that its members end are finite sets, and inclusion is well founded on  *)
(* those.)                                                                 *)
LEMMA LeastNatural ==
  ASSUME NEW S \in SUBSET Nat, S # {}
  PROVE  \E m \in S : \A k \in S : m <= k
<1> DEFINE below(n) == 0 .. n
           W == {below(n) : n \in S}
<1>1. W \subseteq FiniteSubsetsOf(Nat)
  <2> SUFFICES ASSUME NEW n \in Nat PROVE IsFiniteSet(0 .. n) /\ 0 .. n \subseteq Nat
    BY DEF FiniteSubsetsOf
  <2> QED
    BY FS_Interval
<1>2. IsWellFoundedOn(StrictSubsetOrdering(Nat), FiniteSubsetsOf(Nat))
  BY FS_StrictSubsetOrderingWellFounded
<1>3. W # {}
  OBVIOUS
<1>4. PICK x \in W : \A y \in W : <<y, x>> \notin StrictSubsetOrdering(Nat)
  <2> HIDE DEF W
  <2> QED
    BY <1>1, <1>2, <1>3, WFMin
<1>5. PICK m \in S : x = 0 .. m
  OBVIOUS
<1>6. ASSUME NEW k \in S, k < m PROVE FALSE
  <2>1. 0 .. k \subseteq 0 .. m /\ 0 .. k # 0 .. m
    BY <1>6
  <2>2. <<0 .. k, x>> \in StrictSubsetOrdering(Nat)
    BY <1>5, <2>1 DEF StrictSubsetOrdering
  <2> QED
    BY <1>4, <2>2
<1> QED
  BY <1>6

(* Induction up to n, with the set of the numbers of which it is true.     *)
LEMMA UpTo ==
  ASSUME NEW n \in Nat, NEW S, 0 \in S, \A k \in 0 .. n - 1 : k \in S => k + 1 \in S
  PROVE  0 .. n \subseteq S
<1> SUFFICES ASSUME (0 .. n) \ S # {} PROVE FALSE
  OBVIOUS
<1>1. (0 .. n) \ S \in SUBSET Nat
  OBVIOUS
<1>2. PICK m \in (0 .. n) \ S : \A k \in (0 .. n) \ S : m <= k
  BY <1>1, LeastNatural
<1>3. m # 0 /\ m - 1 \in 0 .. n - 1 /\ m - 1 \notin (0 .. n) \ S
  BY <1>2
<1> QED
  BY <1>2, <1>3

(* Within for any edges: out[n] is the set of nodes n has edges to.        *)
Steps(out, from) ==
  LET w[k \in 0 .. MaxNodes] ==
        IF k = 0 THEN from ELSE w[k - 1] \cup UNION {out[n] : n \in w[k - 1]}
  IN w

(* The recursive definition of Steps has a solution.                       *)
LEMMA StepsEquations ==
  ASSUME NEW out \in [Ids -> SUBSET Ids], NEW from \in SUBSET Ids
  PROVE  /\ Steps(out, from) \in [0 .. MaxNodes -> SUBSET Ids]
         /\ Steps(out, from)[0] = from
         /\ \A k \in 0 .. MaxNodes - 1 :
              Steps(out, from)[k + 1] =
                Steps(out, from)[k] \cup UNION {out[n] : n \in Steps(out, from)[k]}
<1> DEFINE next(s) == s \cup UNION {out[n] : n \in s}
           upto(m) == {f \in [0 .. m -> SUBSET Ids] :
                         f[0] = from /\ \A k \in 0 .. m - 1 : f[k + 1] = next(f[k])}
           S == {m \in 0 .. MaxNodes : upto(m) # {}}
<1> USE Assumption
<1>0. \A s \in SUBSET Ids : next(s) \in SUBSET Ids
  OBVIOUS
<1>1. 0 \in S
  <2>1. [k \in 0 .. 0 |-> from] \in upto(0)
    OBVIOUS
  <2> QED
    BY <2>1
<1>2. ASSUME NEW m \in 0 .. MaxNodes - 1, m \in S PROVE m + 1 \in S
  <2>1. PICK f : f \in upto(m)
    BY <1>2
  <2> HIDE DEF next
  <2> DEFINE g == [k \in 0 .. m + 1 |-> IF k = m + 1 THEN next(f[m]) ELSE f[k]]
  <2>2. g \in [0 .. m + 1 -> SUBSET Ids]
    BY <1>0, <2>1
  <2>3. g[0] = from
    BY <2>1
  <2>4. ASSUME NEW k \in 0 .. m PROVE g[k + 1] = next(g[k])
    <3>1. CASE k = m
      BY <3>1
    <3>2. CASE k # m
      BY <2>1, <3>2
    <3> QED
      BY <3>1, <3>2
  <2>5. g \in upto(m + 1)
    BY <2>2, <2>3, <2>4
  <2> QED
    BY <2>5
<1>3. MaxNodes \in S
  <2> HIDE DEF S
  <2> QED
    BY <1>1, <1>2, UpTo
<1>4. PICK f : f \in upto(MaxNodes)
  BY <1>3
<1>5. f = [k \in 0 .. MaxNodes |-> IF k = 0 THEN from ELSE next(f[k - 1])]
  <2> HIDE DEF next
  <2>1. ASSUME NEW k \in 0 .. MaxNodes PROVE f[k] = IF k = 0 THEN from ELSE next(f[k - 1])
    <3>1. CASE k = 0
      BY <1>4, <3>1
    <3>2. CASE k # 0
      <4>1. k - 1 \in 0 .. MaxNodes - 1 /\ (k - 1) + 1 = k
        BY <3>2
      <4> QED
        BY <1>4, <3>2, <4>1
    <3> QED
      BY <3>1, <3>2
  <2> QED
    BY <1>4, <2>1
<1> DEFINE w == Steps(out, from)
<1>6. w = [k \in 0 .. MaxNodes |-> IF k = 0 THEN from ELSE next(w[k - 1])]
  BY <1>5 DEF Steps
<1> HIDE DEF w
<1>7. w[0] = from /\ \A k \in 0 .. MaxNodes - 1 : w[k + 1] = next(w[k])
  <2> HIDE DEF next
  <2>1. ASSUME NEW k \in 0 .. MaxNodes - 1 PROVE w[k + 1] = next(w[k])
    <3>1. k + 1 \in 0 .. MaxNodes /\ k + 1 # 0 /\ (k + 1) - 1 = k
      OBVIOUS
    <3> QED
      BY <1>6, <3>1
  <2> QED
    BY <1>6, <2>1
<1>8. w \in [0 .. MaxNodes -> SUBSET Ids]
  <2> DEFINE T == {k \in 0 .. MaxNodes : w[k] \in SUBSET Ids}
  <2>1. 0 \in T /\ \A k \in 0 .. MaxNodes - 1 : k \in T => k + 1 \in T
    <3> HIDE DEF next
    <3> QED
      BY <1>0, <1>7
  <2>2. 0 .. MaxNodes \subseteq T
    <3> HIDE DEF T
    <3> QED
      BY <2>1, UpTo
  <2> QED
    BY <1>6, <2>2
<1> QED
  BY <1>7, <1>8 DEF w

(* The sets of Steps grow.                                                 *)
LEMMA StepsGrow ==
  ASSUME NEW out \in [Ids -> SUBSET Ids], NEW from \in SUBSET Ids,
         NEW k \in 0 .. MaxNodes, NEW j \in 0 .. k
  PROVE  Steps(out, from)[j] \subseteq Steps(out, from)[k]
<1> USE Assumption
<1> DEFINE w == Steps(out, from)
           S == {i \in 0 .. k - j : w[j] \subseteq w[j + i]}
<1>1. \A i \in 0 .. MaxNodes - 1 : w[i] \subseteq w[i + 1]
  BY StepsEquations
<1> HIDE DEF w
<1>2. 0 \in S
  OBVIOUS
<1>3. ASSUME NEW i \in 0 .. (k - j) - 1, i \in S PROVE i + 1 \in S
  <2>1. j + i \in 0 .. MaxNodes - 1 /\ j + (i + 1) = (j + i) + 1
    OBVIOUS
  <2> QED
    BY <1>1, <1>3, <2>1
<1>4. 0 .. k - j \subseteq S
  <2> HIDE DEF S
  <2> QED
    BY <1>2, <1>3, UpTo
<1>5. k - j \in S
  BY <1>4
<1> QED
  BY <1>5 DEF w

(* No edge leaves the set.                                                 *)
Closed(out, s) == \A n \in s : out[n] \subseteq s

(* Steps stay in a closed set.                                             *)
LEMMA StepsStay ==
  ASSUME NEW out \in [Ids -> SUBSET Ids], NEW from \in SUBSET Ids,
         NEW s \in SUBSET Ids, Closed(out, s),
         NEW j \in 0 .. MaxNodes, Steps(out, from)[j] \subseteq s,
         NEW k \in j .. MaxNodes
  PROVE  Steps(out, from)[k] \subseteq s
<1> USE Assumption
<1> DEFINE w == Steps(out, from)
           S == {i \in 0 .. k - j : w[j + i] \subseteq s}
<1>1. \A i \in 0 .. MaxNodes - 1 : w[i + 1] = w[i] \cup UNION {out[n] : n \in w[i]}
  BY StepsEquations
<1> HIDE DEF w
<1>2. 0 \in S
  BY DEF w
<1>3. ASSUME NEW i \in 0 .. (k - j) - 1, i \in S PROVE i + 1 \in S
  <2>1. j + i \in 0 .. MaxNodes - 1 /\ j + (i + 1) = (j + i) + 1
    OBVIOUS
  <2> QED
    BY <1>1, <1>3, <2>1 DEF Closed
<1>4. 0 .. k - j \subseteq S
  <2> HIDE DEF S
  <2> QED
    BY <1>2, <1>3, UpTo
<1>5. k - j \in S
  BY <1>4
<1> QED
  BY <1>5 DEF w

LEMMA IdsFinite == IsFiniteSet(Ids) /\ Cardinality(Ids) = MaxNodes
  BY Assumption, FS_Interval DEF Ids

(* After MaxNodes steps nothing is left to come to: with every step before *)
(* that one node at least was added, and there are no more than MaxNodes.  *)
LEMMA StepsEnd ==
  ASSUME NEW out \in [Ids -> SUBSET Ids], NEW from \in SUBSET Ids
  PROVE  Closed(out, Steps(out, from)[MaxNodes])
<1> USE Assumption
<1> DEFINE w == Steps(out, from)
<1>1. /\ w \in [0 .. MaxNodes -> SUBSET Ids] /\ w[0] = from
      /\ \A k \in 0 .. MaxNodes - 1 : w[k + 1] = w[k] \cup UNION {out[n] : n \in w[k]}
  BY StepsEquations
<1>2. ASSUME NEW k \in 0 .. MaxNodes, Closed(out, w[k]) PROVE w[k] = w[MaxNodes]
  <2>1. w[k] \subseteq w[MaxNodes]
    BY StepsGrow
  <2>2. w[MaxNodes] \subseteq w[k]
    BY <1>1, <1>2, StepsStay
  <2> QED
    BY <2>1, <2>2
<1> HIDE DEF w
<1> SUFFICES ASSUME \A k \in 0 .. MaxNodes : ~Closed(out, w[k]) PROVE FALSE
  BY <1>2 DEF w
<1> DEFINE S == {k \in 0 .. MaxNodes : Cardinality(w[k]) >= k + 1}
<1>3. \A k \in 0 .. MaxNodes : IsFiniteSet(w[k]) /\ Cardinality(w[k]) \in Nat
  BY <1>1, IdsFinite, FS_Subset, FS_CardinalityType
<1>4. 0 \in S
  <2>1. w[0] # {}
    BY DEF Closed
  <2> QED
    BY <1>3, <2>1, FS_EmptySet
<1>5. ASSUME NEW k \in 0 .. MaxNodes - 1, k \in S PROVE k + 1 \in S
  <2>1. w[k] \subseteq w[k + 1] /\ w[k] # w[k + 1]
    BY <1>1 DEF Closed
  <2>2. Cardinality(w[k]) < Cardinality(w[k + 1])
    BY <1>3, <2>1, FS_Subset
  <2> QED
    BY <1>3, <1>5, <2>2
<1>6. MaxNodes \in S
  <2> HIDE DEF S
  <2> QED
    BY <1>4, <1>5, UpTo
<1>7. Cardinality(w[MaxNodes]) <= MaxNodes
  BY <1>1, IdsFinite, FS_Subset
<1> QED
  BY <1>3, <1>6, <1>7

(* Reachable for any edges.                                                *)
Reach(out, from) == Steps(out, from)[MaxNodes]

(* What can be reached is the least closed set around from.                *)
LEMMA ReachLeast ==
  ASSUME NEW out \in [Ids -> SUBSET Ids], NEW from \in SUBSET Ids
  PROVE  /\ from \subseteq Reach(out, from)
         /\ Reach(out, from) \subseteq Ids
         /\ Closed(out, Reach(out, from))
         /\ \A s \in SUBSET Ids : from \subseteq s /\ Closed(out, s) => Reach(out, from) \subseteq s
<1> USE Assumption
<1>1. Reach(out, from) \in SUBSET Ids /\ Steps(out, from)[0] = from
  BY StepsEquations DEF Reach
<1>2. from \subseteq Reach(out, from)
  BY <1>1, StepsGrow DEF Reach
<1>3. ASSUME NEW s \in SUBSET Ids, from \subseteq s, Closed(out, s)
      PROVE  Reach(out, from) \subseteq s
  BY <1>1, <1>3, StepsStay DEF Reach
<1> QED
  BY <1>1, <1>2, <1>3, StepsEnd DEF Reach

(* A node on a cycle is one that its own edges lead back to.               *)
Cyclic(out) == {n \in Ids : n \in Reach(out, out[n])}

(* A set in which every node has an edge to it from a node of the set has  *)
(* a node on a cycle: one that the fewest of the set lead to.              *)
LEMMA CycleBehind ==
  ASSUME NEW out \in [Ids -> SUBSET Ids], NEW b \in SUBSET Ids, b # {},
         \A n \in b : \E p \in b : n \in out[p]
  PROVE  b \cap Cyclic(out) # {}
<1> DEFINE behind(n) == {p \in b : n \in Reach(out, out[p])}
           W == {behind(n) : n \in b}
<1>1. W \subseteq FiniteSubsetsOf(Ids) /\ W # {}
  <2>1. \A n \in b : behind(n) \in SUBSET Ids
    OBVIOUS
  <2>2. FiniteSubsetsOf(Ids) = SUBSET Ids
    BY IdsFinite, FS_FiniteSubsetsOfFinite
  <2> HIDE DEF behind
  <2> QED
    BY <2>1, <2>2
<1>2. PICK x \in W : \A y \in W : <<y, x>> \notin StrictSubsetOrdering(Ids)
  <2> HIDE DEF W
  <2> QED
    BY <1>1, WFMin, FS_StrictSubsetOrderingWellFounded
<1>3. PICK n \in b : x = behind(n)
  BY <1>2
<1>4. PICK p \in b : n \in out[p]
  OBVIOUS
<1>5. \A m \in Ids : /\ out[m] \subseteq Reach(out, out[m])
                     /\ Closed(out, Reach(out, out[m])) /\ Reach(out, out[m]) \subseteq Ids
  BY ReachLeast
<1>6. behind(p) \subseteq behind(n) /\ p \in behind(n)
  BY <1>4, <1>5 DEF Closed
<1>7. behind(p) = behind(n)
  <2>1. behind(p) \in W /\ behind(n) \in SUBSET Ids
    OBVIOUS
  <2>2. <<behind(p), behind(n)>> \notin StrictSubsetOrdering(Ids)
    BY <1>2, <1>3, <2>1
  <2> QED
    BY <1>6, <2>1, <2>2 DEF StrictSubsetOrdering
<1>8. p \in behind(p)
  BY <1>6, <1>7
<1> QED
  BY <1>8 DEF Cyclic

-------------------------------------------------------------------------------
(* The algorithms.                                                         *)

(* The members of a sequence, and that none is there twice.                *)
Elements(s) == {s[i] : i \in DOMAIN s}
Distinct(s) == \A i, j \in DOMAIN s : s[i] = s[j] => i = j

(* What holds of every algorithm.                                          *)
WalkInv ==
  /\ IInv
  /\ walk \in {"none", "topological", "bfs", "dfs", "mst"}
  /\ walk # "none" => nodes = Ids

TopologicalInv ==
  walk = "topological" =>
    /\ path \in Seq(Ids) /\ calls \in Seq(Ids)
    /\ excluded = {e \in Ids \X Ids : e[1] \in Elements(calls) /\ e[2] \in outgoing[e[1]]}
    /\ Distinct(path)
    /\ Elements(path) \cap Elements(calls) = {}
    /\ \A n \in Ids :
         n \in Elements(path) \cup Elements(calls) <=> incoming[n] \subseteq Elements(calls)
    /\ Walks!TopologicalOrder

VisitInv ==
  walk \in {"bfs", "dfs"} =>
    /\ path \in Seq(Ids) /\ calls \in Seq(Ids)
    /\ visited = Elements(calls)
    /\ Elements(path) \cup visited \subseteq Reach(outgoing, {0})
    /\ 0 \in Elements(path) \cup visited
    /\ \A n \in visited : outgoing[n] \subseteq visited \cup Elements(path)

Count(s, n) == Cardinality({i \in DOMAIN s : s[i] = n})

StackInv ==
  walk = "dfs" =>
    /\ calls = <<>> => path = <<0>>
    /\ calls # <<>> => 0 \in visited
    /\ \A i \in DOMAIN path :
         path[i] \in visited =>
           outgoing[path[i]] \subseteq visited \cup {path[j] : j \in i + 1 .. Len(path)}

CountInv ==
  walk = "dfs" =>
    \A n \in Ids :
      Count(calls, n) + Count(path, n) <=
        IF n = 0 THEN 1 ELSE Cardinality((incoming[n] \cap visited) \ {n})

(* n waits in path, above it only children of calls from a on.             *)
Waits(a, n) ==
  \E i \in DOMAIN path :
    /\ path[i] = n
    /\ \A j \in i .. Len(path) :
         \E d \in Walks!FirstCalls : d >= a /\ path[j] \in outgoing[calls[d]]

Deeper(a, b) == \E d \in Walks!FirstCalls \cap a .. b - 1 : calls[b] \in outgoing[calls[d]]

DepthInv ==
  walk = "dfs" =>
    /\ \A a \in Walks!FirstCalls : \A n \in outgoing[calls[a]] \ visited : Waits(a, n)
    /\ \A a, b \in Walks!FirstCalls :
         a < b /\ ~(outgoing[calls[a]] \subseteq {calls[k] : k \in 1 .. b}) => Deeper(a, b)

(* The nodes at most l edges from the first, for every l, and how many     *)
(* edges it takes to a node.                                               *)
Near(out, l) == Steps(out, {0})[IF l <= MaxNodes THEN l ELSE MaxNodes]
Dist(out, n) == CHOOSE k \in 0 .. MaxNodes :
                  n \in Steps(out, {0})[k] /\ (k > 0 => n \notin Steps(out, {0})[k - 1])

Level(l, k) ==
  /\ \A i \in 1 .. k : path[i] \in Near(outgoing, l)
  /\ \A i \in k + 1 .. Len(path) : path[i] \in Near(outgoing, l + 1)
  /\ l > 0 => Near(outgoing, l - 1) \subseteq visited
  /\ Near(outgoing, l) \subseteq visited \cup {path[i] : i \in 1 .. k}
  /\ visited \subseteq Near(outgoing, l)

BreadthInv ==
  walk = "bfs" =>
    /\ \E l \in Nat, k \in Nat : k <= Len(path) /\ Level(l, k)
    /\ \A i, j \in Walks!FirstCalls :
         i < j => Dist(outgoing, calls[i]) <= Dist(outgoing, calls[j])

NoNode == Mst!NoNode

Entries == (Ids \cup {NoNode}) \X Ids

(* The edges by which mst came to the nodes: those it has followed and not *)
(* removed.                                                                *)
Followed(u, v) == u \in visited /\ v \in outgoing[u] /\ <<u, v>> \notin Elements(path)

(* What can be reached from r is a tree: no edge leads to r, and no two to *)
(* the same node.                                                          *)
IsTree(out, r) ==
  \A m \in Reach(out, {r}) :
    /\ r \notin out[m]
    /\ \A n \in Reach(out, {r}) : out[m] \cap out[n] # {} => m = n

MstInv ==
  walk = "mst" =>
    /\ root_ids \subseteq Ids /\ finished \subseteq Ids /\ visited \subseteq Ids
    /\ root \in Ids \cup {NoNode}
    /\ path \in Seq(Entries) /\ Distinct(path)
    /\ \/ visited = {} /\ root = NoNode /\ path = <<>>
       \/ visited = {} /\ root \in Ids /\ path = <<<<NoNode, root>>>>
       \/ /\ root \in visited
          /\ \A e \in Elements(path) : e[1] \in visited /\ e[2] \in outgoing[e[1]]
    /\ \A u, v \in Ids : Followed(u, v) => v \in visited \ {root}
    /\ \A u, v, w \in Ids : Followed(u, w) /\ Followed(v, w) => u = v
    /\ \A s \in SUBSET Ids :
         root \in s /\ (\A u, v \in Ids : u \in s /\ Followed(u, v) => v \in s) => visited \subseteq s
    /\ \A r \in finished : IsTree(outgoing, r)

-------------------------------------------------------------------------------
(* Sequences.                                                              *)

(* s lists the members of S, each once.                                    *)
Lists(s, S) ==
  /\ s \in Seq(S)
  /\ \A i, j \in 1 .. Len(s) : s[i] = s[j] => i = j
  /\ \A x \in S : \E i \in 1 .. Len(s) : s[i] = x

LEMMA InjectionLists ==
  ASSUME NEW S, IsFiniteSet(S), NEW s \in [1 .. Cardinality(S) -> S],
         \A i, j \in 1 .. Cardinality(S) : s[i] = s[j] => i = j
  PROVE  Lists(s, S)
<1> DEFINE n == Cardinality(S)
<1>1. n \in Nat
  BY FS_CardinalityType
<1>2. IsFiniteSet(1 .. n) /\ Cardinality(1 .. n) = n
  BY <1>1, FS_Interval
<1>3. s \in Injection(1 .. n, S)
  BY DEF Injection, IsInjective
<1>4. s \in Surjection(1 .. n, S)
  BY <1>2, <1>3, FS_Injection
<1>5. s \in Seq(S) /\ Len(s) = n
  BY <1>1
<1> QED
  BY <1>4, <1>5 DEF Lists, Surjection

LEMMA SameCardinality ==
  ASSUME NEW S
  PROVE  Walks!Cardinality(S) = Cardinality(S) /\ Mst!Cardinality(S) = Cardinality(S)
  BY DEF Walks!Cardinality, Mst!Cardinality, Cardinality

LEMMA SetToSeqsLists ==
  ASSUME NEW S, IsFiniteSet(S)
  PROVE  /\ \A s \in Walks!SetToSeqs(S) : Lists(s, S)
         /\ \A s \in Mst!SetToSeqs(S) : Lists(s, S)
<1>1. ASSUME NEW s \in Walks!SetToSeqs(S) \cup Mst!SetToSeqs(S) PROVE Lists(s, S)
  <2>1. /\ s \in [1 .. Cardinality(S) -> S]
        /\ \A i, j \in 1 .. Cardinality(S) : i # j => s[i] # s[j]
    BY SameCardinality DEF Walks!SetToSeqs, Mst!SetToSeqs
  <2> QED
    BY <2>1, InjectionLists
<1> QED
  BY <1>1

LEMMA SetToSeqLists ==
  ASSUME NEW S, IsFiniteSet(S)
  PROVE  Lists(Walks!SetToSeq(S), S)
<1>1. PICK f \in [1 .. Cardinality(S) -> S] : Walks!IsInjective(f)
  BY FS_CardinalityType DEF ExistsBijection, Bijection, Injection, IsInjective, Walks!IsInjective
<1>2. /\ Walks!SetToSeq(S) \in [1 .. Cardinality(S) -> S]
      /\ Walks!IsInjective(Walks!SetToSeq(S))
  BY <1>1, SameCardinality DEF Walks!SetToSeq
<1> QED
  BY <1>2, InjectionLists DEF Walks!IsInjective

LEMMA ConcatAt ==
  ASSUME NEW S, NEW s \in Seq(S), NEW t \in Seq(S)
  PROVE  /\ s \o t \in Seq(S) /\ Len(s \o t) = Len(s) + Len(t)
         /\ \A k \in 1 .. Len(s) : (s \o t)[k] = s[k]
         /\ \A k \in 1 .. Len(t) : (s \o t)[Len(s) + k] = t[k]
         /\ \A k \in Len(s) + 1 .. Len(s) + Len(t) : (s \o t)[k] = t[k - Len(s)]
  OBVIOUS

LEMMA ConcatElements ==
  ASSUME NEW S, NEW s \in Seq(S), NEW t \in Seq(S)
  PROVE  /\ Elements(s \o t) = Elements(s) \cup Elements(t)
         /\ Distinct(s) /\ Distinct(t) /\ Elements(s) \cap Elements(t) = {} => Distinct(s \o t)
<1> DEFINE u == s \o t
<1>1. /\ u \in Seq(S) /\ Len(u) = Len(s) + Len(t)
      /\ \A k \in 1 .. Len(s) : u[k] = s[k]
      /\ \A k \in 1 .. Len(t) : u[Len(s) + k] = t[k]
      /\ \A k \in Len(s) + 1 .. Len(s) + Len(t) : u[k] = t[k - Len(s)]
  BY ConcatAt
<1> HIDE DEF u
<1>2. /\ DOMAIN u = 1 .. Len(s) + Len(t) /\ DOMAIN s = 1 .. Len(s) /\ DOMAIN t = 1 .. Len(t)
      /\ Len(s) \in Nat /\ Len(t) \in Nat
  BY <1>1
<1>3. \A k \in DOMAIN u : \/ k \in DOMAIN s /\ u[k] = s[k]
                          \/ k - Len(s) \in DOMAIN t /\ u[k] = t[k - Len(s)] /\ k \notin DOMAIN s
  BY <1>1, <1>2
<1>4. Elements(s \o t) = Elements(s) \cup Elements(t)
  <2>1. \A k \in DOMAIN u : u[k] \in Elements(s) \cup Elements(t)
    BY <1>3 DEF Elements
  <2>2. \A k \in DOMAIN s : k \in DOMAIN u /\ s[k] = u[k]
    BY <1>1, <1>2
  <2>3. \A k \in DOMAIN t : Len(s) + k \in DOMAIN u /\ t[k] = u[Len(s) + k]
    BY <1>1, <1>2
  <2>4. Elements(u) \subseteq Elements(s) \cup Elements(t)
    BY <2>1 DEF Elements
  <2>5. Elements(s) \subseteq Elements(u)
    BY <2>2 DEF Elements
  <2>6. Elements(t) \subseteq Elements(u)
    BY <2>3 DEF Elements
  <2> QED
    BY <2>4, <2>5, <2>6 DEF u
<1>5. ASSUME Distinct(s), Distinct(t), Elements(s) \cap Elements(t) = {},
             NEW i \in DOMAIN u, NEW j \in DOMAIN u, u[i] = u[j]
      PROVE  i = j
  <2>1. \A k \in DOMAIN s : s[k] \in Elements(s) /\ s[k] \notin Elements(t)
    BY <1>5 DEF Elements
  <2>2. \A k \in DOMAIN t : t[k] \in Elements(t) /\ t[k] \notin Elements(s)
    BY <1>5 DEF Elements
  <2>3. CASE i \in DOMAIN s /\ j \in DOMAIN s
    BY <1>1, <1>2, <1>5, <2>3 DEF Distinct
  <2>4. CASE i \notin DOMAIN s /\ j \notin DOMAIN s
    <3>1. i - Len(s) = j - Len(s)
      BY <1>3, <1>5, <2>4 DEF Distinct
    <3> QED
      BY <1>2, <3>1
  <2>5. i \in DOMAIN s <=> j \in DOMAIN s
    BY <1>3, <1>5, <2>1, <2>2
  <2> QED
    BY <2>3, <2>4, <2>5
<1> QED
  BY <1>4, <1>5 DEF Distinct, u

LEMMA RemoveAtFacts ==
  ASSUME NEW S, NEW s \in Seq(S), NEW i \in DOMAIN s
  PROVE  /\ Walks!RemoveAt(s, i) \in Seq(S)
         /\ Distinct(s) => /\ Distinct(Walks!RemoveAt(s, i))
                           /\ Elements(Walks!RemoveAt(s, i)) = Elements(s) \ {s[i]}
<1> DEFINE a == SubSeq(s, 1, i - 1)
           b == SubSeq(s, i + 1, Len(s))
<1>1. i \in 1 .. Len(s) /\ Len(s) \in Nat /\ DOMAIN s = 1 .. Len(s)
  OBVIOUS
<1>2. a \in Seq(S) /\ Len(a) = i - 1 /\ \A j \in 1 .. i - 1 : a[j] = s[j]
  BY <1>1
<1>3. b \in Seq(S) /\ Len(b) = Len(s) - i /\ \A j \in 1 .. Len(s) - i : b[j] = s[i + j]
  BY <1>1
<1>3a. \A j \in i + 1 .. Len(s) : j - i \in 1 .. Len(s) - i /\ b[j - i] = s[j]
  <2> SUFFICES ASSUME NEW j \in i + 1 .. Len(s) PROVE j - i \in 1 .. Len(s) - i /\ b[j - i] = s[j]
    OBVIOUS
  <2>1. j - i \in 1 .. Len(s) - i /\ i + (j - i) = j
    BY <1>1
  <2> QED
    BY <1>3, <2>1
<1> HIDE DEF a, b
<1>4. DOMAIN a = 1 .. i - 1 /\ DOMAIN b = 1 .. Len(s) - i
  BY <1>2, <1>3
<1>5. ASSUME Distinct(s)
      PROVE  /\ Distinct(a) /\ Distinct(b) /\ Elements(a) \cap Elements(b) = {}
             /\ Elements(a) \cup Elements(b) = Elements(s) \ {s[i]}
  <2>1. \A j, k \in 1 .. Len(s) : s[j] = s[k] => j = k
    BY <1>1, <1>5 DEF Distinct
  <2>2. Distinct(a)
    BY <1>1, <1>2, <1>4, <2>1 DEF Distinct
  <2>3. Distinct(b)
    <3> SUFFICES ASSUME NEW j \in DOMAIN b, NEW k \in DOMAIN b, b[j] = b[k] PROVE j = k
      BY DEF Distinct
    <3>a. j \in 1 .. Len(s) - i /\ k \in 1 .. Len(s) - i
      BY <1>4
    <3>b. b[j] = s[i + j] /\ b[k] = s[i + k]
      BY <1>3, <3>a
    <3>c. i + j \in 1 .. Len(s) /\ i + k \in 1 .. Len(s)
      BY <1>1, <3>a
    <3>1. i + j \in 1 .. Len(s) /\ i + k \in 1 .. Len(s) /\ s[i + j] = s[i + k]
      BY <3>b, <3>c
    <3>2. i + j = i + k
      BY <2>1, <3>1
    <3> QED
      BY <1>1, <1>4, <3>2
  <2>4. Elements(a) = {s[j] : j \in 1 .. i - 1}
    BY <1>2, <1>4 DEF Elements
  <2>5. Elements(b) = {s[j] : j \in i + 1 .. Len(s)}
    <3>2. \A j \in 1 .. Len(s) - i : i + j \in i + 1 .. Len(s) /\ b[j] = s[i + j]
      BY <1>1, <1>3
    <3> QED
      BY <1>3a, <1>4, <3>2 DEF Elements
  <2>6. Elements(s) = {s[j] : j \in 1 .. Len(s)}
    BY <1>1 DEF Elements
  <2>7. Elements(a) \cap Elements(b) = {}
    BY <1>1, <2>1, <2>4, <2>5
  <2>8. Elements(a) \cup Elements(b) = Elements(s) \ {s[i]}
    BY <1>1, <2>1, <2>4, <2>5, <2>6
  <2> QED
    BY <2>2, <2>3, <2>7, <2>8
<1>6. a \o b = Walks!RemoveAt(s, i)
  BY DEF Walks!RemoveAt, a, b
<1>7. a \o b \in Seq(S)
  BY <1>2, <1>3, ConcatAt
<1>8. /\ Elements(a \o b) = Elements(a) \cup Elements(b)
      /\ Distinct(a) /\ Distinct(b) /\ Elements(a) \cap Elements(b) = {} => Distinct(a \o b)
  BY <1>2, <1>3, ConcatElements
<1> QED
  BY <1>5, <1>6, <1>7, <1>8

LEMMA AppendFacts ==
  ASSUME NEW S, NEW s \in Seq(S), NEW e \in S
  PROVE  /\ Append(s, e) \in Seq(S) /\ Len(Append(s, e)) = Len(s) + 1
         /\ DOMAIN Append(s, e) = 1 .. Len(s) + 1 /\ DOMAIN s = 1 .. Len(s) /\ Len(s) \in Nat
         /\ \A k \in 1 .. Len(s) : Append(s, e)[k] = s[k]
         /\ Append(s, e)[Len(s) + 1] = e
         /\ Elements(Append(s, e)) = Elements(s) \cup {e}
<1>1. /\ Append(s, e) \in Seq(S) /\ Len(Append(s, e)) = Len(s) + 1
      /\ DOMAIN Append(s, e) = 1 .. Len(s) + 1 /\ DOMAIN s = 1 .. Len(s) /\ Len(s) \in Nat
      /\ \A k \in 1 .. Len(s) : Append(s, e)[k] = s[k]
      /\ Append(s, e)[Len(s) + 1] = e
  OBVIOUS
<1> QED
  BY <1>1 DEF Elements

LEMMA ListsElements ==
  ASSUME NEW S, NEW s, Lists(s, S)
  PROVE  s \in Seq(S) /\ Elements(s) = S /\ Distinct(s)
<1>1. s \in Seq(S) /\ DOMAIN s = 1 .. Len(s)
  BY DEF Lists
<1> QED
  BY <1>1 DEF Lists, Elements, Distinct

-------------------------------------------------------------------------------

(* The operators of the modules are those of the lemmas.                   *)
LEMMA ReachableIs ==
  ASSUME NEW from
  PROVE  /\ Walks!Reachable(from) = Reach(outgoing, from)
         /\ Mst!Reachable(from) = Reach(outgoing, from)
         /\ Walks!Within(from) = Steps(outgoing, from)
         /\ Mst!Reachable(from)' = Reach(outgoing', from)
  BY DEF Walks!Reachable, Mst!Reachable, Reach, Walks!Within, Mst!Within, Steps

(* What a step is to an algorithm that runs after it.                      *)
LEMMA WalkSteps ==
  ASSUME [AlgorithmsNext]_state, NEW w \in {"topological", "bfs", "dfs"}, walk' = w
  PROVE  \/ Walks!StartWalk(w) /\ walk = "none" /\ nodes = Ids
         \/ walk = w /\ Walks!WalkNext
         \/ UNCHANGED <<vars, walk, path, visited, excluded, calls>>
<1> USE DEF locals, ofWalks, ofMst
<1>1. CASE Change
  BY <1>1 DEF Change
<1>2. CASE Start
  BY <1>2 DEF Start, Walks!StartWalk, Mst!StartMst
<1>3. CASE Walks!WalkNext
  <2>1. walk = walk'
    BY <1>3 DEF Walks!WalkNext, Walks!Topological, Walks!Bfs, Walks!Dfs, Walks!Take
  <2> QED
    BY <1>3, <2>1
<1>4. CASE Mst!MstNext
  BY <1>4 DEF Mst!MstNext, Mst!StartNode, Mst!Revisit, Mst!Visit
<1>5. CASE Finish
  BY <1>5 DEF Finish
<1>6. CASE UNCHANGED state
  BY <1>6 DEF state
<1> QED
  BY <1>1, <1>2, <1>3, <1>4, <1>5, <1>6 DEF AlgorithmsNext, Run

LEMMA MstSteps ==
  ASSUME [AlgorithmsNext]_state, walk' = "mst"
  PROVE  \/ Mst!StartMst /\ walk = "none" /\ nodes = Ids
         \/ walk = "mst" /\ Mst!MstNext
         \/ UNCHANGED <<vars, walk, path, visited, root_ids, root, finished>>
<1> USE DEF locals, ofWalks, ofMst
<1>1. CASE Change
  BY <1>1 DEF Change
<1>2. CASE Start
  BY <1>2 DEF Start, Walks!StartWalk, Mst!StartMst
<1>3. CASE Walks!WalkNext
  BY <1>3 DEF Walks!WalkNext, Walks!Topological, Walks!Bfs, Walks!Dfs, Walks!Take
<1>4. CASE Mst!MstNext
  <2>1. walk = "mst"
    BY <1>4 DEF Mst!MstNext, Mst!StartNode, Mst!Revisit, Mst!Visit
  <2> QED
    BY <1>4, <2>1
<1>5. CASE Finish
  BY <1>5 DEF Finish
<1>6. CASE UNCHANGED state
  BY <1>6 DEF state
<1> QED
  BY <1>1, <1>2, <1>3, <1>4, <1>5, <1>6 DEF AlgorithmsNext, Run

(* mst removes an edge as any caller would.                                *)
LEMMA RevisitRemoves ==
  ASSUME IInv, Mst!Revisit
  PROVE  /\ RemoveDirectedEdge(Mst!Last(path)[1], Mst!Last(path)[2]) /\ nodes' = nodes
         /\ Next
<1> DEFINE u == Mst!Last(path)[1]
           v == Mst!Last(path)[2]
<1>1. RemoveDirectedEdge(u, v)
  BY DEF Mst!Revisit, Mst!RemoveDirectedEdge, RemoveDirectedEdge, Mst!Erase, Erase
<1>2. nodes \subseteq Ids
  BY Assumption DEF IInv, TypeOK, Ids
<1>3. u \in Ids /\ v \in Ids
  BY <1>1, <1>2 DEF RemoveDirectedEdge
<1> QED
  BY <1>1, <1>3 DEF Next, RemoveDirectedEdge

LEMMA WalkInit == AlgorithmsInit => WalkInv
  BY InitInv DEF AlgorithmsInit, Idle, WalkInv

(* A step of the program is one of the graph, or leaves it alone. mst      *)
(* removes edges as any caller would.                                      *)
LEMMA GraphStep == IInv /\ [AlgorithmsNext]_state => [Next]_vars
<1> SUFFICES ASSUME IInv, [AlgorithmsNext]_state PROVE Next \/ UNCHANGED vars
  OBVIOUS
<1>1. CASE Change
  BY <1>1 DEF Change
<1>2. CASE Start
  BY <1>2 DEF Start, Walks!StartWalk, Mst!StartMst, Walks!vars, Mst!vars, vars
<1>3. CASE Walks!WalkNext
  BY <1>3 DEF Walks!WalkNext, Walks!Topological, Walks!Bfs, Walks!Dfs, Walks!Take, Walks!vars, vars
<1>4. ASSUME NEW id \in Ids, Mst!StartNode(id) PROVE UNCHANGED vars
  BY <1>4 DEF Mst!StartNode, Mst!vars, vars
<1>5. CASE Mst!Visit
  BY <1>5 DEF Mst!Visit, Mst!vars, vars
<1>6. CASE Mst!Revisit
  BY <1>6, RevisitRemoves
<1>7. CASE Finish
  BY <1>7 DEF Finish
<1>8. CASE UNCHANGED state
  BY <1>8 DEF state
<1>9. Mst!Ids = Ids
  BY DEF Mst!Ids, Ids
<1> QED
  BY <1>1, <1>2, <1>3, <1>4, <1>5, <1>6, <1>7, <1>8, <1>9 DEF AlgorithmsNext, Run, Mst!MstNext

(* Only when no algorithm runs are nodes added or removed.                 *)
LEMMA WalkStep == WalkInv /\ [AlgorithmsNext]_state => WalkInv'
<1> SUFFICES ASSUME WalkInv, [AlgorithmsNext]_state
             PROVE  /\ walk' \in {"none", "topological", "bfs", "dfs", "mst"}
                    /\ walk' # "none" => nodes' = Ids
  BY GraphStep, InvStep DEF WalkInv
<1> USE DEF WalkInv
<1>1. CASE Change
  BY <1>1 DEF Change, locals
<1>2. CASE Start
  BY <1>2 DEF Start, Walks!StartWalk, Mst!StartMst, Walks!vars, Mst!vars, vars
<1>3. CASE Walks!WalkNext
  BY <1>3 DEF Walks!WalkNext, Walks!Topological, Walks!Bfs, Walks!Dfs, Walks!Take, Walks!vars, vars
<1>4. CASE Mst!MstNext
  <2>1. UNCHANGED <<nodes, walk>>
    BY <1>4, RevisitRemoves DEF Mst!MstNext, Mst!StartNode, Mst!Visit, Mst!Revisit, Mst!vars
  <2> QED
    BY <2>1
<1>5. CASE Finish
  BY <1>5 DEF Finish, vars
<1>6. CASE UNCHANGED state
  BY <1>6 DEF state, locals, vars
<1> QED
  BY <1>1, <1>2, <1>3, <1>4, <1>5, <1>6 DEF AlgorithmsNext, Run

(* While a program runs algorithms on its graph and changes it between     *)
(* them, mst among them, the two sides of every edge agree: IInv of Graph  *)
(* still holds.                                                            *)
THEOREM WalkInvariance == AlgorithmsSpec => []WalkInv
  BY WalkInit, WalkStep, PTL DEF AlgorithmsSpec

(* An algorithm does to the graph only what its own operations do, so that *)
(* it remains the plain directed graph.                                    *)
THEOREM AlgorithmsRefine == AlgorithmsSpec => ImplementsGraph
<1>1. AlgorithmsInit => DG!Init
  BY RefineInit DEF AlgorithmsInit
<1>2. WalkInv /\ WalkInv' /\ [AlgorithmsNext]_state => [DG!Next]_(DG!vars)
  BY GraphStep, RefineStep DEF WalkInv
<1> QED
  BY <1>1, <1>2, WalkInvariance, PTL DEF AlgorithmsSpec, DG!Spec, ImplementsGraph

-------------------------------------------------------------------------------
(* topological_sorted_walk.                                                *)

LEMMA TopologicalStart ==
  ASSUME WalkInv, nodes = Ids, Walks!StartWalk("topological")
  PROVE  TopologicalInv'
<1>1. /\ path' = Walks!SetToSeq(Roots) /\ calls' = <<>> /\ excluded' = {} /\ UNCHANGED vars
  BY DEF Walks!StartWalk, Walks!Roots, Roots, Walks!vars, vars
<1>2. Roots = {n \in Ids : incoming[n] = {}} /\ IsFiniteSet(Roots)
  BY IdsFinite, FS_Subset DEF Roots
<1>3. Lists(path', Roots)
  BY <1>1, <1>2, SetToSeqLists
<1>4. path' \in Seq(Roots) /\ Elements(path') = Roots /\ Distinct(path')
  BY <1>3, ListsElements
<1>5. path' \in Seq(Ids)
  BY <1>2, <1>4
<1>6. Elements(calls') = {} /\ calls' \in Seq(Ids)
  BY <1>1 DEF Elements
<1>7. \A n \in Ids :
         n \in Elements(path') \cup Elements(calls') <=> incoming'[n] \subseteq Elements(calls')
  BY <1>1, <1>2, <1>4, <1>6 DEF vars
<1>8. Walks!TopologicalOrder'
  BY <1>1 DEF Walks!TopologicalOrder
<1>9. excluded' = {e \in Ids \X Ids : e[1] \in Elements(calls') /\ e[2] \in outgoing'[e[1]]}
  BY <1>1, <1>6
<1> QED
  BY <1>4, <1>5, <1>6, <1>7, <1>8, <1>9 DEF TopologicalInv

(* A round takes a node and makes ready the children that wait for no      *)
(* other parent.                                                           *)
LEMMA TopologicalRound ==
  ASSUME WalkInv, TopologicalInv, Walks!Topological, nodes = Ids
  PROVE  TopologicalInv'
<1> DEFINE C == Elements(calls)
           P == Elements(path)
<1>1. /\ walk = "topological" /\ UNCHANGED <<vars, walk>>
      /\ \A u, v \in Ids : v \in outgoing[u] <=> u \in incoming[v]
      /\ incoming \in [Ids -> SUBSET Ids] /\ outgoing \in [Ids -> SUBSET Ids]
  BY DEF WalkInv, IInv, TypeOK, EdgesMirror, Walks!Topological, Walks!vars, vars
<1>2. /\ path \in Seq(Ids) /\ calls \in Seq(Ids)
      /\ excluded = {e \in Ids \X Ids : e[1] \in C /\ e[2] \in outgoing[e[1]]}
      /\ Distinct(path) /\ P \cap C = {}
      /\ \A n \in Ids : n \in P \cup C <=> incoming[n] \subseteq C
      /\ Walks!TopologicalOrder
  BY <1>1 DEF TopologicalInv
<1>3. PICK i \in DOMAIN path :
        /\ calls' = Append(calls, path[i])
        /\ excluded' = excluded \cup {<<path[i], child>> : child \in outgoing[path[i]]}
        /\ path' = Walks!RemoveAt(path, i) \o
                     Walks!SetToSeq(Walks!WithoutParents(outgoing[path[i]], excluded'))
  BY DEF Walks!Topological
<1> DEFINE node == path[i]
           ready == {n \in outgoing[node] : incoming[n] \subseteq C \cup {node}}
<1>4. node \in Ids /\ node \in P /\ node \notin C
  BY <1>2 DEF Elements
<1> HIDE DEF node
<1>5. calls' \in Seq(Ids) /\ Elements(calls') = C \cup {node} /\ C \subseteq Ids
  <2>1. C \subseteq Ids
    BY <1>2 DEF Elements
  <2> QED
    BY <1>2, <1>3, <1>4, <2>1, AppendFacts DEF node
<1>6. excluded' = {e \in Ids \X Ids : e[1] \in C \cup {node} /\ e[2] \in outgoing[e[1]]}
  BY <1>1, <1>2, <1>3, <1>4 DEF node
<1>7. Walks!WithoutParents(outgoing[node], excluded') = ready
  <2>1. \A n \in outgoing[node] : n \in Ids /\ incoming[n] \subseteq Ids
    BY <1>1, <1>4
  <2>2. \A n \in Ids : \A m \in incoming[n] : m \in Ids /\ n \in outgoing[m]
    BY <1>1
  <2>3. ASSUME NEW n \in outgoing[node], NEW m \in incoming[n]
        PROVE  <<m, n>> \in excluded' <=> m \in C \cup {node}
    <3>1. n \in Ids /\ m \in Ids /\ n \in outgoing[m]
      BY <2>1, <2>2
    <3> QED
      BY <1>6, <3>1
  <2> QED
    BY <2>3 DEF Walks!WithoutParents
<1> DEFINE rest == Walks!RemoveAt(path, i)
           more == Walks!SetToSeq(ready)
<1>8. ready \in SUBSET Ids /\ IsFiniteSet(ready)
  BY <1>1, <1>4, IdsFinite, FS_Subset
<1>9. more \in Seq(Ids) /\ Elements(more) = ready /\ Distinct(more)
  <2>1. Lists(more, ready)
    BY <1>8, SetToSeqLists
  <2>2. more \in Seq(ready) /\ Elements(more) = ready /\ Distinct(more)
    BY <2>1, ListsElements
  <2> QED
    BY <1>8, <2>2
<1>10. rest \in Seq(Ids) /\ Elements(rest) = P \ {node} /\ Distinct(rest)
  BY <1>2, RemoveAtFacts DEF node
<1>11. path' = rest \o more
  BY <1>3, <1>7 DEF node
<1> HIDE DEF rest, more
<1>12. ready \cap (P \cup C) = {}
  <2> SUFFICES ASSUME NEW n \in ready, n \in P \cup C PROVE FALSE
    OBVIOUS
  <2>1. n \in Ids /\ node \in incoming[n]
    BY <1>1, <1>4, <1>8
  <2>2. node \in C
    BY <1>2, <2>1
  <2> QED
    BY <1>4, <2>2
<1>13. path' \in Seq(Ids) /\ Elements(path') = (P \ {node}) \cup ready /\ Distinct(path')
  BY <1>9, <1>10, <1>11, <1>12, ConcatElements
<1>14. Elements(path') \cap Elements(calls') = {}
  <2>1. node \notin ready
    BY <1>4, <1>12
  <2> QED
    BY <1>2, <1>5, <1>12, <1>13, <2>1
<1>15. ASSUME NEW n \in Ids
       PROVE  n \in Elements(path') \cup Elements(calls') <=> incoming[n] \subseteq Elements(calls')
  <2>1. Elements(path') \cup Elements(calls') = P \cup C \cup ready
    BY <1>4, <1>5, <1>13
  <2>2. CASE incoming[n] \subseteq C
    BY <1>2, <1>5, <2>1, <2>2
  <2>3. CASE ~(incoming[n] \subseteq C)
    <3>1. n \notin P \cup C
      BY <1>2, <2>3
    <3>2. n \in ready <=> incoming[n] \subseteq C \cup {node}
      <4>1. incoming[n] \subseteq C \cup {node} => node \in incoming[n]
        BY <2>3
      <4> QED
        BY <1>1, <1>4, <4>1
    <3> QED
      BY <1>5, <2>1, <3>1, <3>2
  <2> QED
    BY <2>2, <2>3
<1>16. Walks!TopologicalOrder'
  <2>1. /\ DOMAIN calls' = 1 .. Len(calls) + 1 /\ DOMAIN calls = 1 .. Len(calls) /\ Len(calls) \in Nat
        /\ \A k \in 1 .. Len(calls) : calls'[k] = calls[k]
        /\ calls'[Len(calls) + 1] = node
    BY <1>2, <1>3, <1>4, AppendFacts DEF node
  <2>2. \A j \in 1 .. Len(calls) :
          /\ incoming[calls[j]] \subseteq {calls[k] : k \in 1 .. j - 1}
          /\ \A k \in 1 .. j - 1 : calls[k] # calls[j]
    BY <1>1, <1>2, <2>1 DEF Walks!TopologicalOrder
  <2> SUFFICES ASSUME NEW j \in 1 .. Len(calls) + 1
               PROVE  /\ incoming[calls'[j]] \subseteq {calls'[k] : k \in 1 .. j - 1}
                      /\ \A k \in 1 .. j - 1 : calls'[k] # calls'[j]
    BY <1>1, <2>1 DEF Walks!TopologicalOrder, vars
  <2>3. {calls'[k] : k \in 1 .. j - 1} = {calls[k] : k \in 1 .. j - 1}
    BY <2>1
  <2>4. CASE j \in 1 .. Len(calls)
    BY <2>1, <2>2, <2>3, <2>4
  <2>5. CASE j = Len(calls) + 1
    <3>1. {calls[k] : k \in 1 .. j - 1} = C
      BY <2>1, <2>5 DEF Elements
    <3>2. incoming[node] \subseteq C
      BY <1>2, <1>4
    <3>3. \A k \in 1 .. j - 1 : calls[k] # node
      BY <1>4, <3>1
    <3> QED
      BY <2>1, <2>3, <2>5, <3>1, <3>2, <3>3
  <2> QED
    BY <2>1, <2>4, <2>5
<1>17. incoming' = incoming /\ outgoing' = outgoing
  BY <1>1 DEF vars
<1> QED
  BY <1>5, <1>6, <1>13, <1>14, <1>15, <1>16, <1>17 DEF TopologicalInv

LEMMA TopologicalStep == WalkInv /\ TopologicalInv /\ [AlgorithmsNext]_state => TopologicalInv'
<1> SUFFICES ASSUME WalkInv, TopologicalInv, [AlgorithmsNext]_state, walk' = "topological"
             PROVE  TopologicalInv'
  BY DEF TopologicalInv
<1>1. CASE Walks!StartWalk("topological") /\ nodes = Ids
  BY <1>1, TopologicalStart
<1>2. CASE walk = "topological" /\ Walks!WalkNext
  <2>1. Walks!Topological /\ nodes = Ids
    BY <1>2 DEF Walks!WalkNext, Walks!Bfs, Walks!Dfs, WalkInv
  <2> QED
    BY <2>1, TopologicalRound
<1>3. CASE UNCHANGED <<vars, walk, path, visited, excluded, calls>>
  BY <1>3 DEF TopologicalInv, Walks!TopologicalOrder, vars
<1> QED
  BY <1>1, <1>2, <1>3, WalkSteps

(* When no node is ready, those that func was not called with are the ones *)
(* on a cycle or after one: each has a parent that waits too.              *)
LEMMA TopologicalEnd ==
  ASSUME WalkInv, TopologicalInv
  PROVE  Walks!TopologicalComplete
<1> SUFFICES ASSUME walk = "topological", path = <<>>
             PROVE  Walks!ToSet(calls) = nodes \ Walks!Reachable(Walks!OnCycle)
  BY DEF Walks!TopologicalComplete, Walks!Done
<1> DEFINE C == Elements(calls)
           bad == Cyclic(outgoing)
           R == Reach(outgoing, bad)
<1>1. /\ incoming \in [Ids -> SUBSET Ids] /\ outgoing \in [Ids -> SUBSET Ids] /\ nodes = Ids
      /\ \A u, v \in Ids : v \in outgoing[u] <=> u \in incoming[v]
  BY DEF WalkInv, IInv, TypeOK, EdgesMirror
<1>2. /\ calls \in Seq(Ids) /\ C \subseteq Ids
      /\ \A n \in Ids : n \in C <=> incoming[n] \subseteq C
      /\ \A j \in DOMAIN calls :
           /\ incoming[calls[j]] \subseteq {calls[i] : i \in 1 .. j - 1}
           /\ \A i \in 1 .. j - 1 : calls[i] # calls[j]
  BY DEF TopologicalInv, Walks!TopologicalOrder, Elements
<1>3. Walks!OnCycle = bad
  BY <1>1, ReachableIs DEF Walks!OnCycle, Cyclic
<1>4. /\ bad \subseteq R /\ R \subseteq Ids /\ Closed(outgoing, R)
      /\ \A s \in SUBSET Ids : bad \subseteq s /\ Closed(outgoing, s) => R \subseteq s
  BY <1>1, ReachLeast DEF Cyclic
<1>5. ASSUME NEW n \in C, n \in bad PROVE FALSE
  <2>1. PICK j \in DOMAIN calls : calls[j] = n
    BY DEF Elements
  <2> DEFINE s == Ids \ {calls[i] : i \in 1 .. j}
  <2>2. j \in Nat /\ j \in 1 .. Len(calls) /\ DOMAIN calls = 1 .. Len(calls)
    BY <1>2
  <2>3. ASSUME NEW m \in Ids, NEW p \in outgoing[m], p \notin s
        PROVE  m \in {calls[i] : i \in 1 .. j - 1}
    <3>1. p \in Ids
      BY <1>1
    <3>2. PICK i \in 1 .. j : calls[i] = p
      BY <2>3, <3>1
    <3>3. m \in {calls[k] : k \in 1 .. i - 1}
      <4>1. m \in incoming[calls[i]]
        BY <1>1, <2>3, <3>1, <3>2
      <4>2. i \in DOMAIN calls
        BY <2>2, <3>2
      <4> QED
        BY <1>2, <4>1, <4>2
    <3>4. \A k \in 1 .. i - 1 : k \in 1 .. j - 1
      BY <2>2, <3>2
    <3> QED
      BY <3>3, <3>4
  <2>4. outgoing[n] \subseteq s
    <3>1. n \notin {calls[i] : i \in 1 .. j - 1}
      BY <1>2, <2>1
    <3> QED
      BY <1>2, <2>3, <3>1
  <2>5. Closed(outgoing, s)
    <3>1. {calls[i] : i \in 1 .. j - 1} \subseteq {calls[i] : i \in 1 .. j}
      BY <2>2
    <3> QED
      BY <2>3, <3>1 DEF Closed
  <2>6. n \in s
    BY <1>1, <1>2, <1>5, <2>4, <2>5, ReachLeast DEF Cyclic
  <2> QED
    BY <2>1, <2>2, <2>6
<1>6. C \cap R = {}
  <2>1. bad \subseteq Ids \ C
    BY <1>5 DEF Cyclic
  <2>2. Closed(outgoing, Ids \ C)
    BY <1>1, <1>2 DEF Closed
  <2> QED
    BY <1>4, <2>1, <2>2
<1>7. Ids \ C \subseteq R
  <2> DEFINE b == (Ids \ C) \ R
  <2>1. ASSUME NEW n \in b PROVE \E p \in b : n \in outgoing[p]
    <3>1. PICK p \in incoming[n] : p \notin C
      BY <1>2
    <3>2. p \in Ids /\ n \in outgoing[p]
      BY <1>1
    <3> QED
      BY <1>4, <3>1, <3>2 DEF Closed
  <2>2. b \cap bad = {}
    BY <1>4
  <2>3. b = {}
    <3> HIDE DEF b
    <3> QED
      BY <1>1, <2>1, <2>2, CycleBehind DEF b
  <2> QED
    BY <2>3
<1>8. Walks!ToSet(calls) = C
  BY DEF Walks!ToSet, Elements
<1> QED
  BY <1>1, <1>2, <1>3, <1>6, <1>7, <1>8, ReachableIs

(* topological_sorted_walk comes to a node after all its parents, once,    *)
(* and to every node but those on a cycle or after one.                    *)
THEOREM TopologicalWalks == AlgorithmsSpec => []TopologicalWalk
<1>1. AlgorithmsInit => TopologicalInv
  BY DEF AlgorithmsInit, Idle, TopologicalInv
<1>2. WalkInv /\ TopologicalInv => TopologicalWalk
  <2>1. WalkInv /\ TopologicalInv => Walks!TopologicalOrder
    BY DEF TopologicalInv, Walks!TopologicalOrder
  <2> QED
    BY <2>1, TopologicalEnd DEF TopologicalWalk
<1> QED
  BY <1>1, <1>2, TopologicalStep, WalkInvariance, PTL DEF AlgorithmsSpec

-------------------------------------------------------------------------------
(* bfs_walk and dfs_walk: what they reach.                                 *)

(* One round of a walk, whichever end of path it takes the node from.      *)
Round(node, rest, children) ==
  /\ path # <<>> /\ path \in Seq(Ids) /\ calls \in Seq(Ids) /\ visited = Elements(calls)
  /\ node \in Ids /\ rest \in Seq(Ids) /\ children \in Seq(Ids)
  /\ Len(path) \in Nat \ {0} /\ Len(rest) = Len(path) - 1
  /\ walk = "bfs" => node = path[1] /\ \A i \in 1 .. Len(rest) : rest[i] = path[i + 1]
  /\ walk = "dfs" => node = path[Len(path)] /\ \A i \in 1 .. Len(rest) : rest[i] = path[i]
  /\ Elements(path) = Elements(rest) \cup {node}
  /\ calls' = Append(calls, node)
  /\ visited' = visited \cup {node}
  /\ Elements(children) = outgoing[node] \ visited' /\ Distinct(children)
  /\ path' = rest \o children
  /\ UNCHANGED <<vars, walk>>

LEMMA RoundTaken ==
  ASSUME WalkInv, VisitInv, walk \in {"bfs", "dfs"}, Walks!WalkNext
  PROVE  \E node, rest, children : Round(node, rest, children)
<1>1. path \in Seq(Ids) /\ calls \in Seq(Ids) /\ visited = Elements(calls)
  BY DEF VisitInv
<1>2. Walks!Bfs \/ Walks!Dfs
  BY DEF Walks!WalkNext, Walks!Topological
<1>3. path # <<>> /\ Len(path) \in Nat \ {0} /\ DOMAIN path = 1 .. Len(path)
  BY <1>1, <1>2 DEF Walks!Bfs, Walks!Dfs
<1> DEFINE bfs == walk = "bfs"
           node == IF bfs THEN Head(path) ELSE Walks!Last(path)
           rest == IF bfs THEN Tail(path) ELSE Walks!Front(path)
<1>4. Walks!Take(node, rest)
  BY <1>2 DEF Walks!Bfs, Walks!Dfs
<1>5. /\ node \in Ids /\ rest \in Seq(Ids) /\ Len(rest) = Len(path) - 1
      /\ bfs => node = path[1] /\ \A i \in 1 .. Len(rest) : rest[i] = path[i + 1]
      /\ ~bfs => node = path[Len(path)] /\ \A i \in 1 .. Len(rest) : rest[i] = path[i]
  BY <1>1, <1>3 DEF Walks!Last, Walks!Front
<1> HIDE DEF node, rest
<1>6. Elements(path) = Elements(rest) \cup {node}
  <2>1. DOMAIN rest = 1 .. Len(path) - 1
    BY <1>3, <1>5
  <2>2. CASE bfs
    <3>1. \A i \in 2 .. Len(path) : i - 1 \in DOMAIN rest /\ rest[i - 1] = path[i]
      <4> SUFFICES ASSUME NEW i \in 2 .. Len(path)
                   PROVE  i - 1 \in DOMAIN rest /\ rest[i - 1] = path[i]
        OBVIOUS
      <4>1. i - 1 \in 1 .. Len(rest) /\ (i - 1) + 1 = i
        BY <1>3, <1>5
      <4> QED
        BY <1>5, <2>1, <2>2, <4>1
    <3>2. \A i \in DOMAIN rest : i + 1 \in DOMAIN path /\ rest[i] = path[i + 1]
      BY <1>3, <1>5, <2>1, <2>2
    <3>3. \A i \in DOMAIN path : i = 1 \/ i \in 2 .. Len(path)
      BY <1>3
    <3>4. 1 \in DOMAIN path
      BY <1>3
    <3>5. \A i \in DOMAIN path : path[i] \in Elements(rest) \cup {node}
      <4>1. ASSUME NEW i \in 2 .. Len(path) PROVE path[i] \in Elements(rest)
        BY <3>1 DEF Elements
      <4> QED
        BY <1>5, <2>2, <3>3, <4>1
    <3>6. \A i \in DOMAIN rest : rest[i] \in Elements(path)
      BY <3>2 DEF Elements
    <3>7. node \in Elements(path)
      BY <1>5, <2>2, <3>4 DEF Elements
    <3> QED
      BY <3>5, <3>6, <3>7 DEF Elements
  <2>3. CASE ~bfs
    <3>1. \A i \in DOMAIN path : i = Len(path) \/ i \in DOMAIN rest
      BY <1>3, <2>1
    <3>2. \A i \in DOMAIN rest : i \in DOMAIN path /\ rest[i] = path[i]
      BY <1>3, <1>5, <2>1, <2>3
    <3>3. Len(path) \in DOMAIN path
      BY <1>3
    <3> QED
      BY <1>5, <2>3, <3>1, <3>2, <3>3 DEF Elements
  <2> QED
    BY <2>2, <2>3
<1>7. /\ calls' = Append(calls, node) /\ visited' = visited \cup {node}
      /\ UNCHANGED <<vars, walk>>
  BY <1>4 DEF Walks!Take, Walks!vars, vars
<1>8. PICK children \in Walks!SetToSeqs(outgoing[node] \ visited') : path' = rest \o children
  BY <1>4 DEF Walks!Take
<1>9. outgoing[node] \ visited' \in SUBSET Ids /\ IsFiniteSet(outgoing[node] \ visited')
  BY <1>5, IdsFinite, FS_Subset DEF WalkInv, IInv, TypeOK
<1>10. Lists(children, outgoing[node] \ visited')
  BY <1>8, <1>9, SetToSeqsLists
<1>11. /\ Elements(children) = outgoing[node] \ visited' /\ Distinct(children)
       /\ children \in Seq(Ids)
  <2>1. /\ children \in Seq(outgoing[node] \ visited')
        /\ Elements(children) = outgoing[node] \ visited' /\ Distinct(children)
    BY <1>10, ListsElements
  <2> QED
    BY <1>9, <2>1
<1> QED
  BY <1>1, <1>3, <1>5, <1>6, <1>7, <1>8, <1>11 DEF Round

(* The states a walk can be in before a step into one of its states.       *)
LEMMA VisitSteps ==
  ASSUME WalkInv, VisitInv, [AlgorithmsNext]_state, walk' \in {"bfs", "dfs"}
  PROVE  \/ Walks!StartWalk(walk')
         \/ walk = walk' /\ \E node, rest, children : Round(node, rest, children)
         \/ UNCHANGED <<vars, walk, path, visited, excluded, calls>>
<1>1. \/ Walks!StartWalk(walk')
      \/ walk = walk' /\ Walks!WalkNext
      \/ UNCHANGED <<vars, walk, path, visited, excluded, calls>>
  BY WalkSteps
<1> QED
  BY <1>1, RoundTaken

LEMMA StartFacts ==
  ASSUME Walks!StartWalk(walk'), walk' \in {"bfs", "dfs"}
  PROVE  path' = <<0>> /\ visited' = {} /\ calls' = <<>> /\ UNCHANGED vars
  BY DEF Walks!StartWalk, Walks!StartNode, Walks!vars, vars

LEMMA VisitStep == WalkInv /\ VisitInv /\ [AlgorithmsNext]_state => VisitInv'
<1> SUFFICES ASSUME WalkInv, VisitInv, [AlgorithmsNext]_state, walk' \in {"bfs", "dfs"}
             PROVE  VisitInv'
  BY DEF VisitInv
<1>0. 0 \in Ids /\ outgoing \in [Ids -> SUBSET Ids]
  BY AlgorithmsAssumption, Assumption DEF WalkInv, IInv, TypeOK, Ids
<1> DEFINE R == Reach(outgoing, {0})
<1>r. 0 \in R /\ Closed(outgoing, R)
  BY <1>0, ReachLeast
<1>1. CASE Walks!StartWalk(walk')
  <2>1. /\ path' = <<0>> /\ visited' = {} /\ calls' = <<>> /\ outgoing' = outgoing
    BY <1>1, StartFacts DEF vars
  <2>2. Elements(path') = {0} /\ Elements(calls') = {} /\ path' \in Seq(Ids) /\ calls' \in Seq(Ids)
    BY <1>0, <2>1 DEF Elements
  <2> QED
    BY <1>r, <2>1, <2>2 DEF VisitInv
<1>2. ASSUME walk = walk', NEW node, NEW rest, NEW children, Round(node, rest, children)
      PROVE  VisitInv'
  <2>1. /\ node \in Ids /\ rest \in Seq(Ids) /\ children \in Seq(Ids) /\ calls \in Seq(Ids)
        /\ Elements(path) = Elements(rest) \cup {node}
        /\ calls' = Append(calls, node) /\ visited' = visited \cup {node}
        /\ Elements(children) = outgoing[node] \ visited'
        /\ path' = rest \o children
        /\ outgoing' = outgoing
    BY <1>2 DEF Round, vars
  <2>2. /\ visited = Elements(calls) /\ Elements(path) \cup visited \subseteq R
        /\ 0 \in Elements(path) \cup visited
        /\ \A n \in visited : outgoing[n] \subseteq visited \cup Elements(path)
    BY <1>2 DEF VisitInv
  <2>3. path' \in Seq(Ids) /\ Elements(path') = Elements(rest) \cup Elements(children)
    BY <2>1, ConcatElements, ConcatAt
  <2>4. calls' \in Seq(Ids) /\ Elements(calls') = visited'
    BY <2>1, <2>2, AppendFacts
  <2>5. Elements(path') \cup visited' \subseteq R
    BY <1>r, <2>1, <2>2, <2>3 DEF Closed
  <2>6. \A n \in visited' : outgoing[n] \subseteq visited' \cup Elements(path')
    BY <2>1, <2>2, <2>3
  <2> QED
    BY <2>1, <2>2, <2>3, <2>4, <2>5, <2>6 DEF VisitInv
<1>3. CASE UNCHANGED <<vars, walk, path, visited, excluded, calls>>
  BY <1>3 DEF VisitInv, vars
<1> QED
  BY <1>1, <1>2, <1>3, VisitSteps

LEMMA VisitsReachAll == WalkInv /\ VisitInv => Walks!ReachesAll
<1> SUFFICES ASSUME WalkInv, VisitInv, walk \in {"bfs", "dfs"}
             PROVE  /\ Walks!ToSet(calls) \subseteq Walks!Reachable({Walks!StartNode})
                    /\ Walks!Done => Walks!ToSet(calls) = Walks!Reachable({Walks!StartNode})
  BY DEF Walks!ReachesAll
<1>1. 0 \in Ids /\ outgoing \in [Ids -> SUBSET Ids]
  BY AlgorithmsAssumption, Assumption DEF WalkInv, IInv, TypeOK, Ids
<1>2. /\ Walks!Reachable({Walks!StartNode}) = Reach(outgoing, {0})
      /\ Walks!ToSet(calls) = visited
  BY ReachableIs DEF Walks!StartNode, Walks!ToSet, VisitInv, Elements
<1>3. visited \subseteq Reach(outgoing, {0})
  BY DEF VisitInv
<1>4. ASSUME path = <<>> PROVE Reach(outgoing, {0}) \subseteq visited
  <2>1. Elements(path) = {}
    BY <1>4 DEF Elements
  <2>2. 0 \in visited /\ Closed(outgoing, visited)
    BY <2>1 DEF VisitInv, Closed
  <2>3. visited \in SUBSET Ids
    BY <1>1, <1>3, ReachLeast
  <2> QED
    BY <1>1, <2>2, <2>3, ReachLeast
<1> QED
  BY <1>2, <1>3, <1>4 DEF Walks!Done

LEMMA VisitInit == AlgorithmsInit => VisitInv
  BY DEF AlgorithmsInit, Idle, VisitInv

(* bfs_walk and dfs_walk call func with the nodes that can be reached from *)
(* the first one, all of them and no other.                                *)
THEOREM VisitsReach == AlgorithmsSpec => []Walks!ReachesAll
  BY VisitInit, VisitStep, VisitsReachAll, WalkInvariance, PTL DEF AlgorithmsSpec

-------------------------------------------------------------------------------
(* dfs_walk: how often, and in which order.                                *)

(* Where the entries of path are after a round.                            *)
LEMMA PathRound ==
  ASSUME NEW node, NEW rest, NEW children, Round(node, rest, children)
  PROVE  /\ Len(rest) \in Nat /\ Len(path') \in Nat /\ DOMAIN path' = 1 .. Len(path')
         /\ Len(rest) <= Len(path')
         /\ \A i \in 1 .. Len(rest) : path'[i] = rest[i]
         /\ \A i \in Len(rest) + 1 .. Len(path') : path'[i] \in Elements(children)
         /\ \A c \in Elements(children) : \E i \in Len(rest) + 1 .. Len(path') : path'[i] = c
<1>1. rest \in Seq(Ids) /\ children \in Seq(Ids) /\ path' = rest \o children
  BY DEF Round
<1> DEFINE p == rest \o children
<1>2a. /\ p \in Seq(Ids) /\ Len(p) = Len(rest) + Len(children)
       /\ \A k \in 1 .. Len(rest) : p[k] = rest[k]
       /\ \A k \in 1 .. Len(children) : p[Len(rest) + k] = children[k]
       /\ \A k \in Len(rest) + 1 .. Len(rest) + Len(children) : p[k] = children[k - Len(rest)]
  BY <1>1, ConcatAt
<1> HIDE DEF p
<1>2. /\ path' \in Seq(Ids) /\ Len(path') = Len(rest) + Len(children)
      /\ \A k \in 1 .. Len(rest) : path'[k] = rest[k]
      /\ \A k \in 1 .. Len(children) : path'[Len(rest) + k] = children[k]
      /\ \A k \in Len(rest) + 1 .. Len(rest) + Len(children) : path'[k] = children[k - Len(rest)]
  BY <1>1, <1>2a DEF p
<1>3. /\ DOMAIN path' = 1 .. Len(path') /\ DOMAIN children = 1 .. Len(children)
      /\ Len(rest) \in Nat /\ Len(children) \in Nat
  BY <1>1, <1>2
<1>4. \A i \in Len(rest) + 1 .. Len(path') : path'[i] \in Elements(children)
  <2> SUFFICES ASSUME NEW i \in Len(rest) + 1 .. Len(path') PROVE path'[i] \in Elements(children)
    OBVIOUS
  <2>1. i - Len(rest) \in DOMAIN children /\ path'[i] = children[i - Len(rest)]
    BY <1>2, <1>3
  <2> QED
    BY <2>1 DEF Elements
<1>5. ASSUME NEW c \in Elements(children) PROVE \E i \in Len(rest) + 1 .. Len(path') : path'[i] = c
  <2>1. PICK k \in 1 .. Len(children) : children[k] = c
    BY <1>3 DEF Elements
  <2>2. Len(rest) + k \in Len(rest) + 1 .. Len(path') /\ path'[Len(rest) + k] = c
    BY <1>2, <1>3, <2>1
  <2> QED
    BY <2>2
<1>6. Len(path') \in Nat /\ Len(rest) <= Len(path') /\ \A i \in 1 .. Len(rest) : path'[i] = rest[i]
  BY <1>2, <1>3
<1> QED
  BY <1>3, <1>4, <1>5, <1>6

(* calls after a round, and which calls come to a node for the first time. *)
LEMMA CallsRound ==
  ASSUME NEW node, NEW rest, NEW children, Round(node, rest, children)
  PROVE  /\ Len(calls) \in Nat /\ DOMAIN calls = 1 .. Len(calls)
         /\ DOMAIN calls' = 1 .. Len(calls) + 1
         /\ \A k \in 1 .. Len(calls) : calls'[k] = calls[k]
         /\ calls'[Len(calls) + 1] = node
         /\ visited = {calls[k] : k \in 1 .. Len(calls)}
         /\ Walks!FirstCalls \subseteq 1 .. Len(calls)
         /\ Walks!FirstCalls' =
              Walks!FirstCalls \cup (IF node \in visited THEN {} ELSE {Len(calls) + 1})
<1>1. calls \in Seq(Ids) /\ visited = Elements(calls) /\ calls' = Append(calls, node) /\ node \in Ids
  BY DEF Round
<1>2. /\ Len(calls) \in Nat /\ DOMAIN calls = 1 .. Len(calls)
      /\ DOMAIN calls' = 1 .. Len(calls) + 1
      /\ \A k \in 1 .. Len(calls) : calls'[k] = calls[k]
      /\ calls'[Len(calls) + 1] = node
  BY <1>1, AppendFacts
<1>3. visited = {calls[k] : k \in 1 .. Len(calls)}
  BY <1>1, <1>2 DEF Elements
<1>4. Walks!FirstCalls \subseteq 1 .. Len(calls)
  BY <1>2 DEF Walks!FirstCalls
<1>5. ASSUME NEW i \in 1 .. Len(calls) PROVE i \in Walks!FirstCalls' <=> i \in Walks!FirstCalls
  BY <1>2 DEF Walks!FirstCalls
<1>6. Len(calls) + 1 \in Walks!FirstCalls' <=> node \notin visited
  BY <1>2, <1>3 DEF Walks!FirstCalls
<1>7. Walks!FirstCalls' \subseteq 1 .. Len(calls) + 1
  BY <1>2 DEF Walks!FirstCalls
<1>8. 1 .. Len(calls) + 1 = 1 .. Len(calls) \cup {Len(calls) + 1}
  BY <1>2
<1> QED
  BY <1>2, <1>3, <1>4, <1>5, <1>6, <1>7, <1>8

(* Where the entries of path were before a round of dfs_walk. A node that  *)
(* is taken again has no children left to store.                           *)
LEMMA DfsRound ==
  ASSUME WalkInv, VisitInv, StackInv, walk = "dfs",
         NEW node, NEW rest, NEW children, Round(node, rest, children)
  PROVE  /\ Len(path) \in Nat \ {0} /\ Len(rest) = Len(path) - 1 /\ DOMAIN path = 1 .. Len(path)
         /\ node = path[Len(path)] /\ \A i \in 1 .. Len(rest) : path'[i] = path[i]
         /\ visited' = visited \cup {node}
         /\ Elements(children) = outgoing[node] \ visited'
         /\ UNCHANGED <<vars, walk>>
         /\ node \in visited => visited' = visited /\ Elements(children) = {}
<1>1. /\ Len(path) \in Nat \ {0} /\ Len(rest) = Len(path) - 1 /\ DOMAIN path = 1 .. Len(path)
      /\ node = path[Len(path)] /\ \A i \in 1 .. Len(rest) : rest[i] = path[i]
      /\ visited' = visited \cup {node}
      /\ Elements(children) = outgoing[node] \ visited'
      /\ UNCHANGED <<vars, walk>>
  BY DEF Round
<1>2. \A i \in 1 .. Len(rest) : path'[i] = path[i]
  BY <1>1, PathRound
<1>3. ASSUME node \in visited PROVE outgoing[node] \subseteq visited
  <2>1. {path[j] : j \in Len(path) + 1 .. Len(path)} = {}
    BY <1>1
  <2>2. Len(path) \in DOMAIN path
    BY <1>1
  <2> QED
    BY <1>1, <1>3, <2>1, <2>2 DEF StackInv
<1> QED
  BY <1>1, <1>2, <1>3

LEMMA StackStep == WalkInv /\ VisitInv /\ StackInv /\ [AlgorithmsNext]_state => StackInv'
<1> SUFFICES ASSUME WalkInv, VisitInv, StackInv, [AlgorithmsNext]_state, walk' = "dfs"
             PROVE  StackInv'
  BY DEF StackInv
<1>1. CASE Walks!StartWalk(walk')
  <2>1. path' = <<0>> /\ visited' = {} /\ calls' = <<>>
    BY <1>1, StartFacts
  <2> QED
    BY <2>1 DEF StackInv
<1>2. ASSUME walk = "dfs", NEW node, NEW rest, NEW children, Round(node, rest, children)
      PROVE  StackInv'
  <2>1. /\ Len(path) \in Nat \ {0} /\ Len(rest) = Len(path) - 1 /\ DOMAIN path = 1 .. Len(path)
        /\ node = path[Len(path)] /\ \A i \in 1 .. Len(rest) : path'[i] = path[i]
        /\ visited' = visited \cup {node}
        /\ Elements(children) = outgoing[node] \ visited'
        /\ outgoing' = outgoing
    BY <1>2, DfsRound DEF vars
  <2>2. /\ Len(rest) \in Nat /\ Len(path') \in Nat /\ DOMAIN path' = 1 .. Len(path')
        /\ Len(rest) <= Len(path')
        /\ \A i \in Len(rest) + 1 .. Len(path') : path'[i] \in Elements(children)
        /\ \A c \in Elements(children) : \E i \in Len(rest) + 1 .. Len(path') : path'[i] = c
    BY <1>2, PathRound
  <2>3. calls' # <<>> /\ 0 \in visited'
    <3>1. calls' # <<>>
      <4>1. calls \in Seq(Ids) /\ node \in Ids /\ calls' = Append(calls, node)
        BY <1>2 DEF Round
      <4> QED
        BY <4>1
    <3>2. CASE calls = <<>>
      <4>1. path = <<0>>
        BY <1>2, <3>2 DEF StackInv
      <4>2. Len(path) = 1 /\ path[1] = 0
        BY <4>1
      <4> QED
        BY <2>1, <3>1, <4>2
    <3>3. CASE calls # <<>>
      BY <1>2, <2>1, <3>1, <3>3 DEF StackInv
    <3> QED
      BY <3>1, <3>2, <3>3
  <2>4. ASSUME NEW i \in DOMAIN path', path'[i] \in visited'
        PROVE  outgoing[path'[i]] \subseteq visited' \cup {path'[j] : j \in i + 1 .. Len(path')}
    <3>1. i \in 1 .. Len(rest) /\ path'[i] = path[i]
      BY <2>1, <2>2, <2>4
    <3>2. CASE path[i] \in visited
      <4>1. outgoing[path[i]] \subseteq visited \cup {path[j] : j \in i + 1 .. Len(path)}
        BY <1>2, <2>1, <3>1, <3>2 DEF StackInv
      <4>2. ASSUME NEW j \in i + 1 .. Len(path)
            PROVE  path[j] \in visited' \cup {path'[h] : h \in i + 1 .. Len(path')}
        <5>1. CASE j = Len(path)
          BY <2>1, <5>1
        <5>2. CASE j # Len(path)
          <6>1. j \in i + 1 .. Len(path') /\ j \in 1 .. Len(rest)
            BY <2>1, <2>2, <3>1, <5>2
          <6> QED
            BY <2>1, <6>1
        <5> QED
          BY <5>1, <5>2
      <4> QED
        BY <2>1, <3>1, <4>1, <4>2
    <3>3. CASE path[i] = node
      <4>1. ASSUME NEW c \in Elements(children)
            PROVE  c \in {path'[h] : h \in i + 1 .. Len(path')}
        <5>1. PICK h \in Len(rest) + 1 .. Len(path') : path'[h] = c
          BY <2>2
        <5>2. h \in i + 1 .. Len(path')
          BY <2>2, <3>1
        <5> QED
          BY <5>1, <5>2
      <4> QED
        BY <2>1, <3>1, <3>3, <4>1
    <3> QED
      BY <2>1, <2>4, <3>1, <3>2, <3>3
  <2> QED
    BY <2>1, <2>3, <2>4 DEF StackInv
<1>3. CASE UNCHANGED <<vars, walk, path, visited, excluded, calls>>
  BY <1>3 DEF StackInv, vars
<1> QED
  BY <1>1, <1>2, <1>3, VisitSteps

(* Counting: one entry more.                                               *)
LEMMA CountOneMore ==
  ASSUME NEW S, NEW s \in Seq(S), NEW t \in Seq(S), Len(t) = Len(s) + 1,
         \A k \in 1 .. Len(s) : t[k] = s[k], NEW n, NEW e, t[Len(t)] = e
  PROVE  /\ Count(s, n) \in Nat
         /\ Count(t, n) = IF e = n THEN Count(s, n) + 1 ELSE Count(s, n)
<1> DEFINE A == {i \in DOMAIN s : s[i] = n}
           B == {i \in DOMAIN t : t[i] = n}
<1>1. DOMAIN s = 1 .. Len(s) /\ DOMAIN t = 1 .. Len(t) /\ Len(s) \in Nat
  OBVIOUS
<1>2. IsFiniteSet(A)
  <2>1. IsFiniteSet(1 .. Len(s)) /\ A \in SUBSET (1 .. Len(s))
    BY <1>1, FS_Interval
  <2> QED
    BY <2>1, FS_Subset
<1> DEFINE a == Cardinality(A)
           b == Cardinality(B)
<1>c. Count(s, n) = a /\ Count(t, n) = b /\ a \in Nat
  BY <1>2, FS_CardinalityType DEF Count
<1>3. CASE t[Len(t)] = n
  <2>1. B = A \cup {Len(t)} /\ Len(t) \notin A
    BY <1>1, <1>3
  <2> QED
    BY <1>2, <1>3, <1>c, <2>1, FS_AddElement
<1>4. CASE t[Len(t)] # n
  <2>1. B = A
    BY <1>1, <1>4
  <2> QED
    BY <1>4, <1>c, <2>1
<1> QED
  BY <1>3, <1>4

(* Counting: entries appended that are all different.                      *)
LEMMA CountConcat ==
  ASSUME NEW S, NEW s \in Seq(S), NEW t \in Seq(S), Distinct(t), NEW n
  PROVE  Count(s \o t, n) = Count(s, n) + IF n \in Elements(t) THEN 1 ELSE 0
<1> DEFINE u == s \o t
           A == {i \in DOMAIN s : s[i] = n}
           B == {i \in DOMAIN u : u[i] = n}
<1>1. DOMAIN s = 1 .. Len(s) /\ DOMAIN t = 1 .. Len(t) /\ Len(s) \in Nat /\ Len(t) \in Nat
  OBVIOUS
<1>2. /\ Len(u) = Len(s) + Len(t) /\ DOMAIN u = 1 .. Len(s) + Len(t)
      /\ \A k \in 1 .. Len(s) : u[k] = s[k]
      /\ \A k \in 1 .. Len(t) : u[Len(s) + k] = t[k]
      /\ \A k \in Len(s) + 1 .. Len(s) + Len(t) : u[k] = t[k - Len(s)]
  BY ConcatAt
<1> HIDE DEF u
<1>3. IsFiniteSet(A)
  <2>1. IsFiniteSet(1 .. Len(s)) /\ A \in SUBSET (1 .. Len(s))
    BY <1>1, FS_Interval
  <2> QED
    BY <2>1, FS_Subset
<1> DEFINE a == Cardinality(A)
           b == Cardinality(B)
<1>c. Count(s, n) = a /\ Count(s \o t, n) = b /\ a \in Nat
  BY <1>3, FS_CardinalityType DEF Count, u
<1>4. \A k \in DOMAIN u : k \in DOMAIN s \/ (k - Len(s) \in DOMAIN t /\ u[k] = t[k - Len(s)])
  BY <1>1, <1>2
<1>5. CASE n \in Elements(t)
  <2>1. PICK h \in DOMAIN t : t[h] = n
    BY <1>5 DEF Elements
  <2>2. B = A \cup {Len(s) + h} /\ Len(s) + h \notin A
    <3>1. Len(s) + h \in B
      BY <1>1, <1>2, <2>1
    <3>2. A \subseteq B
      BY <1>1, <1>2
    <3>3. ASSUME NEW k \in B, k \notin A PROVE k = Len(s) + h
      <4>1. k - Len(s) \in DOMAIN t /\ t[k - Len(s)] = n
        BY <1>1, <1>2, <1>4, <3>3
      <4>2. k - Len(s) = h
        BY <2>1, <4>1 DEF Distinct
      <4> QED
        BY <1>1, <1>2, <3>3, <4>2
    <3>4. Len(s) + h \notin A
      BY <1>1, <2>1
    <3>5. A \cup {Len(s) + h} \subseteq B
      BY <3>1, <3>2
    <3>6. B \subseteq A \cup {Len(s) + h}
      BY <3>3
    <3> HIDE DEF A, B
    <3> QED
      BY <3>4, <3>5, <3>6
  <2>3. Cardinality(A \cup {Len(s) + h}) = Cardinality(A) + 1
    <3> HIDE DEF A
    <3> QED
      BY <1>3, <2>2, FS_AddElement
  <2>4. b = a + 1
    BY <2>2, <2>3
  <2> HIDE DEF a, b
  <2> QED
    BY <1>5, <1>c, <2>4
<1>6. CASE n \notin Elements(t)
  <2>1. \A k \in DOMAIN t : t[k] # n
    BY <1>6 DEF Elements
  <2>2. B = A
    BY <1>1, <1>2, <1>4, <2>1
  <2>3. b = a
    BY <2>2
  <2> HIDE DEF a, b
  <2> QED
    BY <1>6, <1>c, <2>3
<1> QED
  BY <1>5, <1>6

LEMMA CountStep ==
  ASSUME WalkInv, VisitInv, StackInv, CountInv, [AlgorithmsNext]_state
  PROVE  CountInv'
<1> SUFFICES ASSUME walk' = "dfs", NEW n \in Ids
             PROVE  Count(calls', n) + Count(path', n) <=
                      IF n = 0 THEN 1 ELSE Cardinality((incoming'[n] \cap visited') \ {n})
  BY DEF CountInv
<1>0. incoming \in [Ids -> SUBSET Ids] /\ \A u, v \in Ids : v \in outgoing[u] <=> u \in incoming[v]
  BY DEF WalkInv, IInv, TypeOK, EdgesMirror
<1>1. CASE Walks!StartWalk(walk')
  <2>1. path' = <<0>> /\ calls' = <<>>
    BY <1>1, StartFacts
  <2>2. Count(calls', n) = 0
    <3>1. {i \in DOMAIN calls' : calls'[i] = n} = {}
      BY <2>1
    <3> QED
      BY <3>1, FS_EmptySet DEF Count
  <2>3. Count(path', n) = IF 0 = n THEN 1 ELSE 0
    <3> DEFINE none == <<>>
               first == <<0>>
    <3>1. /\ none \in Seq({0}) /\ first \in Seq({0}) /\ Len(first) = Len(none) + 1
          /\ first[Len(first)] = 0 /\ \A k \in 1 .. Len(none) : first[k] = none[k]
      OBVIOUS
    <3>2. path' = first /\ calls' = none
      BY <2>1
    <3> HIDE DEF none, first
    <3>3. Count(first, n) = IF 0 = n THEN Count(none, n) + 1 ELSE Count(none, n)
      BY <3>1, CountOneMore
    <3> QED
      BY <2>2, <3>2, <3>3
  <2>5. n # 0 => Cardinality((incoming'[n] \cap visited') \ {n}) = 0
    <3>1. visited' = {}
      BY <1>1, StartFacts
    <3>2. (incoming'[n] \cap visited') \ {n} = {}
      BY <3>1
    <3> QED
      BY <3>2, FS_EmptySet
  <2> QED
    BY <2>2, <2>3, <2>5
<1>2. ASSUME walk = "dfs", NEW node, NEW rest, NEW children, Round(node, rest, children)
      PROVE  Count(calls', n) + Count(path', n) <=
               IF n = 0 THEN 1 ELSE Cardinality((incoming'[n] \cap visited') \ {n})
  <2> DEFINE cc == Count(calls, n)
             cp == Count(path, n)
             cr == Count(rest, n)
             new == IF n \in Elements(children) THEN 1 ELSE 0
             before == (incoming[n] \cap visited) \ {n}
             after == (incoming[n] \cap visited') \ {n}
  <2>1. /\ Len(path) \in Nat \ {0} /\ Len(rest) = Len(path) - 1
        /\ node = path[Len(path)]
        /\ visited' = visited \cup {node}
        /\ Elements(children) = outgoing[node] \ visited'
        /\ incoming' = incoming
        /\ node \in visited => visited' = visited /\ Elements(children) = {}
    BY <1>2, DfsRound DEF vars
  <2>2. /\ path \in Seq(Ids) /\ rest \in Seq(Ids) /\ children \in Seq(Ids) /\ calls \in Seq(Ids)
        /\ node \in Ids /\ Distinct(children) /\ path' = rest \o children
        /\ calls' = Append(calls, node) /\ visited = Elements(calls)
        /\ \A i \in 1 .. Len(rest) : rest[i] = path[i]
    BY <1>2 DEF Round
  <2>3. cc \in Nat /\ Count(calls', n) = IF node = n THEN cc + 1 ELSE cc
    <3>1. /\ calls' \in Seq(Ids) /\ Len(calls') = Len(calls) + 1
          /\ \A k \in 1 .. Len(calls) : calls'[k] = calls[k]
          /\ calls'[Len(calls')] = node
      BY <2>2, AppendFacts
    <3>2. calls \in Seq(Ids)
      BY <2>2
    <3> QED
      BY <3>1, <3>2, CountOneMore
  <2>4. cr \in Nat /\ cp = IF node = n THEN cr + 1 ELSE cr
    <3>1. /\ Len(path) = Len(rest) + 1 /\ path[Len(path)] = node
          /\ \A k \in 1 .. Len(rest) : path[k] = rest[k]
      BY <2>1, <2>2
    <3>2. path \in Seq(Ids) /\ rest \in Seq(Ids)
      BY <2>2
    <3> QED
      BY <3>1, <3>2, CountOneMore
  <2>5. Count(path', n) = cr + new
    BY <2>2, CountConcat
  <2>6. cc + cp <= IF n = 0 THEN 1 ELSE Cardinality(before)
    BY <1>2 DEF CountInv
  <2> HIDE DEF cc, cp, cr
  <2>7. Count(calls', n) + Count(path', n) = cc + cp + new
    BY <2>3, <2>4, <2>5
  <2>8. /\ IsFiniteSet(before) /\ IsFiniteSet(after)
        /\ Cardinality(before) \in Nat /\ Cardinality(after) \in Nat
    <3>1. before \in SUBSET Ids /\ after \in SUBSET Ids
      BY <1>0
    <3>2. IsFiniteSet(before) /\ IsFiniteSet(after)
      BY <3>1, IdsFinite, FS_Subset
    <3> QED
      BY <3>2, FS_CardinalityType
  <2>9. CASE n \notin Elements(children)
    <3>1. Cardinality(before) <= Cardinality(after)
      BY <2>1, <2>8, FS_Subset
    <3> HIDE DEF before, after
    <3> QED
      BY <2>1, <2>3, <2>4, <2>6, <2>7, <2>8, <2>9, <3>1 DEF after
  <2>10. CASE n \in Elements(children)
    <3>1. n \in outgoing[node] /\ n \notin visited' /\ node \notin visited /\ n # node
      BY <2>1, <2>10
    <3>2. n # 0
      <4>1. calls = <<>> => Len(path) = 1 /\ path[1] = 0
        BY <1>2 DEF StackInv
      <4>2. calls = <<>> => node = 0
        BY <2>1, <4>1
      <4>3. calls # <<>> => 0 \in visited
        BY <1>2 DEF StackInv
      <4> QED
        BY <2>1, <3>1, <4>2, <4>3
    <3>3. after = before \cup {node} /\ node \notin before
      BY <1>0, <2>1, <2>2, <3>1
    <3>4. Cardinality(after) = Cardinality(before) + 1
      BY <2>8, <3>3, FS_AddElement
    <3> HIDE DEF before, after
    <3> QED
      BY <2>1, <2>3, <2>4, <2>6, <2>7, <2>8, <2>10, <3>2, <3>4 DEF after
  <2> QED
    BY <2>9, <2>10
<1>3. CASE UNCHANGED <<vars, walk, path, visited, excluded, calls>>
  BY <1>3 DEF CountInv, vars
<1> QED
  BY <1>1, <1>2, <1>3, VisitSteps

(* dfs_walk comes back to a node no more than once for every edge to it.   *)
LEMMA CountOnce == WalkInv /\ VisitInv /\ CountInv => Walks!OncePerEdge
<1> SUFFICES ASSUME WalkInv, VisitInv, CountInv, walk = "dfs", NEW n \in Walks!ToSet(calls)
             PROVE  Walks!Cardinality({i \in DOMAIN calls : calls[i] = n}) <=
                      IF n = Walks!StartNode THEN 1 ELSE Walks!Cardinality(incoming[n] \ {n})
  BY DEF Walks!OncePerEdge
<1>1. n \in Ids /\ calls \in Seq(Ids) /\ path \in Seq(Ids)
  BY DEF VisitInv, Walks!ToSet
<1> DEFINE before == (incoming[n] \cap visited) \ {n}
<1>2. Count(calls, n) + Count(path, n) <= IF n = 0 THEN 1 ELSE Cardinality(before)
  BY <1>1 DEF CountInv
<1>3. ASSUME NEW s \in Seq(Ids) PROVE Count(s, n) \in Nat
  <2>1. {i \in DOMAIN s : s[i] = n} \in SUBSET (1 .. Len(s)) /\ IsFiniteSet(1 .. Len(s))
    BY FS_Interval
  <2> QED
    BY <2>1, FS_Subset, FS_CardinalityType DEF Count
<1>4. incoming[n] \ {n} \in SUBSET Ids
  BY <1>1 DEF WalkInv, IInv, TypeOK
<1>5. IsFiniteSet(incoming[n] \ {n}) /\ Cardinality(incoming[n] \ {n}) \in Nat
  BY <1>4, IdsFinite, FS_Subset, FS_CardinalityType
<1>6. Cardinality(before) <= Cardinality(incoming[n] \ {n}) /\ Cardinality(before) \in Nat
  BY <1>5, FS_Subset, FS_CardinalityType
<1>7. Count(calls, n) <= IF n = 0 THEN 1 ELSE Cardinality(incoming[n] \ {n})
  <2> HIDE DEF before
  <2> QED
    BY <1>1, <1>2, <1>3, <1>5, <1>6
<1> QED
  BY <1>7, SameCardinality DEF Count, Walks!StartNode

(* The order of dfs_walk.                                                  *)
LEMMA DepthStep ==
  ASSUME WalkInv, VisitInv, StackInv, DepthInv, [AlgorithmsNext]_state
  PROVE  DepthInv'
<1> SUFFICES ASSUME walk' = "dfs" PROVE DepthInv'
  BY DEF DepthInv
<1>1. CASE Walks!StartWalk(walk')
  <2>1. Walks!FirstCalls' = {}
    BY <1>1, StartFacts DEF Walks!FirstCalls
  <2> QED
    BY <2>1 DEF DepthInv
<1>2. ASSUME walk = "dfs", NEW node, NEW rest, NEW children, Round(node, rest, children)
      PROVE  DepthInv'
  <2> DEFINE F == Walks!FirstCalls
             N == Len(calls) + 1
  <2>1. /\ Len(path) \in Nat \ {0} /\ Len(rest) = Len(path) - 1 /\ DOMAIN path = 1 .. Len(path)
        /\ node = path[Len(path)] /\ \A i \in 1 .. Len(rest) : path'[i] = path[i]
        /\ visited' = visited \cup {node}
        /\ Elements(children) = outgoing[node] \ visited'
        /\ outgoing' = outgoing
        /\ node \in visited => visited' = visited /\ Elements(children) = {}
    BY <1>2, DfsRound DEF vars
  <2>2. /\ Len(rest) \in Nat /\ Len(path') \in Nat /\ DOMAIN path' = 1 .. Len(path')
        /\ Len(rest) <= Len(path')
        /\ \A i \in Len(rest) + 1 .. Len(path') : path'[i] \in Elements(children)
        /\ \A c \in Elements(children) : \E i \in Len(rest) + 1 .. Len(path') : path'[i] = c
    BY <1>2, PathRound
  <2>3. /\ Len(calls) \in Nat
        /\ \A k \in 1 .. Len(calls) : calls'[k] = calls[k]
        /\ calls'[N] = node
        /\ visited = {calls[k] : k \in 1 .. Len(calls)}
        /\ F \subseteq 1 .. Len(calls)
        /\ Walks!FirstCalls' = F \cup (IF node \in visited THEN {} ELSE {N})
    BY <1>2, CallsRound
  <2>4. \A a \in F : \A n \in outgoing[calls[a]] \ visited :
          \E i \in DOMAIN path :
            /\ path[i] = n
            /\ \A j \in i .. Len(path) : \E d \in F : d >= a /\ path[j] \in outgoing[calls[d]]
    BY <1>2 DEF DepthInv, Waits
  <2>5. \A a, b \in F :
          a < b /\ ~(outgoing[calls[a]] \subseteq {calls[k] : k \in 1 .. b}) =>
            \E d \in F \cap a .. b - 1 : calls[b] \in outgoing[calls[d]]
    BY <1>2 DEF DepthInv, Deeper
  <2> HIDE DEF F
  <2>6. ASSUME NEW a \in Walks!FirstCalls', NEW n \in outgoing[calls'[a]] \ visited'
        PROVE  \E i \in DOMAIN path' :
                 /\ path'[i] = n
                 /\ \A j \in i .. Len(path') :
                      \E d \in Walks!FirstCalls' : d >= a /\ path'[j] \in outgoing[calls'[d]]
    <3>1. CASE a \in F
      <4>1. a \in 1 .. Len(calls) /\ n \in outgoing[calls[a]] \ visited /\ n # node
        BY <2>1, <2>3, <2>6, <3>1
      <4>2. PICK i \in DOMAIN path :
              /\ path[i] = n
              /\ \A j \in i .. Len(path) : \E d \in F : d >= a /\ path[j] \in outgoing[calls[d]]
        BY <2>4, <3>1, <4>1
      <4>3. i \in 1 .. Len(rest) /\ i \in DOMAIN path' /\ path'[i] = n
        BY <2>1, <2>2, <4>1, <4>2
      <4>4. ASSUME NEW j \in i .. Len(path')
            PROVE  \E d \in Walks!FirstCalls' : d >= a /\ path'[j] \in outgoing[calls'[d]]
        <5>1. CASE j <= Len(rest)
          <6>1. j \in i .. Len(path) /\ j \in 1 .. Len(rest)
            BY <2>1, <2>2, <4>3, <5>1
          <6>2. PICK d \in F : d >= a /\ path[j] \in outgoing[calls[d]]
            BY <4>2, <6>1
          <6> QED
            BY <2>1, <2>3, <6>1, <6>2
        <5>2. CASE ~(j <= Len(rest))
          <6>1. path'[j] \in outgoing[node] /\ node \notin visited
            BY <2>1, <2>2, <4>3, <5>2
          <6>2. N \in Walks!FirstCalls' /\ N >= a
            BY <2>3, <4>1, <6>1
          <6> QED
            BY <2>3, <6>1, <6>2
        <5> QED
          BY <5>1, <5>2
      <4> QED
        BY <4>3, <4>4
    <3>2. CASE a \notin F
      <4>1. a = N /\ node \notin visited /\ n \in Elements(children)
        BY <2>1, <2>3, <2>6, <3>2
      <4>2. PICK i \in Len(rest) + 1 .. Len(path') : path'[i] = n
        BY <2>2, <4>1
      <4>3. \A j \in i .. Len(path') : path'[j] \in outgoing[calls'[N]]
        BY <2>1, <2>2, <2>3
      <4>4. N >= a /\ i \in DOMAIN path'
        BY <2>2, <2>3, <4>1
      <4> QED
        BY <2>6, <4>1, <4>2, <4>3, <4>4
    <3> QED
      BY <3>1, <3>2
  <2>7. ASSUME NEW a \in Walks!FirstCalls', NEW b \in Walks!FirstCalls', a < b,
               ~(outgoing[calls'[a]] \subseteq {calls'[k] : k \in 1 .. b})
        PROVE  \E d \in Walks!FirstCalls' \cap a .. b - 1 : calls'[b] \in outgoing[calls'[d]]
    <3>1. a \in F /\ a \in 1 .. Len(calls) /\ (b \in F \/ b = N)
      BY <2>3, <2>7
    <3>2. CASE b \in F
      <4>1. b \in 1 .. Len(calls) /\ {calls'[k] : k \in 1 .. b} = {calls[k] : k \in 1 .. b}
        BY <2>3, <3>2
      <4>2. PICK d \in F \cap a .. b - 1 : calls[b] \in outgoing[calls[d]]
        BY <2>3, <2>5, <2>7, <3>1, <3>2, <4>1
      <4>3. d \in Walks!FirstCalls' /\ d \in 1 .. Len(calls)
        BY <2>3, <4>2
      <4> QED
        BY <2>3, <4>1, <4>2, <4>3
    <3>3. CASE b = N /\ b \notin F
      <4>1. node \notin visited
        BY <2>3, <3>3
      <4>2. {calls'[k] : k \in 1 .. b} = visited'
        <5>1. 1 .. b = 1 .. Len(calls) \cup {N}
          BY <2>3, <3>3
        <5>2. {calls'[k] : k \in 1 .. b} = {calls'[k] : k \in 1 .. Len(calls)} \cup {calls'[N]}
          BY <5>1
        <5>3. {calls'[k] : k \in 1 .. Len(calls)} = {calls[k] : k \in 1 .. Len(calls)}
          BY <2>3
        <5> QED
          BY <2>1, <2>3, <5>2, <5>3
      <4>3. PICK n \in outgoing[calls[a]] : n \notin visited'
        BY <2>3, <2>7, <3>1, <4>2
      <4>4. PICK i \in DOMAIN path :
              \A j \in i .. Len(path) : \E d \in F : d >= a /\ path[j] \in outgoing[calls[d]]
        BY <2>1, <2>4, <3>1, <4>3
      <4>5. PICK d \in F : d >= a /\ node \in outgoing[calls[d]]
        BY <2>1, <4>4
      <4>6. d \in 1 .. Len(calls) /\ d \in a .. b - 1 /\ d \in Walks!FirstCalls'
        BY <2>3, <3>1, <3>3, <4>5
      <4> QED
        BY <2>3, <3>3, <4>5, <4>6
    <3> QED
      BY <3>1, <3>2, <3>3
  <2>8. outgoing' = outgoing
    BY <2>1
  <2>9. \A a \in Walks!FirstCalls' : \A n \in outgoing'[calls'[a]] \ visited' : Waits(a, n)'
    BY <2>6, <2>8 DEF Waits
  <2>10. \A a, b \in Walks!FirstCalls' :
           a < b /\ ~(outgoing'[calls'[a]] \subseteq {calls'[k] : k \in 1 .. b}) => Deeper(a, b)'
    BY <2>7, <2>8 DEF Deeper
  <2> QED
    BY <2>9, <2>10 DEF DepthInv
<1>3. CASE UNCHANGED <<vars, walk, path, visited, excluded, calls>>
  BY <1>3 DEF DepthInv, Waits, Deeper, Walks!FirstCalls, vars
<1> QED
  BY <1>1, <1>2, <1>3, VisitSteps

LEMMA DepthOrder == VisitInv /\ DepthInv => Walks!DepthFirst
<1> SUFFICES ASSUME VisitInv, DepthInv, walk = "dfs",
                    NEW a \in Walks!FirstCalls, NEW b \in Walks!FirstCalls, NEW c \in Walks!FirstCalls,
                    a < b, b < c, calls[c] \in outgoing[calls[a]]
             PROVE  \E d \in Walks!FirstCalls \cap a .. b - 1 : calls[b] \in outgoing[calls[d]]
  BY DEF Walks!DepthFirst
<1>1. b \in DOMAIN calls /\ c \in DOMAIN calls /\ \A k \in 1 .. c - 1 : calls[k] # calls[c]
  BY DEF Walks!FirstCalls
<1>2. calls \in Seq(Ids)
  BY DEF VisitInv
<1>3. calls[c] \notin {calls[k] : k \in 1 .. b}
  BY <1>1, <1>2
<1> QED
  BY <1>3 DEF DepthInv, Deeper

-------------------------------------------------------------------------------
(* bfs_walk: the order.                                                    *)

LEMMA NearFacts ==
  ASSUME NEW out \in [Ids -> SUBSET Ids]
  PROVE  /\ Near(out, 0) = {0}
         /\ \A l \in Nat : /\ Near(out, l) \subseteq Ids
                           /\ Near(out, l + 1) = Near(out, l) \cup UNION {out[n] : n \in Near(out, l)}
<1> DEFINE w == Steps(out, {0})
<1>0. {0} \in SUBSET Ids
  BY AlgorithmsAssumption, Assumption DEF Ids
<1>1. /\ w \in [0 .. MaxNodes -> SUBSET Ids] /\ w[0] = {0}
      /\ \A k \in 0 .. MaxNodes - 1 : w[k + 1] = w[k] \cup UNION {out[n] : n \in w[k]}
      /\ Closed(out, w[MaxNodes])
  BY <1>0, StepsEquations, StepsEnd
<1> HIDE DEF w
<1>2. \A l \in Nat : Near(out, l) = w[IF l <= MaxNodes THEN l ELSE MaxNodes]
  BY DEF Near, w
<1>3. Near(out, 0) = {0}
  BY <1>1, <1>2, Assumption
<1>4. ASSUME NEW l \in Nat
      PROVE  /\ Near(out, l) \subseteq Ids
             /\ Near(out, l + 1) = Near(out, l) \cup UNION {out[n] : n \in Near(out, l)}
  <2>1. CASE l < MaxNodes
    <3>1. Near(out, l) = w[l] /\ Near(out, l + 1) = w[l + 1] /\ l \in 0 .. MaxNodes - 1
      BY <1>2, <2>1, Assumption
    <3> QED
      BY <1>1, <3>1, Assumption
  <2>2. CASE ~(l < MaxNodes)
    <3>1. Near(out, l) = w[MaxNodes] /\ Near(out, l + 1) = w[MaxNodes]
      BY <1>2, <2>2, Assumption
    <3> QED
      BY <1>1, <3>1, Assumption DEF Closed
  <2> QED
    BY <2>1, <2>2
<1> QED
  BY <1>3, <1>4

LEMMA NearGrows ==
  ASSUME NEW out \in [Ids -> SUBSET Ids], NEW l \in Nat, NEW k \in 0 .. l
  PROVE  Near(out, k) \subseteq Near(out, l)
<1>0. {0} \in SUBSET Ids
  BY AlgorithmsAssumption, Assumption DEF Ids
<1> DEFINE j == IF k <= MaxNodes THEN k ELSE MaxNodes
           m == IF l <= MaxNodes THEN l ELSE MaxNodes
<1>1. m \in 0 .. MaxNodes /\ j \in 0 .. m
  BY Assumption
<1>2. Steps(out, {0})[j] \subseteq Steps(out, {0})[m]
  <2> HIDE DEF j, m
  <2> QED
    BY <1>0, <1>1, StepsGrow
<1> QED
  BY <1>2 DEF Near

(* The first level a node is on is its distance.                           *)
LEMMA DistIs ==
  ASSUME NEW out \in [Ids -> SUBSET Ids], NEW l \in Nat, NEW n \in Near(out, l)
  PROVE  /\ Dist(out, n) \in Nat /\ Dist(out, n) <= l
         /\ l > 0 /\ n \notin Near(out, l - 1) => Dist(out, n) = l
<1> DEFINE w == Steps(out, {0})
           ok(k) == n \in w[k] /\ (k > 0 => n \notin w[k - 1])
           S == {k \in 0 .. MaxNodes : n \in w[k]}
<1>1. /\ \A k \in 0 .. MaxNodes : Near(out, k) = w[k]
      /\ \A k \in Nat : k > MaxNodes => Near(out, k) = w[MaxNodes]
  BY Assumption DEF Near
<1>2. S # {} /\ S \subseteq Nat
  BY <1>1, Assumption
<1>3. PICK m \in S : \A k \in S : m <= k
  BY <1>2, LeastNatural
<1>4. m \in 0 .. MaxNodes /\ ok(m)
  BY <1>3, Assumption
<1>5. Dist(out, n) = CHOOSE k \in 0 .. MaxNodes : ok(k)
  BY DEF Dist
<1>6. Dist(out, n) \in 0 .. MaxNodes /\ ok(Dist(out, n))
  <2> HIDE DEF ok
  <2> QED
    BY <1>4, <1>5
<1> DEFINE d == Dist(out, n)
<1> HIDE DEF w, d
<1>7. d \in Nat /\ d <= MaxNodes
  BY <1>6, Assumption DEF d
<1>8. d <= l
  <2> SUFFICES ASSUME l < d PROVE FALSE
    BY <1>7
  <2>1. d - 1 \in Nat /\ l \in 0 .. d - 1 /\ d - 1 \in 0 .. MaxNodes
    BY <1>7, Assumption
  <2>2. n \in Near(out, d - 1)
    BY <2>1, NearGrows
  <2> QED
    BY <1>1, <1>6, <1>7, <2>1, <2>2 DEF d
<1>9. ASSUME l > 0, n \notin Near(out, l - 1), d # l PROVE FALSE
  <2>1. l - 1 \in Nat /\ d \in 0 .. l - 1
    BY <1>7, <1>8, <1>9
  <2>2. n \in Near(out, d)
    BY <1>1, <1>6, <1>7 DEF d
  <2> QED
    BY <1>9, <2>1, <2>2, NearGrows
<1> QED
  BY <1>7, <1>8, <1>9 DEF d

(* When the nodes of a level are all taken, those of the next are in path. *)
LEMMA NextLevel ==
  ASSUME WalkInv, VisitInv, walk = "bfs", path # <<>>,
         NEW l \in Nat, NEW k \in Nat, k <= Len(path), Level(l, k)
  PROVE  \E m \in Nat, h \in Nat : 1 <= h /\ h <= Len(path) /\ Level(m, h)
<1>1. /\ path \in Seq(Ids) /\ \A n \in visited : outgoing[n] \subseteq visited \cup Elements(path)
      /\ outgoing \in [Ids -> SUBSET Ids]
  BY DEF VisitInv, WalkInv, IInv, TypeOK
<1>2. Len(path) \in Nat \ {0} /\ DOMAIN path = 1 .. Len(path)
  BY <1>1
<1>3. CASE k # 0
  BY <1>3
<1>4. CASE k = 0
  <2>1. /\ \A i \in 1 .. Len(path) : path[i] \in Near(outgoing, l + 1)
        /\ Near(outgoing, l) \subseteq visited
        /\ visited \subseteq Near(outgoing, l)
    BY <1>2, <1>4 DEF Level
  <2>2. Near(outgoing, l + 1) = Near(outgoing, l) \cup UNION {outgoing[n] : n \in Near(outgoing, l)}
    BY <1>1, NearFacts
  <2>3. Elements(path) = {path[i] : i \in 1 .. Len(path)}
    BY <1>2 DEF Elements
  <2>4. Near(outgoing, l + 1) \subseteq visited \cup {path[i] : i \in 1 .. Len(path)}
    BY <1>1, <2>1, <2>2, <2>3
  <2>5. (l + 1) - 1 = l /\ visited \subseteq Near(outgoing, l + 1)
    BY <2>1, <2>2
  <2>6. Level(l + 1, Len(path))
    BY <1>2, <2>1, <2>4, <2>5 DEF Level
  <2> QED
    BY <1>2, <2>6
<1> QED
  BY <1>3, <1>4

LEMMA BreadthStep ==
  ASSUME WalkInv, VisitInv, BreadthInv, [AlgorithmsNext]_state
  PROVE  BreadthInv'
<1> SUFFICES ASSUME walk' = "bfs" PROVE BreadthInv'
  BY DEF BreadthInv
<1>0. outgoing \in [Ids -> SUBSET Ids]
  BY DEF WalkInv, IInv, TypeOK
<1>1. CASE Walks!StartWalk(walk')
  <2>1. path' = <<0>> /\ visited' = {} /\ calls' = <<>> /\ outgoing' = outgoing
    BY <1>1, StartFacts DEF vars
  <2>2. Walks!FirstCalls' = {}
    BY <2>1 DEF Walks!FirstCalls
  <2>3. Level(0, 1)'
    <3>1. Near(outgoing', 0) = {0}
      BY <1>0, <2>1, NearFacts
    <3>2. Len(path') = 1 /\ path'[1] = 0
      BY <2>1
    <3>3. {path'[i] : i \in 1 .. 1} = {0}
      BY <3>2
    <3> QED
      BY <2>1, <3>1, <3>2, <3>3 DEF Level
  <2>4. 1 <= Len(path')
    BY <2>1
  <2> QED
    BY <2>2, <2>3, <2>4 DEF BreadthInv
<1>2. ASSUME walk = "bfs", NEW node, NEW rest, NEW children, Round(node, rest, children)
      PROVE  BreadthInv'
  <2>1. /\ path # <<>> /\ path \in Seq(Ids)
        /\ Len(path) \in Nat \ {0} /\ Len(rest) = Len(path) - 1 /\ DOMAIN path = 1 .. Len(path)
        /\ node = path[1] /\ \A i \in 1 .. Len(rest) : rest[i] = path[i + 1]
        /\ visited' = visited \cup {node}
        /\ Elements(children) = outgoing[node] \ visited'
        /\ outgoing' = outgoing
    BY <1>2 DEF Round, vars
  <2>2. /\ Len(path') \in Nat /\ Len(rest) <= Len(path')
        /\ \A i \in 1 .. Len(rest) : path'[i] = rest[i]
        /\ \A i \in Len(rest) + 1 .. Len(path') : path'[i] \in Elements(children)
    BY <1>2, PathRound
  <2>3. PICK l \in Nat, k \in Nat : 1 <= k /\ k <= Len(path) /\ Level(l, k)
    BY <1>2, <2>1, NextLevel DEF BreadthInv
  <2>4. /\ \A i \in 1 .. k : path[i] \in Near(outgoing, l)
        /\ \A i \in k + 1 .. Len(path) : path[i] \in Near(outgoing, l + 1)
        /\ l > 0 => Near(outgoing, l - 1) \subseteq visited
        /\ Near(outgoing, l) \subseteq visited \cup {path[i] : i \in 1 .. k}
        /\ visited \subseteq Near(outgoing, l)
    BY <2>3 DEF Level
  <2>5. node \in Near(outgoing, l)
    BY <2>1, <2>3, <2>4
  <2>6. Elements(children) \subseteq Near(outgoing, l + 1)
    <3>1. Near(outgoing, l + 1) = Near(outgoing, l) \cup UNION {outgoing[n] : n \in Near(outgoing, l)}
      BY <1>0, NearFacts
    <3>2. outgoing[node] \subseteq Near(outgoing, l + 1)
      BY <2>5, <3>1
    <3> QED
      BY <2>1, <3>2
  <2>7. Level(l, k - 1)'
    <3>1. ASSUME NEW i \in 1 .. k - 1
          PROVE  i + 1 \in 1 .. k /\ path'[i] = path[i + 1]
      BY <2>1, <2>2, <2>3
    <3>2. ASSUME NEW i \in k .. Len(path')
          PROVE  path'[i] \in Near(outgoing, l + 1)
      <4>1. CASE i \in 1 .. Len(rest)
        <5>1. i + 1 \in k + 1 .. Len(path) /\ path'[i] = path[i + 1]
          BY <2>1, <2>2, <2>3, <4>1
        <5> QED
          BY <2>4, <5>1
      <4>2. CASE i \notin 1 .. Len(rest)
        <5>1. i \in Len(rest) + 1 .. Len(path')
          BY <2>1, <2>2, <2>3, <4>2
        <5> QED
          BY <2>2, <2>6, <5>1
      <4> QED
        BY <4>1, <4>2
    <3>3. ASSUME NEW i \in 2 .. k PROVE path[i] \in {path'[j] : j \in 1 .. k - 1}
      <4>1. i - 1 \in 1 .. k - 1 /\ (i - 1) + 1 = i
        BY <2>3
      <4> QED
        BY <3>1, <4>1
    <3>4. {path[i] : i \in 1 .. k} \subseteq {node} \cup {path'[j] : j \in 1 .. k - 1}
      BY <2>1, <2>3, <3>3
    <3>5. Near(outgoing, l) \subseteq visited' \cup {path'[j] : j \in 1 .. k - 1}
      BY <2>1, <2>4, <3>4
    <3>6. \A i \in 1 .. k - 1 : path'[i] \in Near(outgoing, l)
      BY <2>4, <3>1
    <3>7. (k - 1) + 1 = k
      BY <2>3
    <3>8. visited' \subseteq Near(outgoing, l) /\ (l > 0 => Near(outgoing, l - 1) \subseteq visited')
      BY <2>1, <2>4, <2>5
    <3>9. outgoing' = outgoing
      BY <2>1
    <3> QED
      BY <3>2, <3>5, <3>6, <3>7, <3>8, <3>9 DEF Level
  <2>8. k - 1 \in Nat /\ k - 1 <= Len(path')
    BY <2>1, <2>2, <2>3
  <2>9. /\ Len(calls) \in Nat
        /\ \A i \in 1 .. Len(calls) : calls'[i] = calls[i]
        /\ calls'[Len(calls) + 1] = node
        /\ visited = {calls[i] : i \in 1 .. Len(calls)}
        /\ Walks!FirstCalls \subseteq 1 .. Len(calls)
        /\ Walks!FirstCalls' =
             Walks!FirstCalls \cup (IF node \in visited THEN {} ELSE {Len(calls) + 1})
    BY <1>2, CallsRound
  <2>10. ASSUME NEW i \in Walks!FirstCalls', NEW j \in Walks!FirstCalls', i < j
         PROVE  Dist(outgoing, calls'[i]) <= Dist(outgoing, calls'[j])
    <3>1. i \in Walks!FirstCalls /\ i \in 1 .. Len(calls)
      BY <2>9, <2>10
    <3>2. CASE j \in Walks!FirstCalls
      BY <1>2, <2>9, <2>10, <3>1, <3>2 DEF BreadthInv
    <3>3. CASE j \notin Walks!FirstCalls
      <4>1. j = Len(calls) + 1 /\ node \notin visited
        BY <2>9, <3>3
      <4>2. calls[i] \in Near(outgoing, l)
        BY <2>4, <2>9, <3>1
      <4>3. Dist(outgoing, calls[i]) \in Nat /\ Dist(outgoing, calls[i]) <= l
        BY <1>0, <4>2, DistIs
      <4>4. Dist(outgoing, node) = l
        <5>1. CASE l = 0
          <6>1. Dist(outgoing, node) \in Nat /\ Dist(outgoing, node) <= l
            BY <1>0, <2>5, DistIs
          <6> QED
            BY <5>1, <6>1
        <5>2. CASE l # 0
          <6>1. l > 0 /\ node \notin Near(outgoing, l - 1)
            BY <2>4, <4>1, <5>2
          <6> QED
            BY <1>0, <2>5, <6>1, DistIs
        <5> QED
          BY <5>1, <5>2
      <4> QED
        BY <2>9, <3>1, <4>1, <4>3, <4>4
    <3> QED
      BY <3>2, <3>3
  <2>11. outgoing' = outgoing
    BY <2>1
  <2>12. \E m \in Nat, h \in Nat : h <= Len(path') /\ Level(m, h)'
    BY <2>7, <2>8
  <2> QED
    BY <2>10, <2>11, <2>12 DEF BreadthInv
<1>3. CASE UNCHANGED <<vars, walk, path, visited, excluded, calls>>
  BY <1>3 DEF BreadthInv, Level, Walks!FirstCalls, vars
<1> QED
  BY <1>1, <1>2, <1>3, VisitSteps

LEMMA BreadthOrder == BreadthInv => Walks!BreadthFirst
<1>1. \A n : Walks!Distance(n) = Dist(outgoing, n)
  BY ReachableIs DEF Walks!Distance, Dist, Walks!StartNode
<1> QED
  BY <1>1 DEF BreadthInv, Walks!BreadthFirst

-------------------------------------------------------------------------------

LEMMA OrdersInit == AlgorithmsInit => StackInv /\ CountInv /\ DepthInv /\ BreadthInv
  BY DEF AlgorithmsInit, Idle, StackInv, CountInv, DepthInv, BreadthInv

(* bfs_walk and dfs_walk reach all there is to reach, dfs_walk no more     *)
(* often than there are edges, bfs_walk breadth first and dfs_walk depth   *)
(* first.                                                                  *)
THEOREM WalksVisit == AlgorithmsSpec => []WalkVisits
<1> DEFINE I == VisitInv /\ StackInv /\ CountInv /\ DepthInv /\ BreadthInv
<1>1. AlgorithmsInit => I
  BY VisitInit, OrdersInit
<1>2. WalkInv /\ I /\ [AlgorithmsNext]_state => I'
  BY VisitStep, StackStep, CountStep, DepthStep, BreadthStep
<1>3. WalkInv /\ I => WalkVisits
  BY VisitsReachAll, CountOnce, DepthOrder, BreadthOrder DEF WalkVisits
<1> QED
  BY <1>1, <1>2, <1>3, WalkInvariance, PTL DEF AlgorithmsSpec

-------------------------------------------------------------------------------
(* mst.                                                                    *)

LEMMA FrontFacts ==
  ASSUME NEW S, NEW s \in Seq(S), s # <<>>, Distinct(s)
  PROVE  /\ Mst!Front(s) \in Seq(S) /\ Distinct(Mst!Front(s))
         /\ Mst!Last(s) \in S
         /\ Mst!Last(s) \in Elements(s)
         /\ Elements(Mst!Front(s)) = Elements(s) \ {Mst!Last(s)}
<1> DEFINE n == Len(s)
           f == Mst!Front(s)
<1>1. n \in Nat \ {0} /\ DOMAIN s = 1 .. n /\ Mst!Last(s) = s[n]
  BY DEF Mst!Last
<1>2. f \in Seq(S) /\ Len(f) = n - 1 /\ \A i \in 1 .. n - 1 : f[i] = s[i]
  BY <1>1 DEF Mst!Front
<1> HIDE DEF f, n
<1>3. DOMAIN f = 1 .. n - 1
  BY <1>2
<1>4. Distinct(f)
  BY <1>1, <1>2, <1>3 DEF Distinct
<1>5. s[n] \in S /\ s[n] \in Elements(s)
  BY <1>1 DEF Elements
<1>6. \A i \in 1 .. n - 1 : s[i] # s[n]
  BY <1>1 DEF Distinct
<1>7. \A i \in 1 .. n : i = n \/ i \in 1 .. n - 1
  BY <1>1
<1>8. Elements(f) \subseteq Elements(s) \ {s[n]}
  BY <1>1, <1>2, <1>3, <1>6 DEF Elements
<1>9. Elements(s) \ {s[n]} \subseteq Elements(f)
  BY <1>1, <1>2, <1>3, <1>7 DEF Elements
<1> QED
  BY <1>1, <1>2, <1>4, <1>5, <1>8, <1>9 DEF f

LEMMA ChildEntries ==
  ASSUME NEW v \in Ids, NEW out \in SUBSET Ids, NEW c, Lists(c, out)
  PROVE  LET t == [i \in DOMAIN c |-> <<v, c[i]>>]
         IN  t \in Seq(Entries) /\ Distinct(t) /\ Elements(t) = {<<v, n>> : n \in out}
<1> DEFINE t == [i \in DOMAIN c |-> <<v, c[i]>>]
<1>1. c \in Seq(out) /\ Elements(c) = out /\ Distinct(c)
  BY ListsElements
<1>2. DOMAIN c = 1 .. Len(c) /\ Len(c) \in Nat /\ \A i \in DOMAIN c : c[i] \in Ids
  BY <1>1
<1>3. t \in Seq(Entries)
  BY <1>2 DEF Entries
<1>4. Distinct(t)
  BY <1>1 DEF Distinct
<1>5. Elements(t) = {<<v, n>> : n \in out}
  <2>1. out = {c[i] : i \in DOMAIN c}
    BY <1>1 DEF Elements
  <2> QED
    BY <2>1 DEF Elements
<1> QED
  BY <1>3, <1>4, <1>5

(* With fewer edges less can be reached.                                   *)
LEMMA ReachShrinks ==
  ASSUME NEW out \in [Ids -> SUBSET Ids], NEW less \in [Ids -> SUBSET Ids],
         \A n \in Ids : less[n] \subseteq out[n],
         NEW from \in SUBSET Ids
  PROVE  Reach(less, from) \subseteq Reach(out, from)
<1>1. /\ Reach(out, from) \in SUBSET Ids /\ from \subseteq Reach(out, from)
      /\ Closed(out, Reach(out, from))
  BY ReachLeast
<1>2. Closed(less, Reach(out, from))
  BY <1>1 DEF Closed
<1> QED
  BY <1>1, <1>2, ReachLeast

(* A tree is one still when edges are removed.                             *)
LEMMA TreeShrinks ==
  ASSUME NEW out \in [Ids -> SUBSET Ids], NEW less \in [Ids -> SUBSET Ids],
         \A n \in Ids : less[n] \subseteq out[n],
         NEW r \in Ids, IsTree(out, r)
  PROVE  IsTree(less, r)
<1>1. Reach(less, {r}) \subseteq Reach(out, {r}) /\ Reach(out, {r}) \subseteq Ids
  BY ReachShrinks, ReachLeast
<1> QED
  BY <1>1 DEF IsTree

(* Edges that lead to a node which can be reached without them are not     *)
(* missed.                                                                 *)
LEMMA ReachStays ==
  ASSUME NEW out \in [Ids -> SUBSET Ids], NEW less \in [Ids -> SUBSET Ids],
         NEW v \in Ids,
         \A n \in Ids : less[n] \subseteq out[n],
         \A n \in Ids : out[n] \subseteq less[n] \cup {v},
         NEW from \in SUBSET Ids, v \in Reach(less, from)
  PROVE  Reach(less, from) = Reach(out, from)
<1>1. /\ Reach(less, from) \in SUBSET Ids /\ from \subseteq Reach(less, from)
      /\ Closed(less, Reach(less, from))
  BY ReachLeast
<1>2. Closed(out, Reach(less, from))
  BY <1>1 DEF Closed
<1>3. Reach(out, from) \subseteq Reach(less, from)
  BY <1>1, <1>2, ReachLeast
<1> QED
  BY <1>3, ReachShrinks

(* When path is empty, the nodes come to are those that can be reached     *)
(* from the root, and they are a tree.                                     *)
LEMMA TreeDone ==
  ASSUME WalkInv, MstInv, walk = "mst", path = <<>>, root # NoNode
  PROVE  IsTree(outgoing, root)
<1>1. outgoing \in [Ids -> SUBSET Ids]
  BY DEF WalkInv, IInv, TypeOK
<1>2. /\ visited \subseteq Ids /\ root \in visited
      /\ \A u, v \in Ids : Followed(u, v) => v \in visited \ {root}
      /\ \A u, v, w \in Ids : Followed(u, w) /\ Followed(v, w) => u = v
      /\ \A s \in SUBSET Ids :
           root \in s /\ (\A u, v \in Ids : u \in s /\ Followed(u, v) => v \in s) => visited \subseteq s
  BY DEF MstInv
<1>3. \A u, v \in Ids : Followed(u, v) <=> u \in visited /\ v \in outgoing[u]
  BY DEF Followed, Elements
<1>4. Closed(outgoing, visited)
  BY <1>1, <1>2, <1>3 DEF Closed
<1> DEFINE R == Reach(outgoing, {root})
<1>5. R \in SUBSET Ids /\ root \in R /\ Closed(outgoing, R)
  BY <1>1, <1>2, ReachLeast
<1>6. R \subseteq visited
  BY <1>1, <1>2, <1>4, ReachLeast
<1> HIDE DEF R
<1>7. ASSUME NEW m \in R, NEW n \in R
      PROVE  root \notin outgoing[m] /\ (outgoing[m] \cap outgoing[n] # {} => m = n)
  BY <1>1, <1>2, <1>3, <1>6, <1>7
<1> QED
  BY <1>7 DEF IsTree, R

LEMMA MstStart ==
  ASSUME WalkInv, Mst!StartMst
  PROVE  MstInv'
<1>1. /\ root_ids' = Roots /\ root' = NoNode /\ visited' = {} /\ path' = <<>> /\ finished' = {}
  BY DEF Mst!StartMst, Mst!Roots, Roots, NoNode
<1>2. Roots \subseteq Ids
  <2>1. nodes \subseteq Ids
    BY Assumption DEF WalkInv, IInv, TypeOK, Ids
  <2> QED
    BY <2>1 DEF Roots
<1>3. path' \in Seq(Entries) /\ Distinct(path')
  BY <1>1 DEF Distinct
<1> QED
  BY <1>1, <1>2, <1>3 DEF MstInv, Followed

LEMMA MstNextRoot ==
  ASSUME WalkInv, MstInv, NEW id, Mst!StartNode(id)
  PROVE  MstInv'
<1>1. /\ walk = "mst" /\ path = <<>> /\ id \in root_ids /\ root_ids' = root_ids \ {id} /\ root' = id
      /\ visited' = {} /\ path' = <<<<NoNode, id>>>>
      /\ finished' = finished \cup ({root} \ {NoNode}) /\ outgoing' = outgoing
  BY DEF Mst!StartNode, Mst!vars, NoNode
<1>2. /\ root_ids \subseteq Ids /\ finished \subseteq Ids /\ root \in Ids \cup {NoNode}
      /\ \A r \in finished : IsTree(outgoing, r)
  BY <1>1 DEF MstInv
<1>3. path' \in Seq(Entries) /\ Distinct(path')
  <2>1. <<NoNode, id>> \in Entries
    BY <1>1, <1>2 DEF Entries
  <2>2. <<<<NoNode, id>>>> \in Seq(Entries) /\ DOMAIN <<<<NoNode, id>>>> = {1}
    BY <2>1
  <2> QED
    BY <1>1, <2>2 DEF Distinct
<1>4. \A r \in finished' : IsTree(outgoing', r)
  BY <1>1, <1>2, TreeDone
<1>5. \A u, v \in Ids : ~Followed(u, v)'
  BY <1>1 DEF Followed
<1>6. root_ids' \subseteq Ids /\ finished' \subseteq Ids /\ root' \in Ids
  BY <1>1, <1>2
<1> QED
  BY <1>1, <1>3, <1>4, <1>5, <1>6 DEF MstInv

(* A round that comes to a node: the edge taken from path is now followed. *)
LEMMA MstVisit ==
  ASSUME WalkInv, MstInv, Mst!Visit
  PROVE  MstInv'
<1> DEFINE top == Mst!Last(path)
           p == top[1]
           v == top[2]
<1>0. outgoing \in [Ids -> SUBSET Ids]
  BY DEF WalkInv, IInv, TypeOK
<1>1. /\ walk = "mst" /\ path # <<>> /\ v \notin visited /\ visited' = visited \cup {v}
      /\ UNCHANGED <<root_ids, root, finished>> /\ outgoing' = outgoing
  BY DEF Mst!Visit, Mst!vars
<1>2. PICK c \in Mst!SetToSeqs(outgoing[v]) :
        path' = Mst!Front(path) \o [i \in DOMAIN c |-> <<v, c[i]>>]
  BY DEF Mst!Visit
<1>3. /\ root_ids \subseteq Ids /\ finished \subseteq Ids /\ visited \subseteq Ids
      /\ root \in Ids \cup {NoNode}
      /\ path \in Seq(Entries) /\ Distinct(path)
      /\ \/ visited = {} /\ root \in Ids /\ path = <<<<NoNode, root>>>>
         \/ /\ root \in visited
            /\ \A e \in Elements(path) : e[1] \in visited /\ e[2] \in outgoing[e[1]]
      /\ \A u, w \in Ids : Followed(u, w) => w \in visited \ {root}
      /\ \A u, w, x \in Ids : Followed(u, x) /\ Followed(w, x) => u = w
      /\ \A s \in SUBSET Ids :
           root \in s /\ (\A u, w \in Ids : u \in s /\ Followed(u, w) => w \in s) => visited \subseteq s
      /\ \A r \in finished : IsTree(outgoing, r)
  BY <1>1 DEF MstInv
<1>4. /\ Mst!Front(path) \in Seq(Entries) /\ Distinct(Mst!Front(path))
      /\ top \in Entries /\ top \in Elements(path)
      /\ Elements(Mst!Front(path)) = Elements(path) \ {top}
  BY <1>1, <1>3, FrontFacts
<1>5. p \in Ids \cup {NoNode} /\ v \in Ids /\ top = <<p, v>>
  BY <1>4 DEF Entries
<1> DEFINE t == [i \in DOMAIN c |-> <<v, c[i]>>]
<1>6. t \in Seq(Entries) /\ Distinct(t) /\ Elements(t) = {<<v, n>> : n \in outgoing[v]}
  <2>1. outgoing[v] \in SUBSET Ids /\ IsFiniteSet(outgoing[v])
    BY <1>0, <1>5, IdsFinite, FS_Subset
  <2>2. Lists(c, outgoing[v])
    BY <1>2, <2>1, SetToSeqsLists
  <2> QED
    BY <1>5, <2>1, <2>2, ChildEntries
<1> HIDE DEF top, t
<1>7. NoNode \notin Ids
  BY DEF NoNode, Mst!NoNode, Ids
<1>8. \A e \in Elements(path) : e[1] \in visited \cup {NoNode}
  <2>1. CASE path = <<<<NoNode, root>>>>
    BY <2>1 DEF Elements
  <2> QED
    BY <1>3, <2>1
<1>9. \A e \in Elements(path) : e[1] # v
  BY <1>1, <1>5, <1>7, <1>8
<1>10. path' \in Seq(Entries) /\ Distinct(path')
       /\ Elements(path') = (Elements(path) \ {top}) \cup {<<v, n>> : n \in outgoing[v]}
  <2>1. Elements(Mst!Front(path)) \cap Elements(t) = {}
    BY <1>4, <1>6, <1>9
  <2>2. path' = Mst!Front(path) \o t
    BY <1>2 DEF t
  <2> DEFINE f == Mst!Front(path)
  <2> HIDE DEF f
  <2>3. f \in Seq(Entries) /\ t \in Seq(Entries) /\ Distinct(f) /\ Distinct(t)
        /\ Elements(f) \cap Elements(t) = {}
    BY <1>4, <1>6, <2>1 DEF f
  <2>4. f \o t \in Seq(Entries)
    BY <2>3, ConcatAt
  <2>5. Elements(f \o t) = Elements(f) \cup Elements(t) /\ Distinct(f \o t)
    BY <2>3, ConcatElements
  <2> QED
    BY <1>4, <1>6, <2>2, <2>4, <2>5 DEF f
<1>11. ASSUME NEW u \in Ids, NEW w \in Ids
       PROVE  Followed(u, w)' <=> Followed(u, w) \/ (u = p /\ w = v /\ p \in visited /\ v \in outgoing[p])
  <2>1. Followed(u, w)' <=> u \in visited \cup {v} /\ w \in outgoing[u] /\ <<u, w>> \notin Elements(path')
    BY <1>1 DEF Followed
  <2>2. CASE u = v
    BY <1>1, <1>10, <2>1, <2>2 DEF Followed
  <2>3. CASE u # v
    <3>1. <<u, w>> \in Elements(path') <=> <<u, w>> \in Elements(path) /\ <<u, w>> # top
      BY <1>10, <2>3
    <3>2. <<u, w>> = top <=> u = p /\ w = v
      BY <1>5
    <3> QED
      BY <1>1, <1>4, <1>5, <2>1, <2>3, <3>1, <3>2 DEF Followed
  <2> QED
    BY <2>2, <2>3
<1>12. CASE visited = {} /\ root \in Ids /\ path = <<<<NoNode, root>>>>
  <2>1. Elements(path) = {<<NoNode, root>>}
    BY <1>12 DEF Elements
  <2>2. v = root /\ p = NoNode /\ top = <<NoNode, root>>
    BY <1>4, <1>5, <2>1
  <2>3. visited' = {root} /\ Elements(path') = {<<root, n>> : n \in outgoing[root]}
    BY <1>1, <1>10, <1>12, <2>1, <2>2
  <2>4. \A u, w \in Ids : ~Followed(u, w)'
    BY <1>11, <1>12 DEF Followed
  <2>5. \A e \in Elements(path') : e[1] \in visited' /\ e[2] \in outgoing'[e[1]]
    BY <1>1, <2>3
  <2> QED
    BY <1>1, <1>3, <1>10, <1>12, <2>3, <2>4, <2>5 DEF MstInv
<1>13. CASE root \in visited /\ \A e \in Elements(path) : e[1] \in visited /\ e[2] \in outgoing[e[1]]
  <2>1. p \in visited /\ v \in outgoing[p]
    BY <1>4, <1>5, <1>13
  <2>2. root \in visited' /\ \A e \in Elements(path') : e[1] \in visited' /\ e[2] \in outgoing'[e[1]]
    BY <1>1, <1>10, <1>13
  <2>3. \A u, w \in Ids : Followed(u, w)' => w \in visited' \ {root'}
    BY <1>1, <1>3, <1>11, <1>13
  <2>4. \A u, w, x \in Ids : Followed(u, x)' /\ Followed(w, x)' => u = w
    BY <1>1, <1>3, <1>11
  <2>5. ASSUME NEW s \in SUBSET Ids, root' \in s,
               \A u, w \in Ids : u \in s /\ Followed(u, w)' => w \in s
        PROVE  visited' \subseteq s
    <3>1. visited \subseteq s
      BY <1>1, <1>3, <1>11, <2>5
    <3>2. v \in s
      BY <1>3, <1>5, <1>11, <2>1, <2>5, <3>1
    <3> QED
      BY <1>1, <3>1, <3>2
  <2>6. visited' \subseteq Ids
    BY <1>1, <1>3, <1>5
  <2> QED
    BY <1>1, <1>3, <1>10, <2>2, <2>3, <2>4, <2>5, <2>6 DEF MstInv
<1> QED
  BY <1>3, <1>12, <1>13

(* A round that removes an edge: it leads from a node come to, to another, *)
(* and is none of those followed.                                          *)
LEMMA MstRemoved ==
  ASSUME WalkInv, MstInv, Mst!Revisit, NEW p, NEW v, p = Mst!Last(path)[1], v = Mst!Last(path)[2]
  PROVE  /\ walk = "mst" /\ UNCHANGED <<walk, root_ids, root, visited, finished>>
         /\ p \in visited /\ v \in visited /\ visited \subseteq Ids /\ root \in visited
         /\ outgoing \in [Ids -> SUBSET Ids] /\ outgoing' \in [Ids -> SUBSET Ids]
         /\ \A n \in Ids : outgoing'[n] = IF n = p THEN outgoing[n] \ {v} ELSE outgoing[n]
         /\ path' \in Seq(Entries) /\ Distinct(path')
         /\ <<p, v>> \in Elements(path) /\ Elements(path') = Elements(path) \ {<<p, v>>}
         /\ \A e \in Elements(path) : e \in Entries /\ e[1] \in visited /\ e[2] \in outgoing[e[1]]
         /\ \A u, w \in Ids : Followed(u, w)' <=> Followed(u, w)
<1>1. /\ walk = "mst" /\ UNCHANGED <<walk, root_ids, root, visited, finished>>
      /\ path # <<>> /\ v \in visited /\ path' = Mst!Front(path)
  BY DEF Mst!Revisit
<1>2. /\ visited \subseteq Ids /\ path \in Seq(Entries) /\ Distinct(path)
      /\ root \in visited
      /\ \A e \in Elements(path) : e[1] \in visited /\ e[2] \in outgoing[e[1]]
  BY <1>1 DEF MstInv
<1>3. /\ Mst!Front(path) \in Seq(Entries) /\ Distinct(Mst!Front(path))
      /\ Mst!Last(path) \in Entries /\ Mst!Last(path) \in Elements(path)
      /\ Elements(Mst!Front(path)) = Elements(path) \ {Mst!Last(path)}
  BY <1>1, <1>2, FrontFacts
<1>4. Mst!Last(path) = <<p, v>> /\ p \in visited
  BY <1>2, <1>3 DEF Entries
<1>5. outgoing \in [Ids -> SUBSET Ids] /\ outgoing' = [outgoing EXCEPT ![p] = @ \ {v}]
  <2>1. RemoveDirectedEdge(p, v)
    BY RevisitRemoves DEF WalkInv
  <2> QED
    BY <2>1 DEF RemoveDirectedEdge, Erase, WalkInv, IInv, TypeOK
<1>6. /\ outgoing' \in [Ids -> SUBSET Ids]
      /\ \A n \in Ids : outgoing'[n] = IF n = p THEN outgoing[n] \ {v} ELSE outgoing[n]
  BY <1>2, <1>4, <1>5
<1>7. \A e \in Elements(path) : e \in Entries
  BY <1>2 DEF Elements
<1>8. Elements(path') = Elements(path) \ {<<p, v>>} /\ <<p, v>> \in Elements(path)
  BY <1>1, <1>3, <1>4
<1>9. ASSUME NEW u \in Ids, NEW w \in Ids PROVE Followed(u, w)' <=> Followed(u, w)
  BY <1>1, <1>6, <1>8 DEF Followed
<1> QED
  BY <1>1, <1>2, <1>3, <1>4, <1>5, <1>6, <1>7, <1>8, <1>9

LEMMA MstRevisit ==
  ASSUME WalkInv, MstInv, Mst!Revisit
  PROVE  MstInv'
<1> DEFINE p == Mst!Last(path)[1]
           v == Mst!Last(path)[2]
<1>1. /\ walk = "mst" /\ UNCHANGED <<walk, root_ids, root, visited, finished>>
      /\ p \in visited /\ v \in visited /\ visited \subseteq Ids /\ root \in visited
      /\ outgoing \in [Ids -> SUBSET Ids] /\ outgoing' \in [Ids -> SUBSET Ids]
      /\ \A n \in Ids : outgoing'[n] = IF n = p THEN outgoing[n] \ {v} ELSE outgoing[n]
      /\ path' \in Seq(Entries) /\ Distinct(path')
      /\ <<p, v>> \in Elements(path) /\ Elements(path') = Elements(path) \ {<<p, v>>}
      /\ \A e \in Elements(path) : e \in Entries /\ e[1] \in visited /\ e[2] \in outgoing[e[1]]
      /\ \A u, w \in Ids : Followed(u, w)' <=> Followed(u, w)
  BY MstRemoved
<1> HIDE DEF p, v
<1>2. /\ root_ids \subseteq Ids /\ finished \subseteq Ids
      /\ \A u, w \in Ids : Followed(u, w) => w \in visited \ {root}
      /\ \A u, w, x \in Ids : Followed(u, x) /\ Followed(w, x) => u = w
      /\ \A s \in SUBSET Ids :
           root \in s /\ (\A u, w \in Ids : u \in s /\ Followed(u, w) => w \in s) => visited \subseteq s
      /\ \A r \in finished : IsTree(outgoing, r)
  BY <1>1 DEF MstInv
<1>3. \A r \in finished : IsTree(outgoing', r)
  BY <1>1, <1>2, TreeShrinks
<1>4. ASSUME NEW e \in Elements(path') PROVE e[1] \in visited /\ e[2] \in outgoing'[e[1]]
  <2>1. e \in Elements(path) /\ e # <<p, v>> /\ e = <<e[1], e[2]>> /\ e[1] \in Ids
    BY <1>1 DEF Entries
  <2> QED
    BY <1>1, <2>1
<1>5. \A u, w, x \in Ids : Followed(u, x)' /\ Followed(w, x)' => u = w
  BY <1>1, <1>2
<1>6. \A s \in SUBSET Ids :
         root' \in s /\ (\A u, w \in Ids : u \in s /\ Followed(u, w)' => w \in s) => visited' \subseteq s
  BY <1>1, <1>2
<1>7. \A u, w \in Ids : Followed(u, w)' => w \in visited' \ {root'}
  BY <1>1, <1>2
<1>8. root' \in visited' /\ \A e \in Elements(path') : e[1] \in visited' /\ e[2] \in outgoing'[e[1]]
  BY <1>1, <1>4
<1>9. /\ root_ids' \subseteq Ids /\ finished' \subseteq Ids /\ visited' \subseteq Ids
      /\ root' \in Ids /\ \A r \in finished' : IsTree(outgoing', r)
  BY <1>1, <1>2, <1>3
<1>10. path' \in Seq(Entries) /\ Distinct(path')
  BY <1>1
<1> QED
  BY <1>5, <1>6, <1>7, <1>8, <1>9, <1>10 DEF MstInv

LEMMA MstStep == WalkInv /\ MstInv /\ [AlgorithmsNext]_state => MstInv'
<1> SUFFICES ASSUME WalkInv, MstInv, [AlgorithmsNext]_state, walk' = "mst" PROVE MstInv'
  BY DEF MstInv
<1>1. CASE UNCHANGED <<vars, walk, path, visited, root_ids, root, finished>>
  <2>1. /\ UNCHANGED <<walk, path, visited, root_ids, root, finished>> /\ outgoing' = outgoing
        /\ walk = "mst"
    BY <1>1 DEF vars
  <2>2. \A u, v : Followed(u, v)' <=> Followed(u, v)
    BY <2>1 DEF Followed
  <2> QED
    BY <2>1, <2>2 DEF MstInv
<1> QED
  BY <1>1, MstSteps, MstStart, MstNextRoot, MstVisit, MstRevisit DEF Mst!MstNext

LEMMA MstInit == AlgorithmsInit => MstInv
  BY DEF AlgorithmsInit, Idle, MstInv

LEMMA EntriesOk == WalkInv /\ MstInv => Mst!EntriesAreEdges
<1> SUFFICES ASSUME WalkInv, MstInv, walk = "mst", NEW i \in DOMAIN path
             PROVE  /\ path[i][1] = NoNode => path[i][2] = root /\ path = <<path[i]>>
                    /\ path[i][1] # NoNode => path[i][2] \in outgoing[path[i][1]]
                    /\ \A j \in DOMAIN path : path[i] = path[j] => i = j
  BY DEF Mst!EntriesAreEdges, NoNode
<1>1. /\ visited \subseteq Ids /\ path \in Seq(Entries) /\ Distinct(path)
      /\ \/ path = <<>>
         \/ root \in Ids /\ path = <<<<NoNode, root>>>>
         \/ \A e \in Elements(path) : e[1] \in visited /\ e[2] \in outgoing[e[1]]
  BY DEF MstInv
<1>2. NoNode \notin Ids
  BY DEF NoNode, Mst!NoNode, Ids
<1>3. \A j \in DOMAIN path : path[i] = path[j] => i = j
  BY <1>1 DEF Distinct
<1>4. CASE root \in Ids /\ path = <<<<NoNode, root>>>>
  <2>1. i = 1 /\ path[1] = <<NoNode, root>>
    BY <1>4
  <2> QED
    BY <1>3, <1>4, <2>1
<1>5. CASE \A e \in Elements(path) : e[1] \in visited /\ e[2] \in outgoing[e[1]]
  BY <1>1, <1>2, <1>3, <1>5 DEF Elements
<1> QED
  BY <1>1, <1>4, <1>5

(* In a tree one edge leads to each node but the root: without it the node *)
(* could not be reached.                                                   *)
LEMMA TreeIncoming ==
  ASSUME WalkInv, NEW r \in Ids, IsTree(outgoing, r), nodes = Ids, NEW n \in Reach(outgoing, {r})
  PROVE  Cardinality(incoming[n] \cap Reach(outgoing, {r})) = (IF n = r THEN 0 ELSE 1)
<1> DEFINE R == Reach(outgoing, {r})
<1>1. /\ outgoing \in [Ids -> SUBSET Ids] /\ incoming \in [Ids -> SUBSET Ids]
      /\ \A a, b \in Ids : b \in outgoing[a] <=> a \in incoming[b]
  BY DEF WalkInv, IInv, TypeOK, EdgesMirror
<1>2. R \in SUBSET Ids /\ r \in R /\ Closed(outgoing, R)
  BY <1>1, ReachLeast
<1>3. \A m \in R : r \notin outgoing[m] /\ \A k \in R : outgoing[m] \cap outgoing[k] # {} => m = k
  BY DEF IsTree
<1>4. \A s \in SUBSET Ids : {r} \subseteq s /\ Closed(outgoing, s) => R \subseteq s
  BY <1>1, ReachLeast
<1>5. n \in R
  OBVIOUS
<1> HIDE DEF R
<1>6. CASE n = r
  <2>1. incoming[n] \cap R = {}
    BY <1>1, <1>2, <1>3, <1>6
  <2> QED
    BY <1>6, <2>1, FS_EmptySet DEF R
<1>7. CASE n # r
  <2>1. PICK m \in R : n \in outgoing[m]
    <3> SUFFICES ASSUME \A m \in R : n \notin outgoing[m] PROVE FALSE
      OBVIOUS
    <3>1. R \ {n} \in SUBSET Ids /\ {r} \subseteq R \ {n} /\ Closed(outgoing, R \ {n})
      BY <1>2, <1>7 DEF Closed
    <3> QED
      BY <1>4, <1>5, <3>1
  <2>2. incoming[n] \cap R = {m}
    BY <1>1, <1>2, <1>3, <1>5, <2>1
  <2> QED
    BY <1>7, <2>2, FS_Singleton DEF R
<1> QED
  BY <1>6, <1>7

LEMMA TreesOk == WalkInv /\ MstInv => Mst!TreePerRoot
<1> SUFFICES ASSUME WalkInv, MstInv, walk = "mst" PROVE Mst!TreePerRoot
  BY DEF Mst!TreePerRoot
<1> DEFINE done == finished \cup (IF path = <<>> THEN {root} \ {Mst!NoNode} ELSE {})
<1>1. ASSUME NEW r \in done
      PROVE  \A n \in Mst!Reachable({r}) :
               Mst!Cardinality(incoming[n] \cap Mst!Reachable({r})) = (IF n = r THEN 0 ELSE 1)
  <2>1. r \in Ids /\ IsTree(outgoing, r)
    <3>1. /\ finished \subseteq Ids /\ root \in Ids \cup {NoNode}
          /\ \A a \in finished : IsTree(outgoing, a)
      BY DEF MstInv
    <3> QED
      BY <3>1, TreeDone DEF NoNode
  <2>2. nodes = Ids
    BY DEF WalkInv
  <2>3. Mst!Reachable({r}) = Reach(outgoing, {r})
    BY ReachableIs
  <2>4. ASSUME NEW n \in Reach(outgoing, {r})
        PROVE  Mst!Cardinality(incoming[n] \cap Reach(outgoing, {r})) = (IF n = r THEN 0 ELSE 1)
    BY <2>1, <2>2, TreeIncoming, SameCardinality
  <2> QED
    BY <2>3, <2>4
<1> QED
  BY <1>1 DEF Mst!TreePerRoot

(* What mst leaves under each root is a tree, and the edges it has yet to  *)
(* follow are edges there are.                                             *)
THEOREM SpanningTreesHold == AlgorithmsSpec => []SpanningTrees
<1>1. WalkInv /\ MstInv => SpanningTrees
  BY EntriesOk, TreesOk DEF SpanningTrees
<1> QED
  BY <1>1, WalkInit, MstInit, WalkStep, MstStep, PTL DEF AlgorithmsSpec

(* A round of mst keeps what can be reached from the root it works on, and *)
(* from all roots together.                                                *)
LEMMA CutsOffNothing ==
  ASSUME WalkInv, MstInv, [AlgorithmsNext]_state, walk = "mst", walk' = walk
  PROVE  /\ root' = root /\ root # NoNode => Reach(outgoing', {root}) = Reach(outgoing, {root})
         /\ Reach(outgoing', Mst!AllRoots') = Reach(outgoing, Mst!AllRoots)
<1>1. NoNode \notin Ids
  BY DEF NoNode, Mst!NoNode, Ids
<1>2. ASSUME NEW id \in Ids, Mst!StartNode(id)
      PROVE  outgoing' = outgoing /\ Mst!AllRoots' = Mst!AllRoots
  BY <1>1, <1>2 DEF Mst!StartNode, Mst!vars, Mst!AllRoots, NoNode
<1>3. CASE Mst!Visit
  BY <1>3 DEF Mst!Visit, Mst!vars, Mst!AllRoots
<1>4. CASE Mst!Revisit
  <2> DEFINE p == Mst!Last(path)[1]
             v == Mst!Last(path)[2]
             R == Reach(outgoing', {root})
  <2>1. /\ UNCHANGED <<root_ids, root, finished>>
        /\ p \in visited /\ v \in visited /\ visited \subseteq Ids /\ root \in visited
        /\ outgoing \in [Ids -> SUBSET Ids] /\ outgoing' \in [Ids -> SUBSET Ids]
        /\ \A n \in Ids : outgoing'[n] = IF n = p THEN outgoing[n] \ {v} ELSE outgoing[n]
        /\ \A u, w \in Ids : Followed(u, w)' <=> Followed(u, w)
        /\ visited' = visited
    BY <1>4, MstRemoved
  <2> HIDE DEF p, v
  <2>2. R \in SUBSET Ids /\ {root} \subseteq R /\ Closed(outgoing', R)
    BY <2>1, ReachLeast
  <2>3. \A u, w \in Ids : u \in R /\ Followed(u, w) => w \in R
    BY <2>1, <2>2 DEF Followed, Closed
  <2>4. v \in R
    <3>1. visited \subseteq R
      BY <2>2, <2>3 DEF MstInv
    <3> QED
      BY <2>1, <3>1
  <2>a. v \in Ids /\ {root} \in SUBSET Ids /\ v \in Reach(outgoing', {root})
    BY <2>1, <2>4 DEF R
  <2> HIDE DEF R
  <2>b. /\ outgoing \in [Ids -> SUBSET Ids] /\ outgoing' \in [Ids -> SUBSET Ids]
        /\ \A n \in Ids : outgoing'[n] \subseteq outgoing[n]
        /\ \A n \in Ids : outgoing[n] \subseteq outgoing'[n] \cup {v}
    BY <2>1
  <2>5. Reach(outgoing', {root}) = Reach(outgoing, {root})
    BY <2>a, <2>b, ReachStays
  <2>6. /\ Mst!AllRoots' = Mst!AllRoots /\ Mst!AllRoots \in SUBSET Ids /\ root \in Mst!AllRoots
    <3>1. root_ids \subseteq Ids /\ finished \subseteq Ids /\ root \in Ids
      BY <2>1 DEF MstInv
    <3> QED
      BY <1>1, <2>1, <3>1 DEF Mst!AllRoots, NoNode
  <2>7. v \in Reach(outgoing', Mst!AllRoots)
    <3>1. /\ Reach(outgoing', Mst!AllRoots) \in SUBSET Ids
          /\ Mst!AllRoots \subseteq Reach(outgoing', Mst!AllRoots)
          /\ Closed(outgoing', Reach(outgoing', Mst!AllRoots))
      BY <2>1, <2>6, ReachLeast
    <3>2. Reach(outgoing', {root}) \subseteq Reach(outgoing', Mst!AllRoots)
      BY <2>a, <2>b, <2>6, <3>1, ReachLeast
    <3> QED
      BY <2>a, <3>2
  <2>8. Reach(outgoing', Mst!AllRoots) = Reach(outgoing, Mst!AllRoots)
    BY <2>a, <2>b, <2>6, <2>7, ReachStays
  <2> QED
    BY <2>5, <2>6, <2>8
<1>5. CASE UNCHANGED <<vars, walk, path, visited, root_ids, root, finished>>
  BY <1>5 DEF vars, Mst!AllRoots
<1>6. Mst!Ids = Ids
  BY DEF Mst!Ids, Ids
<1>7. \/ walk = "mst" /\ Mst!MstNext
      \/ UNCHANGED <<vars, walk, path, visited, root_ids, root, finished>>
  BY MstSteps
<1> QED
  BY <1>2, <1>3, <1>4, <1>5, <1>6, <1>7 DEF Mst!MstNext

(* mst cuts off no node while it removes edges.                            *)
THEOREM NothingIsCutOff == AlgorithmsSpec => NothingCutOff
<1>1. WalkInv /\ MstInv /\ [AlgorithmsNext]_state
        => [walk = "mst" /\ walk' = walk =>
             /\ root' = root /\ root # Mst!NoNode => Mst!Reachable({root})' = Mst!Reachable({root})
             /\ Mst!Reachable(Mst!AllRoots)' = Mst!Reachable(Mst!AllRoots)]_(Mst!state)
  <2> SUFFICES ASSUME WalkInv, MstInv, [AlgorithmsNext]_state, walk = "mst", walk' = walk
               PROVE  /\ root' = root /\ root # NoNode =>
                           Mst!Reachable({root})' = Mst!Reachable({root})
                      /\ Mst!Reachable(Mst!AllRoots)' = Mst!Reachable(Mst!AllRoots)
    BY DEF NoNode
  <2>1. ASSUME root' = root PROVE Mst!Reachable({root})' = Reach(outgoing', {root})
    BY <2>1 DEF Mst!Reachable, Mst!Within, Reach, Steps
  <2>2. Mst!Reachable(Mst!AllRoots)' = Reach(outgoing', Mst!AllRoots')
    BY DEF Mst!Reachable, Mst!Within, Reach, Steps
  <2>3. /\ Mst!Reachable({root}) = Reach(outgoing, {root})
        /\ Mst!Reachable(Mst!AllRoots) = Reach(outgoing, Mst!AllRoots)
    BY ReachableIs
  <2> QED
    BY <2>1, <2>2, <2>3, CutsOffNothing
<1> QED
  BY <1>1, WalkInit, MstInit, WalkStep, MstStep, PTL DEF AlgorithmsSpec, NothingCutOff, Mst!NothingCutOff
================================================================================
