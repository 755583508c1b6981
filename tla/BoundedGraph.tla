------------------------------ MODULE BoundedGraph ------------------------------
(***************************************************************************)
(* bounded_graph_t: the graph of Graph in tables with open addressing, a   *)
(* bounded_hash_map of nodes, each of which has two bounded_hash_set_t of  *)
(* edges. To erase a key empties its cell, so that a key that was pushed   *)
(* beyond that cell is not found any more: the tables are skewed then. A   *)
(* program is followed until that happens. The hash of an id, scaled to a  *)
(* cell, is its home and may be anything.                                  *)
(***************************************************************************)
EXTENDS Integers, FiniteSets

CONSTANTS MaxVertices, \* MaxVerticesPerNode, the capacity of every table
          GraphIds     \* how many nodes a program adds

ASSUME BoundedGraphAssumption == {MaxVertices, GraphIds} \subseteq Nat \ {0}

VARIABLE bg

NodeIds == 0 .. GraphIds - 1
NoId == -1
TableCells == 0 .. MaxVertices - 1
NoKeys == [n \in TableCells |-> NoId]

-------------------------------------------------------------------------------
(* A table t: the id in each cell.                                         *)

(* How many cells beyond the home of id cell n is.                         *)
Distance(id, n) == (n - bg.home[id]) % MaxVertices

(* find_index: the first cell from home that is empty or has id.           *)
CellOf(t, id) ==
  {n \in TableCells : t[n] \in {NoId, id}
                      /\ \A m \in TableCells : t[m] \in {NoId, id} => Distance(id, n) <= Distance(id, m)}

HasKey(t, id) == \E n \in CellOf(t, id) : t[n] = id
Fits(t, id) == CellOf(t, id) # {}
Inserted(t, id) == [n \in TableCells |-> IF n \in CellOf(t, id) THEN id ELSE t[n]]
Erased(t, id) == [n \in TableCells |-> IF n \in CellOf(t, id) THEN NoId ELSE t[n]]

(* To erase id would skew t: another key was pushed beyond its cell.       *)
Skews(t, id) ==
  \E n \in CellOf(t, id), p \in TableCells :
    t[n] = id /\ t[p] \notin {NoId, id} /\ Distance(t[p], n) < Distance(t[p], p)

EdgeKeys(t) == {t[n] : n \in TableCells} \ {NoId}

-------------------------------------------------------------------------------
(* The graph.                                                              *)

NoNodes(home) ==
  [home |-> home, cur_id |-> 0, nodes |-> NoKeys,
   out |-> [id \in NodeIds |-> NoKeys], in |-> [id \in NodeIds |-> NoKeys],
   live |-> {}, pairs |-> {}, skewed |-> FALSE]

BoundedGraphInit == \E home \in [NodeIds -> TableCells] : bg = NoNodes(home)

HasNode(id) == HasKey(bg.nodes, id)

(* A table that is full is undefined for nodes, and aborts for edges.      *)
AddBoundedNode ==
  /\ bg.cur_id < GraphIds /\ Fits(bg.nodes, bg.cur_id)
  /\ bg' = [bg EXCEPT !.cur_id = @ + 1, !.nodes = Inserted(@, bg.cur_id), !.live = @ \cup {bg.cur_id},
                      !.out[bg.cur_id] = NoKeys, !.in[bg.cur_id] = NoKeys]

AddBoundedDirected(from, to) ==
  /\ HasNode(from) /\ HasNode(to)
  /\ Fits(bg.out[from], to) /\ Fits(bg.in[to], from)
  /\ bg' = [bg EXCEPT !.out[from] = Inserted(@, to), !.in[to] = Inserted(@, from),
                      !.pairs = @ \cup {<<from, to>>}]

(* Of a node joined to itself the second call changes nothing.             *)
InsertedBoth(sets, a, b) ==
  [id \in NodeIds |-> IF id = a THEN Inserted(sets[a], b) ELSE IF id = b THEN Inserted(sets[b], a) ELSE sets[id]]
ErasedBoth(sets, a, b) ==
  [id \in NodeIds |-> IF id = a THEN Erased(sets[a], b) ELSE IF id = b THEN Erased(sets[b], a) ELSE sets[id]]

AddBoundedUndirected(a, b) ==
  /\ HasNode(a) /\ HasNode(b)
  /\ \A x, y \in {a, b} : x # y \/ a = b => Fits(bg.out[x], y) /\ Fits(bg.in[x], y)
  /\ bg' = [bg EXCEPT !.out = InsertedBoth(@, a, b), !.in = InsertedBoth(@, a, b),
                      !.pairs = @ \cup {<<a, b>>, <<b, a>>}]

RemoveBoundedDirected(from, to) ==
  /\ HasNode(from) /\ HasNode(to)
  /\ bg' = [bg EXCEPT !.out[from] = Erased(@, to), !.in[to] = Erased(@, from), !.pairs = @ \ {<<from, to>>},
                      !.skewed = Skews(bg.out[from], to) \/ Skews(bg.in[to], from)]

RemoveBoundedEdges(a, b) ==
  /\ HasNode(a) /\ HasNode(b)
  /\ bg' = [bg EXCEPT !.out = ErasedBoth(@, a, b), !.in = ErasedBoth(@, a, b),
                      !.pairs = @ \ {<<a, b>>, <<b, a>>},
                      !.skewed = \/ Skews(bg.out[a], b) \/ Skews(bg.in[a], b)
                                 \/ Skews(bg.out[b], a) \/ Skews(bg.in[b], a)]

(* The iterators of the loops, which may change the edges, do not stop at  *)
(* the end of a set unless what follows it in memory looks like a cell in  *)
(* use: after the incoming edges that is the first cell of the outgoing    *)
(* ones, after those it may be anything. Otherwise a loop runs away, and   *)
(* the program with it.                                                    *)
RemoveBoundedNode(id) ==
  LET out1 == [n \in NodeIds |-> IF n \in EdgeKeys(bg.in[id]) THEN Erased(bg.out[n], id) ELSE bg.out[n]]
      in1 == [n \in NodeIds |-> IF n \in EdgeKeys(out1[id]) THEN Erased(bg.in[n], id) ELSE bg.in[n]]
  IN /\ HasNode(id)
     /\ EdgeKeys(bg.in[id]) = {} \/ out1[id][0] # NoId
     /\ bg' = [bg EXCEPT !.out = out1, !.in = in1, !.nodes = Erased(@, id),
                         !.live = @ \ {id}, !.pairs = {p \in @ : id \notin {p[1], p[2]}},
                         !.skewed = \/ \E n \in EdgeKeys(bg.in[id]) : Skews(bg.out[n], id)
                                    \/ \E n \in EdgeKeys(out1[id]) : Skews(bg.in[n], id)
                                    \/ Skews(bg.nodes, id)]

BoundedGraphNext ==
  /\ ~bg.skewed
  /\ \/ AddBoundedNode
     \/ \E id \in NodeIds : RemoveBoundedNode(id)
     \/ \E a, b \in NodeIds :
          \/ AddBoundedDirected(a, b) \/ AddBoundedUndirected(a, b)
          \/ RemoveBoundedDirected(a, b) \/ RemoveBoundedEdges(a, b)

BoundedGraphSpec == BoundedGraphInit /\ [][BoundedGraphNext]_bg

(* visit, which find and find_by_value are: the cells in order.            *)
FindNodes(ids) == {n \in TableCells : bg.nodes[n] \in ids}
FindRoots == FindNodes({id \in NodeIds : EdgeKeys(bg.in[id]) = {}})
FindLeaves == FindNodes({id \in NodeIds : EdgeKeys(bg.out[id]) = {}})

-------------------------------------------------------------------------------
(* Properties.                                                             *)

(* Until its tables are skewed, a bounded graph is the directed graph that *)
(* the calls made, though ids share homes, push each other away and come   *)
(* back to cells that were left: its nodes are found and visited once,     *)
(* both ends know each edge, and its roots and leaves are those. Even then *)
(* nothing is found that is not there.                                     *)
BoundedGraphHolds ==
  LET ids(cells) == {bg.nodes[n] : n \in cells}
      once(cells, set) == ids(cells) = set /\ Cardinality(cells) = Cardinality(set)
  IN /\ \A id \in NodeIds : HasNode(id) => id \in bg.live
     /\ \A a, b \in bg.live : HasKey(bg.out[a], b) \/ HasKey(bg.in[b], a) => <<a, b>> \in bg.pairs
     /\ ~bg.skewed =>
          /\ once({n \in TableCells : bg.nodes[n] # NoId}, bg.live) /\ \A id \in bg.live : HasNode(id)
          /\ \A a, b \in bg.live :
               <<a, b>> \in bg.pairs => HasKey(bg.out[a], b) /\ HasKey(bg.in[b], a)
          /\ once(FindRoots, {id \in bg.live : \A p \in bg.pairs : p[2] # id})
          /\ once(FindLeaves, {id \in bg.live : \A p \in bg.pairs : p[1] # id})
================================================================================
