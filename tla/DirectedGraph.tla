----------------------------- MODULE DirectedGraph -----------------------------
(***************************************************************************)
(* What graph_t promises its users: a directed graph, a set of nodes and a *)
(* set of pairs of them. A node that is gone takes its edges with it, and  *)
(* its identity is never given to another.                                 *)
(***************************************************************************)
CONSTANT Ids \* the identities a node may have

VARIABLES nodes, \* the nodes of the graph
          edges, \* pairs of nodes, from and to
          used   \* the identities given out so far

vars == <<nodes, edges, used>>

Init == nodes = {} /\ edges = {} /\ used = {}

Add(id) ==
  /\ id \notin used
  /\ nodes' = nodes \cup {id}
  /\ used' = used \cup {id}
  /\ UNCHANGED edges

Remove(id) ==
  /\ id \in nodes
  /\ nodes' = nodes \ {id}
  /\ edges' = {e \in edges : e[1] # id /\ e[2] # id}
  /\ UNCHANGED used

(* The edges between two nodes, in one direction or in both.               *)
Between(u, v) == {{<<u, v>>}, {<<u, v>>, <<v, u>>}}

Connect(u, v) ==
  /\ u \in nodes /\ v \in nodes
  /\ \E new \in Between(u, v) : edges' = edges \cup new
  /\ UNCHANGED <<nodes, used>>

Disconnect(u, v) ==
  /\ u \in nodes /\ v \in nodes
  /\ \E old \in Between(u, v) : edges' = edges \ old
  /\ UNCHANGED <<nodes, used>>

Next ==
  \/ \E id \in Ids : Add(id) \/ Remove(id)
  \/ \E u, v \in Ids : Connect(u, v) \/ Disconnect(u, v)

Spec == Init /\ [][Next]_vars
================================================================================
