------------------------------ MODULE SpanningTree -----------------------------
(***************************************************************************)
(* mst (include/daw/daw_graph_algorithm.h): from every root in turn it     *)
(* walks the graph depth first, and removes each edge that leads to a node *)
(* it has come to before.                                                  *)
(*                                                                         *)
(* Every step is one round of the inner loop, or the start of the next     *)
(* round of the outer one. The edges are removed while path still holds    *)
(* others that were copied from the graph earlier.                         *)
(***************************************************************************)
EXTENDS Graph, SequencesExt

VARIABLES
  walk,     \* which algorithm runs
  root_ids, \* the roots still to start from
  root,     \* start_node_id, or NoNode
  visited,  \* the nodes come to from this root
  path,     \* the edges to follow, as pairs parent, node
  finished  \* the roots already walked from

state == <<vars, walk, root_ids, root, visited, path, finished>>

(* std::nullopt.                                                           *)
NoNode == -1

StartMst ==
  /\ walk' = "mst"
  /\ root_ids' = Roots
  /\ root' = NoNode /\ visited' = {} /\ path' = <<>> /\ finished' = {}
  /\ UNCHANGED vars

-------------------------------------------------------------------------------

(* Mutant of StartNode: visited is declared outside of the loop.           *)
StartNodeKeepVisited(id) ==
  /\ walk = "mst" /\ path = <<>>
  /\ id \in root_ids
  /\ root_ids' = root_ids \ {id}
  /\ root' = id
  /\ path' = <<<<NoNode, id>>>>
  /\ finished' = finished \cup ({root} \ {NoNode})
  /\ UNCHANGED <<vars, walk, visited>>

(* The next round of the outer loop, in the order find_roots found them.   *)
StartNode(id) ==
  /\ walk = "mst" /\ path = <<>>
  /\ id \in root_ids
  /\ root_ids' = root_ids \ {id}
  /\ root' = id
  /\ visited' = {}
  /\ path' = <<<<NoNode, id>>>>
  /\ finished' = finished \cup ({root} \ {NoNode})
  /\ UNCHANGED <<vars, walk>>

(* Mutant of Revisit: the node is left as it is.                           *)
RevisitAndKeep ==
  /\ walk = "mst" /\ path # <<>>
  /\ Last(path)[2] \in visited
  /\ path' = Front(path)
  /\ UNCHANGED <<vars, walk, root_ids, root, visited, finished>>

(* A round that takes a node it came to before. That an entry with no      *)
(* parent is never taken here is what precondition_check asks for;         *)
(* RemoveDirectedEdge would not be enabled with it.                        *)
Revisit ==
  /\ walk = "mst" /\ path # <<>>
  /\ Last(path)[2] \in visited
  /\ RemoveDirectedEdge(Last(path)[1], Last(path)[2])
  /\ path' = Front(path)
  /\ UNCHANGED <<walk, root_ids, root, visited, finished>>

(* A round that takes another node: all its edges are to be followed.      *)
Visit ==
  /\ walk = "mst" /\ path # <<>>
  /\ Last(path)[2] \notin visited
  /\ visited' = visited \cup {Last(path)[2]}
  /\ \E children \in SetToSeqs(outgoing[Last(path)[2]]) :
       path' = Front(path) \o [i \in DOMAIN children |-> <<Last(path)[2], children[i]>>]
  /\ UNCHANGED <<vars, walk, root_ids, root, finished>>

MstNext == (\E id \in Ids : StartNode(id)) \/ Revisit \/ Visit

-------------------------------------------------------------------------------
(* Properties.                                                             *)

(* No entry of path is stale: the edge it was made from has not been       *)
(* removed since, and it is there only once. So the edge mst removes is    *)
(* one there is, and never the one by which it came to the node.           *)
EntriesAreEdges ==
  walk = "mst" => \A i \in DOMAIN path :
    /\ path[i][1] = NoNode => path[i][2] = root /\ path = <<path[i]>>
    /\ path[i][1] # NoNode => path[i][2] \in outgoing[path[i][1]]
    /\ \A j \in DOMAIN path : path[i] = path[j] => i = j

(* While mst works on a root, no node that can be reached from that root   *)
(* is cut off from it. One may be cut off from a root worked on before,    *)
(* but none from all roots.                                                *)
AllRoots == root_ids \cup finished \cup ({root} \ {NoNode})
NothingCutOff ==
  [][walk = "mst" /\ walk' = walk =>
     /\ root' = root /\ root # NoNode => Reachable({root})' = Reachable({root})
     /\ Reachable(AllRoots)' = Reachable(AllRoots)]_state

(* Once mst has worked on a root, what can be reached from it is a tree,   *)
(* and is one still after the work on the other roots: one edge leads from *)
(* the tree to each of its nodes, and none to the root.                    *)
TreePerRoot ==
  walk = "mst" => \A r \in finished \cup (IF path = <<>> THEN {root} \ {NoNode} ELSE {}) :
    LET tree == Reachable({r}) IN
    \A n \in tree : Cardinality(incoming[n] \cap tree) = (IF n = r THEN 0 ELSE 1)
================================================================================
