------------------------------- MODULE GraphWalks ------------------------------
(***************************************************************************)
(* The walks over a graph_t (include/daw/daw_graph_algorithm.h):           *)
(* topological_sorted_walk, bfs_walk and dfs_walk. Every step is one round *)
(* of the loop, which takes a node, calls func with it and stores the      *)
(* nodes to take later.                                                    *)
(*                                                                         *)
(* The walks leave the graph alone; func is assumed to do so too. The      *)
(* children of a node come in any order: that of the unordered_set, or the *)
(* one the caller's ChildOrder sorts them into. As the graph is any, node  *)
(* 0 stands for any start_node_id. GraphAlgorithms composes the walks with *)
(* the graph, and says when they run.                                      *)
(***************************************************************************)
EXTENDS Graph, SequencesExt

VARIABLES
  walk,     \* which algorithm runs
  path,     \* path, or root_nodes: the nodes to take later
  visited,  \* visited, of bfs_walk and dfs_walk
  excluded, \* excluded_edges of topological_sorted_walk, as pairs from, to
  calls     \* the nodes func was called with, in order

StartNode == 0

StartWalk(w) ==
  /\ walk' = w
  /\ path' = IF w = "topological" THEN SetToSeq(Roots) ELSE <<StartNode>>
  /\ visited' = {} /\ excluded' = {} /\ calls' = <<>>
  /\ UNCHANGED vars

-------------------------------------------------------------------------------

(* Mutant of WithoutParents: a child is taken as soon as one parent was.   *)
WithSomeParent(children, edges) == {n \in children : \E m \in incoming[n] : <<m, n>> \in edges}

(* not has_parent_nodes( n ): all edges that lead to n are excluded.       *)
WithoutParents(children, edges) == {n \in children : \A m \in incoming[n] : <<m, n>> \in edges}

(* topological_sorted_walk takes root_nodes.back( ). With a Compare it has *)
(* sorted root_nodes first, so that this may be any of them.               *)
Topological ==
  \E i \in DOMAIN path :
    LET node == path[i] IN
    /\ walk = "topological"
    /\ calls' = Append(calls, node)
    /\ excluded' = excluded \cup {<<node, child>> : child \in outgoing[node]}
    /\ path' = RemoveAt(path, i) \o SetToSeq(WithoutParents(outgoing[node], excluded'))
    /\ UNCHANGED <<vars, walk, visited>>

(* Mutant of Take: the children are marked before they are looked up.      *)
TakeMarksChildren(node, rest) ==
  /\ calls' = Append(calls, node)
  /\ visited' = visited \cup {node} \cup outgoing[node]
  /\ \E children \in SetToSeqs(outgoing[node] \ visited') : path' = rest \o children
  /\ UNCHANGED <<vars, walk, excluded>>

(* Mutant of Take: a node that is marked is passed over before it is       *)
(* removed from path.                                                      *)
TakeOnlyUnmarked(node, rest) ==
  /\ node \notin visited
  /\ calls' = Append(calls, node)
  /\ visited' = visited \cup {node}
  /\ \E children \in SetToSeqs(outgoing[node] \ visited') : path' = rest \o children
  /\ UNCHANGED <<vars, walk, excluded>>

(* One round of bfs_walk and dfs_walk: a node is marked when it is taken   *)
(* from path, so that path may hold it more than once, and func is called  *)
(* with it each time.                                                      *)
Take(node, rest) ==
  /\ calls' = Append(calls, node)
  /\ visited' = visited \cup {node}
  /\ \E children \in SetToSeqs(outgoing[node] \ visited') : path' = rest \o children
  /\ UNCHANGED <<vars, walk, excluded>>

Bfs == walk = "bfs" /\ path # <<>> /\ Take(Head(path), Tail(path))

Dfs == walk = "dfs" /\ path # <<>> /\ Take(Last(path), Front(path))

WalkNext == Topological \/ Bfs \/ Dfs

-------------------------------------------------------------------------------
(* Properties.                                                             *)

Done == path = <<>>

OnCycle == {n \in nodes : n \in Reachable(outgoing[n])}
Distance(n) == CHOOSE k \in 0 .. MaxNodes :
                 n \in Within({StartNode})[k] /\ (k > 0 => n \notin Within({StartNode})[k - 1])

(* The calls that come to a node for the first time.                       *)
FirstCalls == {i \in DOMAIN calls : \A k \in 1 .. i - 1 : calls[k] # calls[i]}

(* topological_sorted_walk calls func with a node only after it has done   *)
(* so with all nodes that have an edge to it, and never twice.             *)
TopologicalOrder ==
  walk = "topological" =>
    \A j \in DOMAIN calls :
      /\ incoming[calls[j]] \subseteq {calls[i] : i \in 1 .. j - 1}
      /\ \A i \in 1 .. j - 1 : calls[i] # calls[j]

(* It misses exactly the nodes that are on a cycle or come after one.      *)
TopologicalComplete ==
  walk = "topological" /\ Done => ToSet(calls) = nodes \ Reachable(OnCycle)

(* bfs_walk and dfs_walk call func with the nodes that can be reached from *)
(* the first one, all of them and no other, though they mark a node only   *)
(* when they take it.                                                      *)
ReachesAll ==
  walk \in {"bfs", "dfs"} =>
    /\ ToSet(calls) \subseteq Reachable({StartNode})
    /\ Done => ToSet(calls) = Reachable({StartNode})

(* bfs_walk comes to the nodes by their distance from the first.           *)
BreadthFirst ==
  walk = "bfs" =>
    \A i, j \in FirstCalls : i < j => Distance(calls[i]) <= Distance(calls[j])

(* dfs_walk comes to the nodes depth first: if b is come to while a node c *)
(* that an earlier a has an edge to still waits, then b is a child of a,   *)
(* or of a node come to between a and b.                                   *)
DepthFirst ==
  walk = "dfs" =>
    \A a, b, c \in FirstCalls :
      a < b /\ b < c /\ calls[c] \in outgoing[calls[a]] =>
        \E d \in FirstCalls \cap a .. b - 1 : calls[b] \in outgoing[calls[d]]

(* dfs_walk comes back to a node, but no more than once for every edge to  *)
(* it from another node. (In bfs_walk, both entries of a node may be taken  *)
(* before its children are, and each then makes an entry of every child.)  *)
OncePerEdge ==
  walk = "dfs" =>
    \A n \in ToSet(calls) :
      Cardinality({i \in DOMAIN calls : calls[i] = n}) <=
        (IF n = StartNode THEN 1 ELSE Cardinality(incoming[n] \ {n}))
================================================================================
