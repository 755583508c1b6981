---------------------------- MODULE GraphAlgorithms ----------------------------
(***************************************************************************)
(* A program that builds a graph_t, runs an algorithm of                   *)
(* daw_graph_algorithm.h on it, goes on to change the graph, and so on:    *)
(* Graph composed with GraphWalks and SpanningTree. An algorithm runs on   *)
(* whatever graph the operations before it have left, the result of an mst *)
(* among them; while one runs, nothing else uses the graph.                *)
(***************************************************************************)
EXTENDS Graph, SequencesExt

CONSTANT MaxEdges \* bound: how many edges the graph has

ASSUME AlgorithmsAssumption == MaxNodes > 0 /\ MaxEdges \in Nat

VARIABLES walk, path, visited, excluded, calls, root_ids, root, finished

Walks == INSTANCE GraphWalks
Mst == INSTANCE SpanningTree

ofWalks == <<excluded, calls>>
ofMst == <<root_ids, root, finished>>
locals == <<walk, path, visited, ofWalks, ofMst>>
state == <<vars, locals>>

(* No algorithm runs, and none has left its locals behind.                 *)
Idle ==
  /\ walk = "none" /\ path = <<>> /\ visited = {} /\ excluded = {} /\ calls = <<>>
  /\ root_ids = {} /\ root = Mst!NoNode /\ finished = {}

AlgorithmsInit == Init /\ Idle

(* The graph is changed, within the bound.                                 *)
Edges == {e \in Ids \X Ids : e[2] \in outgoing[e[1]]}
Change == walk = "none" /\ Next /\ Cardinality(Edges') <= MaxEdges /\ UNCHANGED locals

(* The algorithms are started when all nodes are there; a node that was    *)
(* removed makes no difference to them from one that is alone.             *)
Start ==
  /\ walk = "none" /\ nodes = Ids
  /\ \/ \E w \in {"topological", "bfs", "dfs"} : Walks!StartWalk(w) /\ UNCHANGED ofMst
     \/ Mst!StartMst /\ UNCHANGED ofWalks

Done == path = <<>> /\ root_ids = {}

Finish ==
  /\ walk # "none" /\ Done
  /\ walk' = "none" /\ path' = <<>> /\ visited' = {} /\ excluded' = {} /\ calls' = <<>>
  /\ root_ids' = {} /\ root' = Mst!NoNode /\ finished' = {}
  /\ UNCHANGED vars

Run == \/ Start
       \/ Walks!WalkNext /\ UNCHANGED ofMst
       \/ Mst!MstNext /\ UNCHANGED ofWalks
       \/ Finish

AlgorithmsNext == Change \/ Run

(* The program goes on with an algorithm that it has started.              *)
AlgorithmsSpec ==
  AlgorithmsInit /\ [][AlgorithmsNext]_state /\ WF_state(walk # "none" /\ Run)

-------------------------------------------------------------------------------
(* Properties. Each is one of the module it names, where it is explained.  *)

(* topological_sorted_walk comes to a node after all its parents, and to   *)
(* every node but those on a cycle or after one.                           *)
TopologicalWalk == Walks!TopologicalOrder /\ Walks!TopologicalComplete

(* What bfs_walk and dfs_walk reach, how often, and in which order.        *)
WalkVisits == Walks!ReachesAll /\ Walks!OncePerEdge /\ Walks!BreadthFirst /\ Walks!DepthFirst

(* The entries mst keeps are edges there are, and what it leaves under     *)
(* each root is a tree.                                                    *)
SpanningTrees == Mst!EntriesAreEdges /\ Mst!TreePerRoot

(* mst cuts off no node while it removes edges.                            *)
NothingCutOff == Mst!NothingCutOff

(* Every algorithm ends, on a graph with cycles too.                       *)
Ends == walk # "none" ~> walk = "none"
================================================================================
