--------------------------------- MODULE Graph ---------------------------------
(***************************************************************************)
(* daw::graph_t (include/daw/daw_graph.h): nodes found by an id, each with *)
(* the set of nodes it has edges to and, kept beside it, the set of nodes  *)
(* it has edges from.                                                      *)
(*                                                                         *)
(* m_nodes maps an id to a node. It is modelled by its domain, nodes, and  *)
(* the two sets of each node, which are empty for an id that has none. The *)
(* value stored in a node is left out: no operation on the graph reads it. *)
(* Ids passed in are ids of nodes: the operations check that in debug      *)
(* builds (dbg_precondition_check) and are undefined without it.           *)
(***************************************************************************)
EXTENDS Integers, FiniteSets

CONSTANT MaxNodes \* bound: how many nodes are ever added

ASSUME Assumption == MaxNodes \in Nat

Ids == 0 .. MaxNodes - 1

VARIABLES
  cur_id,   \* the id of the next node
  nodes,    \* the ids in m_nodes
  incoming, \* incoming[id]: m_incoming_edges
  outgoing  \* outgoing[id]: m_outgoing_edges

vars == <<cur_id, nodes, incoming, outgoing>>

Init ==
  /\ cur_id = 0
  /\ nodes = {}
  /\ incoming = [id \in Ids |-> {}]
  /\ outgoing = [id \in Ids |-> {}]

-------------------------------------------------------------------------------

(* Mutant of AddNode: the id is m_nodes.size( ).                           *)
AddNodeBySize ==
  /\ cur_id < MaxNodes
  /\ cur_id' = cur_id + 1
  /\ nodes' = nodes \cup {Cardinality(nodes)}
  /\ UNCHANGED <<incoming, outgoing>>

AddNode ==
  /\ cur_id < MaxNodes
  /\ cur_id' = cur_id + 1
  /\ nodes' = nodes \cup {cur_id}
  /\ UNCHANGED <<incoming, outgoing>>

(* n[from].insert( to ) and n[from].erase( to ).                           *)
Insert(n, from, to) == [n EXCEPT ![from] = @ \cup {to}]
Erase(n, from, to) == [n EXCEPT ![from] = @ \ {to}]

AddDirectedEdge(from, to) ==
  /\ from \in nodes /\ to \in nodes
  /\ outgoing' = Insert(outgoing, from, to)
  /\ incoming' = Insert(incoming, to, from)
  /\ UNCHANGED <<cur_id, nodes>>

AddUndirectedEdge(node0, node1) ==
  /\ node0 \in nodes /\ node1 \in nodes
  /\ outgoing' = Insert(Insert(outgoing, node0, node1), node1, node0)
  /\ incoming' = Insert(Insert(incoming, node0, node1), node1, node0)
  /\ UNCHANGED <<cur_id, nodes>>

(* The first loop erases id from the outgoing edges of the nodes with an   *)
(* edge to it, itself among them if it has a loop; the second goes through *)
(* the outgoing edges id has then. The node is erased at the end.          *)
RemoveNode(id) ==
  LET out1 == [n \in Ids |-> IF n \in incoming[id] THEN outgoing[n] \ {id} ELSE outgoing[n]]
      in1 == [n \in Ids |-> IF n \in out1[id] THEN incoming[n] \ {id} ELSE incoming[n]]
  IN
  /\ id \in nodes
  /\ outgoing' = [out1 EXCEPT ![id] = {}]
  /\ incoming' = [in1 EXCEPT ![id] = {}]
  /\ nodes' = nodes \ {id}
  /\ UNCHANGED cur_id

(* Mutant of RemoveDirectedEdge: only one end forgets the edge.            *)
RemoveOutgoingEdge(from, to) ==
  /\ from \in nodes /\ to \in nodes
  /\ outgoing' = Erase(outgoing, from, to)
  /\ UNCHANGED <<cur_id, nodes, incoming>>

RemoveDirectedEdge(from, to) ==
  /\ from \in nodes /\ to \in nodes
  /\ outgoing' = Erase(outgoing, from, to)
  /\ incoming' = Erase(incoming, to, from)
  /\ UNCHANGED <<cur_id, nodes>>

RemoveEdges(node0, node1) ==
  /\ node0 \in nodes /\ node1 \in nodes
  /\ outgoing' = Erase(Erase(outgoing, node0, node1), node1, node0)
  /\ incoming' = Erase(Erase(incoming, node0, node1), node1, node0)
  /\ UNCHANGED <<cur_id, nodes>>

Next ==
  \/ AddNode
  \/ \E id \in Ids : RemoveNode(id)
  \/ \E u, v \in Ids : \/ AddDirectedEdge(u, v) \/ AddUndirectedEdge(u, v)
                       \/ RemoveDirectedEdge(u, v) \/ RemoveEdges(u, v)

Spec == Init /\ [][Next]_vars

-------------------------------------------------------------------------------
(* What is said of the algorithms on a graph: its roots, and what can be   *)
(* reached in it.                                                          *)

(* find_roots.                                                             *)
Roots == {n \in nodes : incoming[n] = {}}

(* The nodes at most k edges from a set of nodes, for every k.             *)
Within(from) ==
  LET w[k \in 0 .. MaxNodes] ==
        IF k = 0 THEN from ELSE w[k - 1] \cup UNION {outgoing[n] : n \in w[k - 1]}
  IN w

Reachable(from) == Within(from)[MaxNodes]

-------------------------------------------------------------------------------
(* Properties.                                                             *)

(* Every variable has its type, and only ids given out are in use.         *)
TypeOK ==
  /\ cur_id \in 0 .. MaxNodes
  /\ nodes \subseteq 0 .. cur_id - 1
  /\ incoming \in [Ids -> SUBSET Ids]
  /\ outgoing \in [Ids -> SUBSET Ids]

(* The two sides of every edge agree, whatever sequence of directed and    *)
(* undirected additions and removals has been made. Without this           *)
(* remove_node, which finds the far ends of edges only through the sets of *)
(* the node it removes, would leave an edge behind.                        *)
EdgesMirror == \A u, v \in Ids : v \in outgoing[u] <=> u \in incoming[v]

(* No edge leads to a node that is gone: get_node in the loops of          *)
(* remove_node, and in the walks, is always given the id of a node.        *)
NoDanglingEdge ==
  \A id \in Ids :
    /\ incoming[id] \cup outgoing[id] \subseteq nodes
    /\ id \notin nodes => incoming[id] = {} /\ outgoing[id] = {}

(* The id of a node that was removed never finds another node: no call     *)
(* brings back an id that was given out before.                            *)
IdsNotReused == [][\A id \in Ids : id < cur_id /\ id \notin nodes => id \notin nodes']_vars

(* The graph is the one its outgoing edges tell of.                        *)
DG == INSTANCE DirectedGraph
        WITH edges <- {e \in Ids \X Ids : e[2] \in outgoing[e[1]]},
             used <- 0 .. cur_id - 1
ImplementsGraph == DG!Spec
================================================================================
