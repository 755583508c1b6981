SPECIFICATION AlgorithmsSpec
CONSTANTS
  MaxNodes = 4
  MaxEdges = 6
INVARIANTS EdgesMirror TopologicalWalk WalkVisits SpanningTrees
PROPERTIES NothingCutOff ImplementsGraph Ends
CHECK_DEADLOCK FALSE
