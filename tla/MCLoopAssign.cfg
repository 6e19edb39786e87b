\* A loop body may use a variable anywhere.
CONSTANT Programs <- MCLoopBodies
SPECIFICATION Spec
INVARIANT LoopAssignmentsReach
CHECK_DEADLOCK FALSE
