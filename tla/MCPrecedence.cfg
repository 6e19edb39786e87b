\* Chains of operators of two levels.
CONSTANTS
  Headers <- MCNoHeader
  Statements <- MCChains
  MaxStmts = 1
  MaxDepth = 0
SPECIFICATION Spec
INVARIANT GroupsAsChecked
