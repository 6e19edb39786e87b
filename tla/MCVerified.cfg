\* A binding and a fetch of the same name.
CONSTANTS
  Headers <- MCNoHeader
  Statements <- MCFetches
  MaxStmts = 2
  MaxDepth = 0
SPECIFICATION Spec
INVARIANT LoweredIsVerified
