\* Lower and Verify side by side on bodies of up to three statements.
CONSTANTS
  Headers <- MCHeaders
  Statements <- MCStatements
  MaxStmts = 3
  MaxDepth = 2
SPECIFICATION Spec
INVARIANTS
  ScopesAgree
  TypeSound
