\* Every program of MCPrograms, lowered, checked by erlc's lint and run.
CONSTANT Programs <- MCPrograms
SPECIFICATION Spec
INVARIANTS AcceptedByErlc SameMeaning NoControlEscapes
\* A compilation ends.
CHECK_DEADLOCK FALSE
