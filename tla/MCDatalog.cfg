\* The programs of MCSources, evaluated by both targets.
CONSTANTS Variables <- MCVariables
          Sources <- MCSources
          MaxFacts = 4096
SPECIFICATION Spec
INVARIANTS RejectsOnlyCycles StrataSound  BeamAnswersTheQuery
PROPERTY Terminates
\* A compilation ends.
CHECK_DEADLOCK FALSE
