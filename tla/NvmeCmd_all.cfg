SPECIFICATION Spec
CONSTANTS
  Commands <- MCCommands
  Features <- MCFeatures
  Selections <- MCSelections
  Repeats = {0, 8}
  RandMax = 5
INVARIANTS
  TypeOK
  ReportedOnce
  EvenlyRun
  EvenlyAsked
