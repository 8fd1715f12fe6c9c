SPECIFICATION Spec
CONSTANTS
  CommandLines <- MCCommandLines
  Tests <- MCTests
  OldLogs <- MCOldLogs
  MaxTests = 3
INVARIANTS
  TypeOK
  ReportsTheSession
  DispatchedAsAsked
