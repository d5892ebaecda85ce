SPECIFICATION Spec
CONSTANTS
  e1 = e1
  e2 = e2
  u1 = u1
  u2 = u2
  Editors <- MCEditors
  Uri <- MCUri
  NoEditor = NoEditor
  NoDocument = NoDocument
  MaxText = 2
  MaxEdits = 1
  MaxRequests = 1
  MaxToggles = 2
INVARIANTS TypeOK ServerFollowsTheProtocol ServerHasTheText
PROPERTIES DiagnosticsCatchUp DeferredOpensHappen StopReturns
CHECK_DEADLOCK FALSE
