SPECIFICATION ReportSpec
CONSTANTS
  Semantic = {a, b, c}
  Diagnostic = {f}
  MaxEvents = 4
  MinSpare = 2
  MinKind = 2
  Most = 5
  Setups <- MCSetups
  AuditOps = 2
SYMMETRY Interchangeable
INVARIANTS
  SelectionIsFair
  NumbersAreTrueOrSampled
  HitsErrByOpenRequests
  
  CompleteIsExact
  
CHECK_DEADLOCK FALSE
