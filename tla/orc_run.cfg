CONSTANTS
  Kinds <- Events
  Required <- TwoCycles
  Forbidden <- NoOperator
  Torn = Torn
  MaxEvents = 3
  MaxReports = 3
SPECIFICATION Spec
INVARIANTS TypeOK AuditPassIsPrefix ExactlyOnceIsExact PassMeansClean HealthyPasses PassShowsTail
CHECK_DEADLOCK FALSE
