\* A bad cast behind a literal with a named zone.
SPECIFICATION Spec
CONSTANTS
  Sources <- ZoneThenCast
  RewrittenWidth = 3
INVARIANTS ReportedWhereWritten
CHECK_DEADLOCK FALSE
