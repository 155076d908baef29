\* Every source of at most four items, literals met in any order.
SPECIFICATION Spec
CONSTANTS
  Sources <- ShortSources
  RewrittenWidth = 3
INVARIANTS TypeOK Spliced OffsetKept ReportedInResolverText
CHECK_DEADLOCK FALSE
