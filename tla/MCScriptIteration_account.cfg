\* Two callers share a location, every script of at most three units.
SPECIFICATION Spec
CONSTANTS
  c1 = c1
  c2 = c2
  Client <- TwoClients
  Scripts <- SmallScripts
INVARIANTS TypeOK Accounted FinishedMeansAll
PROPERTIES LoopEnds
