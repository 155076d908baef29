\* Every answer of the bridge, and overwritten blocks, through the Go decoder.
SPECIFICATION Spec
CONSTANTS
  Text <- Texts
  Proto <- Protos
  Beyond <- After
  Trash <- Overwritten
INVARIANTS TypeOK HeardAsSaid NeverPanics
