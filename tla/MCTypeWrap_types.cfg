\* Every small type with every small value: read, and registered again.
SPECIFICATION Spec
CONSTANTS
  Protos <- SomeProtos
  Depth <- Nesting
  Values <- SomeValues
  Scalars = {"INT64", "DATETIME", "TIME"}
  Kinds = {"INT64", "DATETIME", "TIME", "ENUM"}
INVARIANTS TypeOK GoesBackBare ReadsAsSent
