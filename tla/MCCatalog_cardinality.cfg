\* What a comment says of the cardinality of an argument, and the analyzer is not told.
SPECIFICATION Spec
CONSTANTS
  r = r
  s = s
  u = u
  nil = nil
  Nil = nil
  Catalogs <- Three
  Shapes <- SmallShapes
  Names <- SomeNames
  Fold <- SomeFold
  Default = "default"
  Paths <- SomePaths
  Tables <- SomeTables
  Functions <- SomeFunctions
  Types = {"INT64", "ENUM", "STRUCT"}
  Holed = {"STRUCT"}
  Foreign = {"ENUM"}
INVARIANTS CardinalityArrives
