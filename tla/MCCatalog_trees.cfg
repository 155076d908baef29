\* Lookups in, and analyses with, every small tree of catalogs.
SPECIFICATION Spec
CONSTANTS
  r = r
  s = s
  u = u
  nil = nil
  Nil = nil
  Catalogs <- Three
  Shapes <- SmallShapes
  Names <- SomeNames
  Fold <- SomeFold
  Default = "default"
  Paths <- SomePaths
  Tables <- SomeTables
  Functions <- SomeFunctions
  Types = {"INT64", "ENUM", "STRUCT"}
  Holed = {"STRUCT"}
  Foreign = {"ENUM"}
INVARIANTS TypeOK TableFound FunctionFound AnalyzerSeesTables
