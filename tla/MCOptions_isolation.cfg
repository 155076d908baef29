\* Calls that overlap, on options that the program edits and clones between them.
SPECIFICATION Spec
CONSTANTS
  c1 = c1
  c2 = c2
  v1 = v1
  v2 = v2
  l1 = l1
  l2 = l2
  s1 = s1
  nil = nil
  Nil = nil
  Call <- TwoCalls
  Value <- TwoValues
  Language <- TwoLanguages
  Slice <- OneSlice
  Features <- SomeFeatures
  Test = {"TEST"}
  Named = {"TEST"}
  Contract = {"QUALIFY_CLAUSE"}
  Syntax <- SomeSyntax
  Keywords = {"QUALIFY", "PIVOT"}
  Qualify = "QUALIFY"
  Kinds = {"query"}
  Tables <- SomeTables
  Foreign = {"ENUM"}
  Fold <- SomeFold
  MaxEdits = 2
SYMMETRY Alike
INVARIANTS TypeOK WireIsAsked NothingShared PromotionLocates ParametersKnown ZonesRewritten
PROPERTIES CallerUntouched
