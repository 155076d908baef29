\* What a comment says of the default contract; a literal LanguageOptions panics.
SPECIFICATION Spec
CONSTANTS
  c1 = c1
  c2 = c2
  v1 = v1
  v2 = v2
  l1 = l1
  l2 = l2
  s1 = s1
  nil = nil
  Nil = nil
  Call <- OneCall
  Value <- TwoValues
  Language <- TwoLanguages
  Slice <- OneSlice
  Features <- SomeFeatures
  Test = {"TEST"}
  Named = {"TEST"}
  Contract = {"QUALIFY_CLAUSE"}
  Syntax <- SomeSyntax
  Keywords = {"QUALIFY", "PIVOT"}
  Qualify = "QUALIFY"
  Kinds = {"query"}
  Tables <- SomeTables
  Foreign = {"ENUM"}
  Fold <- SomeFold
  MaxEdits = 3
INVARIANTS ContractOnEveryCall
