\* The gate, the index and its lookups, over small trees.
SPECIFICATION Spec
CONSTANTS
  nil = nil
  r1 = r1
  r2 = r2
  r3 = r3
  r4 = r4
  r5 = r5
  Nil = nil
  Nodes <- All
  Offsets = {0, 1, 2}
  Texts <- SomeTexts
  Kinds = {"INT64", "STRING"}
  Least <- MinusTwo
  Greatest = 2
  Outputs <- SomeOutputs
INVARIANTS TypeOK FirstCastRefused IndexExact OutermostFirst AnswersExact
\* A refused statement ends there.
CHECK_DEADLOCK FALSE
