\* One client, every method, texts with and without a slash, room for three
\* blocks: all interleavings of calls, failures, traps and re-creations.
SPECIFICATION Spec
CONSTANTS
  a1 = a1
  a2 = a2
  a3 = a3
  c1 = c1
  c2 = c2
  Client <- OneClient
  Sql <- TwoTexts
  Slashed <- SlashedText
  Op <- AllOps
  Addr <- ThreeBlocks
  Null = Null
  Wild = Wild
  Junk = Junk
  None = None
SYMMETRY Blocks
INVARIANTS TypeOK RuntimeReleased NothingLeaked FreesOwnBlock NullOnlyAfterTrap CallInvariant
PROPERTIES AnswersOwnRequest PromiseSafety
