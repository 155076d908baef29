\* Two clients taking turns, Analyze with its pre-parse, room for two blocks: the protocol
\* implements the atomic engine of EngineSpec, and every call returns.
SPECIFICATION Spec
CONSTANTS
  a1 = a1
  a2 = a2
  a3 = a3
  c1 = c1
  c2 = c2
  Client <- TwoClients
  Sql <- OneText
  Slashed <- SlashedText
  Op <- AnalyzeOnly
  Addr <- TwoBlocks
  Null = Null
  Wild = Wild
  Junk = Junk
  None = None
PROPERTIES KeepsPromise
