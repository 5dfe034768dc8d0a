SPECIFICATION FairSpec
CONSTANTS
  a = a bd = bd m = m l = l r = r o = o v = v w = w
  LsccKeys <- MCLscc
  ErccKeys <- MCErcc
  EccKeys <- MCEcc
  CompositeKeys <- MCComposite
  OtherKeys <- MCOther
  MRENCLAVE = m
  Val <- MCVal
  NoVal = NoVal
  Queries <- MCQueries
  Genesis <- MCGenesis
  NoEnclave = NoEnclave
  NoChannel = NoChannel
  NoAnswer = NoAnswer
  Blocks <- AllBlocks
  Channels = {c1}
  Joins = {j1, j2}
  SeqModulus = 8
  MaxHeight = 3
INVARIANTS TypeOK ContiguousLog NoFutureVersions AssertionFailsOnRepeats
PROPERTIES VersionsAdvance AppliesBlocksAtomically CatchesUp
