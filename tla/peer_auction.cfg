SPECIFICATION ReadSpec
CONSTANTS
  a = a b1 = b1 b2 = b2 m = m l = l r = r v = v w = w
  LsccKeys <- MCLscc
  ErccKeys <- MCErcc
  EccKeys <- MCEcc
  CompositeKeys <- MCComposite
  OtherKeys = {}
  MRENCLAVE = m
  Val <- MCVal
  NoVal = NoVal
  Queries = {}
  Genesis <- MCGenesis
  Blocks = {}
  NoEnclave = NoEnclave
  NoChannel = NoChannel
  NoAnswer = NoAnswer
  Channels = {c1}
  Joins = {j1}
  SeqModulus = 8
  Templates <- ReadLoad
  MaxHeight = 3
  MaxBlockTxs = 2
  Reads = {g1}
  Lookups <- AuctionLookups
  NoRead = NoRead
INVARIANTS AgreesWithPeer VerifiedValuesAreCommitted HonestReadsVerify
CHECK_DEADLOCK FALSE
