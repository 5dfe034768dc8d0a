SPECIFICATION SysSpec
CONSTANTS
  a = a b1 = b1 b2 = b2 m = m l = l r = r v = v w = w
  LsccKeys <- MCLscc
  ErccKeys <- MCErcc
  EccKeys <- MCEcc
  CompositeKeys <- MCComposite
  OtherKeys = {}
  MRENCLAVE = m
  Val <- MCVal
  NoVal = NoVal
  Queries = {}
  Genesis <- MCGenesis
  Blocks = {}
  NoEnclave = NoEnclave
  NoChannel = NoChannel
  NoAnswer = NoAnswer
  Channels = {c1}
  Joins = {j1}
  SeqModulus = 8
  Templates <- RebidLoad
  MaxHeight = 3
  MaxBlockTxs = 2
INVARIANT AgreesWithPeer
CHECK_DEADLOCK FALSE
