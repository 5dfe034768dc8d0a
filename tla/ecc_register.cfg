SPECIFICATION Spec
CONSTANTS
  Invs = {i1, i2}
  Setups = {s1}
  Addrs = {x1, x2}
  Permits = 2
  LostBefore = {0}
  Programs <- TwoPrograms
  MayFail = FALSE
  NoEnclave = NoEnclave
  Nobody = Nobody
  auction = auction
  bid1 = bid1
  bid2 = bid2
  open = open
  closed = closed
  offer = offer
INVARIANTS SignedSetsMatch
