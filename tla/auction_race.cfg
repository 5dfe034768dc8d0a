SPECIFICATION Spec
CONSTANTS
  Auctions <- OneAuction
  Bidders <- ThreeBidders
  Values <- ThreeValues
  MaxHeight = 6
  MaxPool = 2
  Nothing = Nothing
INVARIANTS TypeOK EvalIsHighest
PROPERTIES BidsFrozenOnceClosed AppliesCallsAtomically
CHECK_DEADLOCK FALSE
