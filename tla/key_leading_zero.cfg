SPECIFICATION Spec
CONSTANTS
  Width = 2
  Setups = {s1, s2}
  Invocations = {i1}
  Keys <- TwoByteKeys
  MaxVersion = 2
  MaxBlock = 2
  None = None
CHECK_DEADLOCK FALSE
INVARIANT OwnKeyMatches
