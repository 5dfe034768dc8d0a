SPECIFICATION Spec
CONSTANTS
  Width = 2
  Setups = {s1, s2}
  Invocations = {i1}
  Keys <- TwoByteKeys
  MaxVersion = 2
  MaxBlock = 2
  None = None
INVARIANT RegisteredKeysAreGenuine
INVARIANT AcceptedSignersAreRegistered
INVARIANT BoundToTheLedger
PROPERTY SetupsTakeEffect
CHECK_DEADLOCK FALSE
