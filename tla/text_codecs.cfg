SPECIFICATION Spec
CONSTANTS
  MAX_NESTING = 2
  Documents <- SmallDocuments
  Symbols <- SomeSymbols
  Units <- EdgeUnits
  Bytes <- EdgeBytes
  MaxBytes = 4
  MaxEdits = 1
INVARIANTS
  ParsesTheGrammar WrittenValuesReadBack EscapesGiveUtf8
  DecodesLeadingLetters EncodesWhole
CHECK_DEADLOCK FALSE
