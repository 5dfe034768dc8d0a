SPECIFICATION Spec
SYMMETRY NameSymmetry
CONSTANTS
  MaxValues = 4
  Names = {a, b}
  Scalars <- OneScalar
  Numbers = {0, 1, 2}
  MaxPath = 3
  MaxHeld = 2
INVARIANTS
  OwnedOnce LosesOnlyScalars EqualsIsSameDocument CopiesAreApart
  DotSetChangesOnlyThePath DotRemoveChangesOnlyThePath
PROPERTY FailuresKeepDocuments
