SPECIFICATION Spec
SYMMETRY Symmetry
CHECK_DEADLOCK FALSE
CONSTANTS
  Parsers = {p1, p2}
  a = a
  b = b
  Names <- MCNames
  Texts <- MCTexts
  MaxCalls = 3
  None = None
INVARIANTS
  OnlyWholeTextsAreShared
  EarlierNamesAreKnown
  OwnDefinitionsWin
  LoneCallReplaces
