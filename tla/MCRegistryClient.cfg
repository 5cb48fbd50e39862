SPECIFICATION Spec
CONSTANTS
  Callers = {c1, c2}
  Calls <- MCCalls
  MaxCalls = 3
  MaxReferences = 2
  MaxSlice = 2
  Entries0 <- MCEntries0
  Versions0 <- MCVersions0
  Guids <- MCGuids
  None = None
INVARIANTS
  AnswersAreRegistered
  MessagesNameTheirSchema
  CachesAreTrue
PROPERTIES
  EveryCallReturns
CHECK_DEADLOCK FALSE
