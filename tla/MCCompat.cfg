SPECIFICATION MCSpec
CONSTANTS
  NoPair = NoPair
  Rounds = 14
  Callers = {c1, c2}
  Schemas <- Nodes
  Graph <- Graphs
  Asked <- AllAsked
INVARIANTS
  ErrorsAreGenuine AssumptionsConfirmed ExactWithoutRecursion
