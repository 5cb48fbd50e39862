SPECIFICATION OneFamily
CONSTANTS
  NoPair = NoPair
  Rounds = 12
  Callers = {c1}
  Schemas <- MutualSchemas
  Graph <- Mutual
  Asked <- MutualAsked
INVARIANTS
  AnswersAreRight
