SPECIFICATION FairSpec
CONSTANTS
  NoOne = NoOne
  Registrars = {r1, r2}
  Workers = {w1, w2}
  Names = {n1}
  Converters = {c1}
  Keys = {k1}
  Caching = TRUE
  MaxGens = 4
  MaxDepth = 2
INVARIANTS
  NoLostRegistration OneSnapshotPerDatum CachesOwnTheirBuilds
PROPERTY RegistrationReturns
