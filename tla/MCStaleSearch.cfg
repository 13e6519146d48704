CONSTANTS
  Workers = {w1, w2}
  NoJob = NoJob
  Queries = {q1}
  NoQuery = NoQuery
  NoMatches = NoMatches
  NoEntries = NoEntries
  NoFiles = NoFiles
  StartRoot = r1
  StartPath = p1
  StartLines = 1
  Paths = {p1}
  Lines = {1, 2}
  NoPath = NoPath
  NoDiff = NoDiff
  NoSnapshot = NoSnapshot
  Roots = {r1, r2}
  MaxWeight = 2
SPECIFICATION Spec
INVARIANT SearchFresh
