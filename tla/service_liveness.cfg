CONSTANTS
  c1 = c1
  p1 = p1
  p2 = p2
  m1 = m1
  m2 = m2
  Id = {a1}
  Meta = {m1}
  Wired = {"checksum", "sniffer"}
  claim <- Claims
  Size = 1
  Mp4 = {m1}
  Proc = {p1}
  Call = {c1, c2}
  procOf <- OneProcess
  CacheLimit = 0
  Overlap <- AllMutators
  Races = {}
  Routes <- Everything
  Failing = {"read", "open", "write", "tmpOpen", "tmpWrite", "rename", "stat", "rm", "store"}
  Null = Null
SPECIFICATION FairWork
INVARIANT AckedIsDurable
PROPERTY EveryRequestEnds
