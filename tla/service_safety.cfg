CONSTANTS
  c1 = c1
  p1 = p1
  p2 = p2
  m1 = m1
  m2 = m2
  Id = {a1}
  Meta = {m1, m2, m3}
  Wired = {"checksum", "sniffer"}
  claim <- Claims
  Size = 1
  Mp4 = {m1, m2}
  Proc = {p1}
  Call = {c1, c2}
  procOf <- OneProcess
  CacheLimit = 1
  Overlap <- AllMutators
  Races = {}
  Routes <- Everything
  Failing = {"read", "stat", "store"}
  Null = Null
SPECIFICATION Spec
SYMMETRY Slots
INVARIANT ServiceTypeOK
INVARIANT NoPartialServed
INVARIANT AckedIsDurable
INVARIANT ReadyVouchesForBytes
INVARIANT StorageInv
INVARIANT ReadyIsMarked
INVARIANT ServingInv
INVARIANT DurableInv
PROPERTY ImplementsContract
