CONSTANTS
  c1 = c1
  p1 = p1
  p2 = p2
  Id = {a1}
  Meta = {m1, m2}
  Proc = {p1}
  Call = {c1, c2}
  procOf <- OneProcess
  CacheLimit = 1
  Overlap = {}
  Failing <- AllFileOps
  Null = Null
SPECIFICATION SpecStorage
SYMMETRY Slots
INVARIANT SerialInv
PROPERTY ReadableStaysReadable
PROPERTY ImplementsLifecycle
