CONSTANTS
  c1 = c1
  p1 = p1
  p2 = p2
  Id = {a1}
  Meta = {m1, m2}
  Proc = {p1, p2}
  Call = {c1, c2}
  procOf <- TwoProcesses
  CacheLimit = 1
  Backend = {"conditional", "unsupported", "ignoring"}
  Overlap <- Guarded
  MayFail = FALSE
  Null = Null
SPECIFICATION Spec
SYMMETRY Metas
INVARIANT InstancesAgree
