CONSTANTS
  Path = {p1}
  Upload = {u1}
  Job = {j1}
  File <- FewLayouts
  Races = {"remove"}
  Null = Null
SPECIFICATION Spec
INVARIANT RemovedStaysGone
