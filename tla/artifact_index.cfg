CONSTANTS
  Artifact = {a1}
  Upload = {u1, u2}
  Worker = {w1, w2, w3}
  Job = {j1, j2}
  Null = Null
SPECIFICATION Spec
SYMMETRY Alike
INVARIANT TypeOK
INVARIANT IndexedWasReady
 
 
INVARIANT RowsAreCurrent
