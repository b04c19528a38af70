CONSTANTS
  Path = {p1}
  Upload = {u1, u2}
  Job = {j1, j2}
  File <- Layouts
  Races = {}
  Null = Null
SPECIFICATION Spec
SYMMETRY JobsAndUploads
INVARIANT Inv
INVARIANT ScanIsRight
INVARIANT ServedIsWhole
INVARIANT TmpIsTransient
PROPERTY FaststartStays
PROPERTY ReportIsTrue
