\* Two workers: five rapid crashes in a row of one of them are more than its share of the
\* eight the primary tolerates.
SPECIFICATION Spec
CONSTANT Position = {p1, p2}
INVARIANT TypeOK
INVARIANT GivesUpOnlyInACrashLoop
PROPERTY CapacityIsRestored
PROPERTY CrashLoopEnds
PROPERTY ShutdownEnds
CHECK_DEADLOCK FALSE
