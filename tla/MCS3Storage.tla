---------------------------- MODULE MCS3Storage ----------------------------
(* Small instances of S3Storage for TLC. *)
EXTENDS S3Storage, TLC

CONSTANTS c1, p1, p2

\* Every slot in one process, or one slot in the first of two.
OneProcess == [c \in Call |-> p1]
TwoProcesses == [c \in Call |-> IF c = c1 THEN p1 ELSE p2]

\* Only a backend that honours IfNoneMatch sorts out overlapping reservations.
Guarded == [b \in Backend |-> IF b = "conditional" THEN {"reserve"} ELSE {}]
Slots == Permutations(Call) \cup Permutations(Meta)
Metas == Permutations(Meta)
=============================================================================
