--------------------------- MODULE MCLocalStorage ---------------------------
(* Small instances of LocalStorage for TLC. *)
EXTENDS LocalStorage, TLC

CONSTANTS c1, p1, p2

\* Every slot in one process, or one slot in the first of two.
OneProcess == [c \in Call |-> p1]
TwoProcesses == [c \in Call |-> IF c = c1 THEN p1 ELSE p2]
Slots == Permutations(Call) \cup Permutations(Meta)
AllFileOps == FileOp
=============================================================================
