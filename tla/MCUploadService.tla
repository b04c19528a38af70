--------------------------- MODULE MCUploadService ---------------------------
(* Small instances of UploadService for TLC. *)
EXTENDS UploadService, TLC

CONSTANTS c1, p1, p2, m1, m2

\* Every slot in one process, or one slot in the first of two.
OneProcess == [c \in Call |-> p1]
TwoProcesses == [c \in Call |-> IF c = c1 THEN p1 ELSE p2]
Everything == [p \in Proc |-> Id]
Slots == Permutations(Call)

\* The first upload comes without a checksum, the second with a right one; the
\* third's is wrong.
Claims == [m \in Meta |-> CASE m = m1 -> "none" [] m = m2 -> "right" [] OTHER -> "wrong"]
AllMutators == Mutator
=============================================================================
