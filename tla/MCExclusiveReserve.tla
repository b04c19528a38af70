------------------------- MODULE MCExclusiveReserve -------------------------
(* LocalStorage with a history of its reservations, for TLC. *)
EXTENDS MCLocalStorage

VARIABLE won   \* history: reservations of each id that succeeded since its last removal

Wins(c, i) ==
  /\ call[c].id = i /\ call[c].op = "reserve"
  /\ Running(c) /\ call'[c].op = "reserve" /\ call'[c].pc = "done"
Removing(i) == \E c \in Call : call[c].id = i /\ call[c].pc \in Deleting

InitCounted == InitStorage /\ won = [i \in Id |-> 0]
NextCounted ==
  /\ NextStorage
  /\ won' = [i \in Id |-> IF Removing(i) THEN 0
                          ELSE IF won[i] < 2 /\ \E c \in Call : Wins(c, i)
                          THEN won[i] + 1 ELSE won[i]]
SpecCounted == InitCounted /\ [][NextCounted]_<<storageVars, won>>

\* Between two removals of an artifactId at most one reserveUpload of it succeeds: the
\* others get EEXIST, and so a 409.  The code does not keep this.
ExclusiveReserve == \A i \in Id : won[i] <= 1
=============================================================================
