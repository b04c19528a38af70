---------------------------- MODULE UploadContract ----------------------------
(***************************************************************************)
(* What the upload server promises the clients of an artifactId: its       *)
(* requests, pipeline, storage and cache, with every interleaving and      *)
(* crash, seen from outside.  An upload may be opened where nothing is     *)
(* held; what comes to be held is one whole upload that passes the checks; *)
(* it is acknowledged only then; and from there on, until a client asks for*)
(* its removal, exactly those bytes stay held as that upload's.            *)
(***************************************************************************)
CONSTANTS
  Id,        \* artifactIds
  Whole,     \* an upload with a byte file that passes the checks for it
  Nothing    \* what is held of an artifactId without one

VARIABLES
  promise,   \* what the clients of each artifactId have last been told
  held       \* what the server holds ready of each artifactId

vars == <<promise, held>>

Init ==
  /\ promise = [i \in Id |-> "fresh"]
  /\ held = [i \in Id |-> Nothing]

Tell(i, told) == promise' = [promise EXCEPT ![i] = told]

\* A create is accepted: never over what is held, nor over what was acknowledged.
Open(i) ==
  /\ held[i] = Nothing /\ promise[i] # "acked"
  /\ Tell(i, "open") /\ UNCHANGED held

\* An upload is complete and valid, and becomes what is held; its client may have asked
\* for its removal meanwhile.
Finish(i, upload) ==
  /\ promise[i] \in {"open", "withdrawn"} /\ held[i] = Nothing
  /\ held' = [held EXCEPT ![i] = upload]
  /\ UNCHANGED promise

\* The client is told: only of what is held.
Acknowledge(i) ==
  /\ promise[i] = "open" /\ held[i] # Nothing
  /\ Tell(i, "acked") /\ UNCHANGED held

\* Someone asks for the removal, or the validators do; then what is held may go.
Withdraw(i) == Tell(i, "withdrawn") /\ UNCHANGED held
Remove(i) ==
  /\ promise[i] = "withdrawn"
  /\ held' = [held EXCEPT ![i] = Nothing]
  /\ UNCHANGED promise

\* A process dies, and with it first creates that were never answered.
Crash(unanswered) ==
  /\ \A i \in unanswered : promise[i] = "fresh"
  /\ promise' = [i \in Id |-> IF i \in unanswered THEN "withdrawn" ELSE promise[i]]
  /\ UNCHANGED held

Next ==
  \/ \E i \in Id : \/ Open(i) \/ Acknowledge(i) \/ Withdraw(i) \/ Remove(i)
                   \/ \E upload \in Whole : Finish(i, upload)
  \/ \E unanswered \in SUBSET Id : Crash(unanswered)

Spec == Init /\ [][Next]_vars

\* What a client was told is complete stays as it is: a step takes nothing from it, gives
\* it no other bytes, and lets no new upload in, until someone asks for the removal.
KeepsAcked ==
  \A i \in Id : promise[i] = "acked" =>
    held'[i] = held[i] /\ promise'[i] \in {"acked", "withdrawn"}
AckedStays == [][KeepsAcked]_vars
=============================================================================
