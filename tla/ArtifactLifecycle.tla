-------------------------- MODULE ArtifactLifecycle --------------------------
(***************************************************************************)
(* What a storage adapter promises of one artifactId (the contract of      *)
(* src/storage/types.ts): nothing is known of it, then an upload is        *)
(* reserved under it, then that upload is ready, until it is removed.  A   *)
(* reservation never replaces another, an upload keeps the metadata it was *)
(* reserved with, and nothing disappears unless its removal was asked for. *)
(***************************************************************************)
CONSTANTS Id, Meta, Null

VARIABLES
  life,      \* what is known of each artifactId
  removing   \* the artifactIds a removal is under way for

vars == <<life, removing>>

Nothing == [state |-> "none", meta |-> Null]
Upload(s, m) == [state |-> s, meta |-> m]

Init == life = [i \in Id |-> Nothing] /\ removing = {}

\* reserveUpload: only an artifactId nothing is known of can be reserved.
Reserve(i, m) ==
  /\ life[i] = Nothing
  /\ life' = [life EXCEPT ![i] = Upload("uploading", m)]
  /\ UNCHANGED removing

\* markReady: the upload becomes ready under the metadata it was reserved with.
MarkReady(i) ==
  /\ life[i].state = "uploading"
  /\ life' = [life EXCEPT ![i] = Upload("ready", life[i].meta)]
  /\ UNCHANGED removing

\* remove: while a removal is under way, what was there is forgotten.
Remove(i) ==
  /\ i \in removing
  /\ life' = [life EXCEPT ![i] = Nothing]
  /\ removing' \in {removing, removing \ {i}}

\* A removal starts; removals end, or die with their process.
AskRemoval(i) == removing' = removing \cup {i} /\ UNCHANGED life
EndRemovals == removing' \in SUBSET removing /\ UNCHANGED life

Next ==
  \/ \E i \in Id : \/ \E m \in Meta : Reserve(i, m)
                   \/ MarkReady(i) \/ Remove(i) \/ AskRemoval(i)
  \/ EndRemovals

Spec == Init /\ [][Next]_vars
=============================================================================
