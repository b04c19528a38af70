---------------------------- MODULE ArtifactIndex ----------------------------
(***************************************************************************)
(* The artifact index of examples/fastify-auth-demo/server.mjs: a table of *)
(* the uploads that are ready on disk, kept by several worker processes    *)
(* that share the disk and the database.                                   *)
(*                                                                         *)
(* A row is written by the hook of a completed upload, pruned when a       *)
(* delete is authorized, and every worker reconciles the table with the    *)
(* disk before it serves: it lists the sidecars, reads each, upserts what  *)
(* is ready, fetches all rows, and drops those it did not read.  Reading   *)
(* an artifact back (its sidecar, then the size of its bytes) and each     *)
(* query of the database is one step; a worker may crash between any two.  *)
(***************************************************************************)
CONSTANTS
  Artifact,   \* artifactIds
  Upload,     \* what a row says of an upload: kind, file name, size, relation
  Worker,     \* worker processes
  Job,        \* slots for requests in flight, whichever worker serves them
  Null        \* no row, no upload, no worker

ASSUME NullAssumption == Null \notin Upload \cup Worker \cup Artifact

VARIABLES
  disk,       \* of each artifact, the upload its sidecar describes and what there is of it
  row,        \* the table: what it says of each artifact
  boot,       \* where each worker is with its reconcile
  job,        \* the request in each slot
  wasReady,   \* history: the uploads that were ready under each artifactId
  loose       \* history: artifacts read for the index while they were being deleted, or
              \*   removed with their row in place, until copy and row are gone

vars == <<disk, row, boot, job, wasReady, loose>>

-----------------------------------------------------------------------------

\* A sidecar without its bytes is gutted: the id stays taken, the artifact unreadable.
Missing == [of |-> Null, is |-> "missing"]
Becomes(a, s) == disk' = [disk EXCEPT ![a].is = s]
Ready(a) == disk[a].is = "ready"
Listed(a) == row[a] # Null

\* A worker's reconcile: todo is what is left of the current loop, found what was read.
\* History: late is what became ready since the directory was listed; calm says that
\* nothing but the reconciles of other workers has touched disk and table since.
Down == [pc |-> "down", todo |-> {}, found |-> [a \in Artifact |-> Null], late |-> {},
         calm |-> FALSE]
Reconciling(w) == boot[w].pc \in {"read", "index", "prune"}
Serving(w) == boot[w].pc = "serving"

Idle == [pc |-> "idle", by |-> Null, on |-> Null, got |-> Null]
InFlight(j) == job[j].pc # "idle"

\* Who holds, or is about to take, a copy of artifact a for the index; who deletes it.
Reading(a) ==
  \/ \E j \in Job : job[j].pc \in {"read", "upsert"} /\ job[j].on = a
  \/ \E w \in Worker : /\ boot[w].pc \in {"read", "index"}
                       /\ a \in boot[w].todo \/ boot[w].found[a] # Null
Deleting(a) == \E j \in Job : job[j].pc = "remove" /\ job[j].on = a

Init ==
  /\ disk = [a \in Artifact |-> Missing]
  /\ row = [a \in Artifact |-> Null]
  /\ boot = [w \in Worker |-> Down]
  /\ job = [j \in Job |-> Idle]
  /\ wasReady = [a \in Artifact |-> {}]
  /\ loose = {}

-----------------------------------------------------------------------------
(* What the code reads and writes.                                         *)

\* (Mistakes: the status is not looked at; what the table knows is not read again.)
ReadWhateverStatus(a) == disk[a].of
ReadOnlyUnknown(a) == IF Ready(a) /\ ~Listed(a) THEN disk[a].of ELSE Null

\* readArtifactFromDisk
ReadFromDisk(a) == IF Ready(a) THEN disk[a].of ELSE Null

\* artifactIndex.upsert: a row that exists is left as it is.
Upserted(a, u) == IF Listed(a) THEN row ELSE [row EXCEPT ![a] = u]

\* artifactIndex.remove
Pruned(a) == [row EXCEPT ![a] = Null]

\* (Mistake: the delete is left to the next reconcile.)
UnlistLater(a) == row
Unlist(a) == Pruned(a)

\* (Mistake: rows are compared with the names in the directory.)
DropUnnamed(w) == {a \in Artifact : Listed(a) /\ boot[w].found[a] = Null /\ disk[a] = Missing}
Drop(w) == {a \in Artifact : Listed(a) /\ boot[w].found[a] = Null}

\* (Mistake: what was not found is upserted all the same.)
AfterReadAlways(u) == "upsert"
AfterRead(u) == IF u = Null THEN "idle" ELSE "upsert"

-----------------------------------------------------------------------------
(* Requests, on any worker that serves.                                    *)

Begin(j, w, pc, a) ==
  /\ ~InFlight(j) /\ Serving(w)
  /\ job' = [job EXCEPT ![j] = [pc |-> pc, by |-> w, on |-> a, got |-> Null]]

Disturbed == boot' = [v \in Worker |-> [boot[v] EXCEPT !.calm = FALSE]]

End(j) == job' = [job EXCEPT ![j] = Idle]

\* An upload is created under a free artifactId.
Create(a, u) ==
  /\ disk[a] = Missing /\ \E w \in Worker : Serving(w)
  /\ disk' = [disk EXCEPT ![a] = [of |-> u, is |-> "uploading"]]
  /\ UNCHANGED <<row, boot, job, wasReady>>

\* It is marked ready and its hook is called; a repeated last PATCH does both again.
Complete(j, w, a) ==
  /\ disk[a].is \in {"uploading", "ready"}
  /\ Begin(j, w, "read", a)
  /\ Becomes(a, "ready")
  /\ wasReady' = [wasReady EXCEPT ![a] = @ \cup {disk[a].of}]
  /\ boot' = [v \in Worker |->
       [boot[v] EXCEPT !.late = IF Reconciling(v) /\ ~Ready(a) THEN @ \cup {a} ELSE @,
                       !.calm = FALSE]]
  /\ UNCHANGED row

\* A validator rejects it, the first time or when the last PATCH is repeated: it is
\* removed, and nobody tells the index.
Reject(a) ==
  /\ disk[a].is \in {"uploading", "ready"} /\ \E w \in Worker : Serving(w)
  /\ disk' = [disk EXCEPT ![a] = Missing]
  /\ Disturbed
  /\ UNCHANGED <<row, job, wasReady>>

\* DELETE on the upload route, authorized as a patch: the bytes go, the sidecar stays.
Terminate(a) ==
  /\ disk[a].is \in {"uploading", "ready"} /\ \E w \in Worker : Serving(w)
  /\ Becomes(a, "gutted")
  /\ Disturbed
  /\ UNCHANGED <<row, job, wasReady>>

\* onUploadComplete reads the artifact back.
HookRead(j) ==
  /\ job[j].pc = "read"
  /\ LET u == ReadFromDisk(job[j].on)
     IN  job' = [job EXCEPT ![j] = IF AfterRead(u) = "idle" THEN Idle
                                   ELSE [@ EXCEPT !.pc = "upsert", !.got = u]]
  /\ UNCHANGED <<disk, row, boot, wasReady>>

HookUpsert(j) ==
  /\ job[j].pc = "upsert"
  /\ row' = Upserted(job[j].on, job[j].got)
  /\ End(j)
  /\ UNCHANGED <<disk, boot, wasReady>>

\* The authorize wrapper prunes the row, known or not, before storage.remove is called.
AuthorizeDelete(j, w, a) ==
  /\ Begin(j, w, "remove", a)
  /\ row' = Unlist(a)
  /\ Disturbed
  /\ UNCHANGED <<disk, wasReady>>

Remove(j) ==
  /\ job[j].pc = "remove"
  /\ disk' = [disk EXCEPT ![job[j].on] = Missing]
  /\ End(j)
  /\ UNCHANGED <<row, boot, wasReady>>

\* A file operation or a query fails, and the request with it; of a delete the bytes may
\* be gone already.
Fail(j) ==
  /\ InFlight(j)
  /\ \/ UNCHANGED disk
     \/ job[j].pc = "remove" /\ disk[job[j].on] # Missing /\ Becomes(job[j].on, "gutted")
  /\ End(j)
  /\ UNCHANGED <<row, boot, wasReady>>

-----------------------------------------------------------------------------
(* Workers: reconcileArtifactIndex before listen.                          *)

Become(w, fields) == boot' = [boot EXCEPT ![w] = fields]

Start(w) ==
  /\ boot[w].pc = "down"
  /\ Become(w, [Down EXCEPT
       !.pc = "read", !.todo = {a \in Artifact : disk[a] # Missing},
       !.calm = /\ \A j \in Job : ~InFlight(j)
                /\ \A v \in Worker : Reconciling(v) => boot[v].calm])
  /\ UNCHANGED <<disk, row, job, wasReady>>

ReadOne(w, a) ==
  /\ boot[w].pc = "read" /\ a \in boot[w].todo
  /\ Become(w, [boot[w] EXCEPT !.todo = @ \ {a}, !.found[a] = ReadFromDisk(a)])
  /\ UNCHANGED <<disk, row, job, wasReady>>

ReadAll(w) ==
  /\ boot[w].pc = "read" /\ boot[w].todo = {}
  /\ Become(w, [boot[w] EXCEPT !.pc = "index",
                               !.todo = {a \in Artifact : boot[w].found[a] # Null}])
  /\ UNCHANGED <<disk, row, job, wasReady>>

IndexOne(w, a) ==
  /\ boot[w].pc = "index" /\ a \in boot[w].todo
  /\ row' = Upserted(a, boot[w].found[a])
  /\ Become(w, [boot[w] EXCEPT !.todo = @ \ {a}])
  /\ UNCHANGED <<disk, job, wasReady>>

\* All rows are fetched; those not found are to go.
FetchRows(w) ==
  /\ boot[w].pc = "index" /\ boot[w].todo = {}
  /\ Become(w, [boot[w] EXCEPT !.pc = "prune", !.todo = Drop(w)])
  /\ UNCHANGED <<disk, row, job, wasReady>>

PruneOne(w, a) ==
  /\ boot[w].pc = "prune" /\ a \in boot[w].todo
  /\ row' = Pruned(a)
  /\ Become(w, [boot[w] EXCEPT !.todo = @ \ {a}])
  /\ UNCHANGED <<disk, job, wasReady>>

Listen(w) ==
  /\ boot[w].pc = "prune" /\ boot[w].todo = {}
  /\ Become(w, [Down EXCEPT !.pc = "serving"])
  /\ UNCHANGED <<disk, row, job, wasReady>>

\* A worker dies, with every request it was serving.
Crash(w) ==
  /\ boot[w].pc # "down"
  /\ Become(w, Down)
  /\ job' = [j \in Job |-> IF job[j].by = w THEN Idle ELSE job[j]]
  /\ UNCHANGED <<disk, row, wasReady>>

-----------------------------------------------------------------------------

RequestStep ==
  \/ \E a \in Artifact : Reject(a) \/ Terminate(a) \/ \E u \in Upload : Create(a, u)
  \/ \E j \in Job :
       \/ \E w \in Worker, a \in Artifact : Complete(j, w, a) \/ AuthorizeDelete(j, w, a)
       \/ HookRead(j) \/ HookUpsert(j) \/ Remove(j) \/ Fail(j)

WorkerStep ==
  \E w \in Worker :
    \/ Start(w) \/ ReadAll(w) \/ FetchRows(w) \/ Listen(w) \/ Crash(w)
    \/ \E a \in Artifact : ReadOne(w, a) \/ IndexOne(w, a) \/ PruneOne(w, a)

Track ==
  loose' = {a \in Artifact :
    \/ Reading(a)' /\ Deleting(a)'
    \/ (Reading(a) \/ Listed(a)) /\ Reject(a)
    \/ a \in loose /\ (Reading(a)' \/ Listed(a)')}

Next == (RequestStep \/ WorkerStep) /\ Track

Spec == Init /\ [][Next]_vars

-----------------------------------------------------------------------------
(* Properties.                                                             *)

File == [of : Upload, is : {"uploading", "ready", "gutted"}] \cup {Missing}
Reconcile == [pc : {"down", "read", "index", "prune", "serving"}, todo : SUBSET Artifact,
              found : [Artifact -> Upload \cup {Null}], late : SUBSET Artifact, calm : BOOLEAN]
Request == [pc : {"idle", "read", "upsert", "remove"}, by : Worker \cup {Null},
            on : Artifact \cup {Null}, got : Upload \cup {Null}]

\* Every variable has its type; in particular a hook never upserts what it did not find.
TypeOK ==
  /\ disk \in [Artifact -> File]
  /\ row \in [Artifact -> Upload \cup {Null}]
  /\ boot \in [Worker -> Reconcile]
  /\ job \in [Job -> Request]
  /\ \A j \in Job : /\ InFlight(j) => job[j].on \in Artifact
                    /\ job[j].pc = "upsert" => job[j].got \in Upload
  /\ wasReady \in [Artifact -> SUBSET Upload]
  /\ loose \subseteq Artifact

\* The gallery never lists an upload that was not complete under that very artifactId,
\* however the hook, the deletes and the reconciles of restarting workers overlap.
IndexedWasReady == \A a \in Artifact : Listed(a) => row[a] \in wasReady[a]

\* After a reconcile, even among reconciles of other workers and after any history of
\* crashes, failed deletes and lost hooks, the table lists what is ready on disk and
\* nothing else, if no upload was completed, rejected or deleted meanwhile
\* (server.mjs: "the sidecars stay the source of truth").
ReconcileIsExact ==
  \A w \in Worker :
    boot[w].pc = "prune" /\ boot[w].todo = {} /\ boot[w].calm =>
      \A a \in Artifact : Listed(a) <=> Ready(a)

\* A worker that joins while others serve unlists a ready artifact only if that became
\* ready after the worker listed the directory: this is the one way a reconcile hides an
\* upload that is there.
PrunesOnlyLate ==
  \A w \in Worker :
    boot[w].pc = "prune" =>
      \A a \in boot[w].todo : Ready(a) => a \in boot[w].late

\* A listed artifact is listed with the details of the upload that is there, since deletes
\* prune its row before a new upload can take the id, unless it was read for the index
\* while being deleted or a repeated completion had it removed; a row that is wrong then
\* stays so, for an upsert changes nothing.
RowsAreCurrent ==
  \A a \in Artifact : Listed(a) /\ Ready(a) /\ a \notin loose => row[a] = disk[a].of
=============================================================================
