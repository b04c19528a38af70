------------------------- MODULE ArtifactIndex_proofs -------------------------
(***************************************************************************)
(* The artifact index, for any number of workers, requests and uploads.    *)
(***************************************************************************)
EXTENDS ArtifactIndex, TLAPS

\* A worker's record, updated field by field, stays one.
LEMMA ReconcileUpdates ==
  ASSUME NEW b \in Reconcile
  PROVE  /\ [b EXCEPT !.calm = FALSE] \in Reconcile
         /\ \A t \in SUBSET Artifact : [b EXCEPT !.todo = t] \in Reconcile
         /\ \A t \in SUBSET Artifact : [b EXCEPT !.late = t, !.calm = FALSE] \in Reconcile
         /\ \A t \in SUBSET Artifact, p \in {"index", "prune"} :
              [b EXCEPT !.pc = p, !.todo = t] \in Reconcile
         /\ \A t \in SUBSET Artifact, a \in Artifact, u \in Upload \cup {Null} :
              [b EXCEPT !.todo = t, !.found[a] = u] \in Reconcile
BY DEF Reconcile

\* The state of a file changes, the upload it is of does not.
LEMMA FileUpdates ==
  ASSUME NEW f \in File, f # Missing, NEW s \in {"uploading", "ready", "gutted"}
  PROVE  /\ [f EXCEPT !.is = s] \in File /\ [f EXCEPT !.is = s] # Missing
         /\ [f EXCEPT !.is = s].of = f.of /\ [f EXCEPT !.is = s].is = s
         /\ f.of \in Upload
BY DEF File, Missing

\* Every step keeps the types.
LEMMA TypeStep ==
  ASSUME TypeOK, NullAssumption, [Next]_vars
  PROVE  TypeOK'
<1> loose' \subseteq Artifact
  BY DEF Next, Track, vars, TypeOK
<1>1. ASSUME NEW a \in Artifact, NEW u \in Upload, Create(a, u) PROVE TypeOK'
  BY <1>1 DEF Create, TypeOK, Reconcile, Request, File, Missing, Idle, InFlight
<1>2. ASSUME NEW j \in Job, NEW w \in Worker, NEW a \in Artifact, Complete(j, w, a) PROVE TypeOK'
  <2>1. disk[a] \in File /\ disk[a] # Missing
    <3>1. disk[a].is \in {"uploading", "ready"}
      BY <1>2 DEF Complete
    <3> QED
      BY <3>1 DEF TypeOK, Missing
  <2>2. disk' \in [Artifact -> File]
    BY <1>2, <2>1, FileUpdates DEF Complete, Becomes, TypeOK
  <2>3. boot' \in [Worker -> Reconcile]
    <3> DEFINE L(v) == IF Reconciling(v) /\ ~Ready(a) THEN boot[v].late \cup {a} ELSE boot[v].late
    <3>1. \A v \in Worker : boot[v] \in Reconcile /\ L(v) \in SUBSET Artifact
      BY DEF TypeOK, Reconcile
    <3>2. boot' = [v \in Worker |-> [boot[v] EXCEPT !.late = L(v), !.calm = FALSE]]
      BY <1>2 DEF Complete
    <3> HIDE DEF L
    <3> QED
      BY <3>1, <3>2, ReconcileUpdates
  <2>4. /\ job' \in [Job -> Request]
        /\ \A i \in Job : /\ job'[i].pc # "idle" => job'[i].on \in Artifact
                          /\ job'[i].pc = "upsert" => job'[i].got \in Upload
    BY <1>2 DEF Complete, Begin, TypeOK, Request, InFlight
  <2>5. UNCHANGED row /\ wasReady' \in [Artifact -> SUBSET Upload]
    <3>1. disk[a].of \in Upload
      BY <2>1, FileUpdates
    <3> QED
      BY <1>2, <3>1 DEF Complete, TypeOK
  <2> QED
    BY <2>2, <2>3, <2>4, <2>5 DEF TypeOK, InFlight
<1>3. ASSUME NEW a \in Artifact, Reject(a) PROVE TypeOK'
  <2>1. boot' \in [Worker -> Reconcile]
    BY <1>3, ReconcileUpdates DEF Reject, Disturbed, TypeOK
  <2> QED
    BY <1>3, <2>1 DEF Reject, TypeOK, File, InFlight
<1>4. ASSUME NEW a \in Artifact, Terminate(a) PROVE TypeOK'
  <2>1. boot' \in [Worker -> Reconcile]
    BY <1>4, ReconcileUpdates DEF Terminate, Disturbed, TypeOK
  <2>2. disk[a] \in File /\ disk[a] # Missing
    BY <1>4 DEF TypeOK, Missing, Terminate
  <2>3. disk' \in [Artifact -> File]
    BY <1>4, <2>2, FileUpdates DEF Terminate, Becomes, TypeOK
  <2> QED
    BY <1>4, <2>1, <2>3 DEF Terminate, TypeOK, InFlight
<1>5. ASSUME NEW j \in Job, HookRead(j) PROVE TypeOK'
  <2> DEFINE u == ReadFromDisk(job[j].on)
  <2>1. job[j] \in Request /\ job[j].on \in Artifact /\ InFlight(j)
    BY <1>5 DEF HookRead, TypeOK, InFlight
  <2>2. u \in Upload \cup {Null}
    BY <2>1 DEF TypeOK, ReadFromDisk, Ready, File, Missing
  <2>3. job' = [job EXCEPT ![j] = IF u = Null THEN Idle
                                  ELSE [job[j] EXCEPT !.pc = "upsert", !.got = u]]
    BY <1>5 DEF HookRead, AfterRead
  <2> HIDE DEF u
  <2>4. CASE u = Null
    <3>1. job' = [job EXCEPT ![j] = Idle]
      BY <2>3, <2>4
    <3>2. Idle \in Request /\ Idle.pc = "idle"
      BY DEF Idle, Request
    <3> QED
      BY <1>5, <3>1, <3>2 DEF HookRead, TypeOK, InFlight
  <2>5. CASE u # Null
    <3> DEFINE q == [job[j] EXCEPT !.pc = "upsert", !.got = u]
    <3>1. q \in Request /\ q.on = job[j].on /\ q.pc = "upsert" /\ q.got = u
      BY <2>1, <2>2 DEF Request
    <3>2. job' = [job EXCEPT ![j] = q]
      BY <2>3, <2>5
    <3> HIDE DEF q
    <3> QED
      BY <1>5, <2>1, <2>2, <2>5, <3>1, <3>2 DEF HookRead, TypeOK, InFlight
  <2> QED
    BY <2>4, <2>5
<1>6. ASSUME NEW j \in Job, HookUpsert(j) PROVE TypeOK'
  BY <1>6 DEF HookUpsert, Upserted, End, TypeOK, Reconcile, Request, File, Missing, Idle, InFlight
<1>7. ASSUME NEW j \in Job, NEW w \in Worker, NEW a \in Artifact, AuthorizeDelete(j, w, a) PROVE TypeOK'
  <2>1. boot' \in [Worker -> Reconcile]
    BY <1>7, ReconcileUpdates DEF AuthorizeDelete, Disturbed, TypeOK
  <2>2. /\ job' \in [Job -> Request]
        /\ \A i \in Job : /\ job'[i].pc # "idle" => job'[i].on \in Artifact
                          /\ job'[i].pc = "upsert" => job'[i].got \in Upload
    BY <1>7 DEF AuthorizeDelete, Begin, TypeOK, Request, InFlight
  <2> QED
    BY <1>7, <2>1, <2>2 DEF AuthorizeDelete, Unlist, Pruned, TypeOK, InFlight
<1>8. ASSUME NEW j \in Job, Remove(j) PROVE TypeOK'
  BY <1>8 DEF Remove, End, TypeOK, Reconcile, Request, File, Missing, Idle, InFlight
<1>9. ASSUME NEW j \in Job, Fail(j) PROVE TypeOK'
  <2>1. job[j].on \in Artifact
    BY <1>9 DEF Fail, TypeOK
  <2>2. disk' \in [Artifact -> File]
    <3>1. CASE UNCHANGED disk
      BY <3>1 DEF TypeOK
    <3>2. CASE disk[job[j].on] # Missing /\ Becomes(job[j].on, "gutted")
      <4>1. disk[job[j].on] \in File
        BY <2>1 DEF TypeOK
      <4>2. [disk[job[j].on] EXCEPT !.is = "gutted"] \in File
        BY <3>2, <4>1, FileUpdates
      <4> QED
        BY <2>1, <3>2, <4>2 DEF Becomes, TypeOK
    <3> QED
      BY <1>9, <3>1, <3>2 DEF Fail
  <2> QED
    BY <1>9, <2>2 DEF Fail, End, TypeOK, InFlight, Idle, Request
<1>10. ASSUME NEW w \in Worker, Start(w) PROVE TypeOK'
  BY <1>10 DEF Start, Become, Down, TypeOK, Reconcile, Request, File, Missing, Idle, InFlight
<1>11. ASSUME NEW w \in Worker, NEW a \in Artifact, ReadOne(w, a) PROVE TypeOK'
  <2>1. ReadFromDisk(a) \in Upload \cup {Null}
    BY DEF TypeOK, ReadFromDisk, Ready, File, Missing
  <2>2. boot[w] \in Reconcile /\ boot[w].todo \ {a} \in SUBSET Artifact
    BY DEF TypeOK, Reconcile
  <2>3. boot' \in [Worker -> Reconcile]
    BY <1>11, <2>1, <2>2, ReconcileUpdates DEF ReadOne, Become, TypeOK
  <2> QED
    BY <1>11, <2>3 DEF ReadOne, TypeOK, InFlight
<1>12. ASSUME NEW w \in Worker, ReadAll(w) PROVE TypeOK'
  <2>1. boot' \in [Worker -> Reconcile]
    BY <1>12, ReconcileUpdates DEF ReadAll, Become, TypeOK
  <2> QED
    BY <1>12, <2>1 DEF ReadAll, TypeOK, InFlight
<1>13. ASSUME NEW w \in Worker, NEW a \in Artifact, IndexOne(w, a) PROVE TypeOK'
  BY <1>13 DEF IndexOne, Become, Upserted, TypeOK, Reconcile, Request, File, Missing, Idle, InFlight
<1>14. ASSUME NEW w \in Worker, FetchRows(w) PROVE TypeOK'
  <2>1. boot' \in [Worker -> Reconcile]
    BY <1>14, ReconcileUpdates DEF FetchRows, Become, Drop, TypeOK
  <2> QED
    BY <1>14, <2>1 DEF FetchRows, TypeOK, InFlight
<1>15. ASSUME NEW w \in Worker, NEW a \in Artifact, PruneOne(w, a) PROVE TypeOK'
  BY <1>15 DEF PruneOne, Become, Pruned, TypeOK, Reconcile, Request, File, Missing, Idle, InFlight
<1>16. ASSUME NEW w \in Worker, Listen(w) PROVE TypeOK'
  BY <1>16 DEF Listen, Become, Down, TypeOK, Reconcile, Request, File, Missing, Idle, InFlight
<1>17. ASSUME NEW w \in Worker, Crash(w) PROVE TypeOK'
  BY <1>17 DEF Crash, Become, Down, Idle, TypeOK, Reconcile, Request, File, Missing, Idle, InFlight
<1>18. CASE UNCHANGED vars
  BY <1>18 DEF vars, TypeOK, Reconcile, Request, File, Missing, Idle, InFlight
<1> QED
  BY <1>1, <1>2, <1>3, <1>4, <1>5, <1>6, <1>7, <1>8, <1>9, <1>10, <1>11, <1>12, <1>13, <1>14,
     <1>15, <1>16, <1>17, <1>18
     DEF Next, RequestStep, WorkerStep
-----------------------------------------------------------------------------
\* Rows, and the copies hooks and reconciles hold, are of uploads that were ready.
Honest ==
  /\ IndexedWasReady
  /\ \A a \in Artifact : Ready(a) => disk[a].of \in wasReady[a]
  /\ \A j \in Job : job[j].pc = "upsert" => job[j].got \in wasReady[job[j].on]
  /\ \A w \in Worker, a \in Artifact :
       boot[w].found[a] # Null => boot[w].found[a] \in wasReady[a]

\* What is ready was found, is still to be read, or came later.
LateInv ==
  \A w \in Worker :
    /\ Reconciling(w) => \A a \in Artifact :
         Ready(a) => \/ a \in boot[w].late
                     \/ boot[w].found[a] # Null
                     \/ boot[w].pc = "read" /\ a \in boot[w].todo
    /\ boot[w].pc = "prune" => \A a \in boot[w].todo : boot[w].found[a] = Null

\* Unless an artifact is loose, its row and all copies are of the upload that is there,
\* and while it is deleted there are none.
CurrentAt(a) ==
  /\ Listed(a) => disk[a] # Missing /\ row[a] = disk[a].of
  /\ \A j \in Job : job[j].pc = "upsert" /\ job[j].on = a =>
       disk[a] # Missing /\ job[j].got = disk[a].of
  /\ \A w \in Worker : boot[w].pc \in {"read", "index"} /\ boot[w].found[a] # Null =>
       disk[a] # Missing /\ boot[w].found[a] = disk[a].of
  /\ Deleting(a) => ~Listed(a) /\ ~Reading(a)
Current == \A a \in Artifact \ loose : CurrentAt(a)

\* Where a calm reconcile is between the disk and the table.
Calm ==
  \A w \in Worker : boot[w].calm =>
    /\ Reconciling(w)
    /\ \A j \in Job : ~InFlight(j)
    /\ \A v \in Worker : Reconciling(v) => boot[v].calm
    /\ \A a \in Artifact :
         /\ boot[w].found[a] # Null => Ready(a)
         /\ Ready(a) => boot[w].found[a] # Null \/ (boot[w].pc = "read" /\ a \in boot[w].todo)
         /\ boot[w].pc = "index" /\ boot[w].found[a] # Null => a \in boot[w].todo \/ Listed(a)
         /\ boot[w].pc = "prune" /\ Ready(a) => Listed(a)
         /\ boot[w].pc = "prune" /\ a \in boot[w].todo => ~Ready(a)
         /\ boot[w].pc = "prune" /\ Listed(a) /\ ~Ready(a) => a \in boot[w].todo

\* The artifacts a worker has read, and will upsert.
Found(w) == {a \in Artifact : boot[w].found[a] # Null}

\* What the updates of boot and disk do, field by field.
LEMMA DisturbedEffect ==
  ASSUME TypeOK, Disturbed
  PROVE  \A v \in Worker :
           /\ boot'[v].pc = boot[v].pc /\ boot'[v].todo = boot[v].todo
           /\ boot'[v].found = boot[v].found /\ boot'[v].late = boot[v].late
           /\ boot'[v].calm = FALSE
BY DEF Disturbed, TypeOK, Reconcile

LEMMA NextLoopEffect ==
  ASSUME TypeOK, NEW w \in Worker, NEW p, NEW t, Become(w, [boot[w] EXCEPT !.pc = p, !.todo = t])
  PROVE  /\ boot'[w].pc = p /\ boot'[w].todo = t /\ boot'[w].found = boot[w].found
         /\ boot'[w].late = boot[w].late /\ boot'[w].calm = boot[w].calm
         /\ \A v \in Worker : v # w => boot'[v] = boot[v]
BY DEF Become, TypeOK, Reconcile

LEMMA FileEffect ==
  ASSUME TypeOK, NEW a \in Artifact, disk[a] # Missing,
         NEW s \in {"uploading", "ready", "gutted"}, Becomes(a, s)
  PROVE  /\ disk'[a].of = disk[a].of /\ disk'[a].is = s /\ disk'[a] # Missing
         /\ \A b \in Artifact : b # a => disk'[b] = disk[b]
<1>1. disk[a] \in File
  BY DEF TypeOK
<1>2. disk'[a] = [disk[a] EXCEPT !.is = s] /\ \A b \in Artifact : b # a => disk'[b] = disk[b]
  BY DEF Becomes, TypeOK
<1> DEFINE f == disk[a]
<1> HIDE DEF f
<1>3. [f EXCEPT !.is = s] # Missing /\ [f EXCEPT !.is = s].of = f.of /\ [f EXCEPT !.is = s].is = s
  BY <1>1, FileUpdates DEF f
<1> QED
  BY <1>2, <1>3 DEF f

LEMMA StartEffect ==
  ASSUME TypeOK, NEW w \in Worker, Start(w)
  PROVE  /\ boot[w].pc = "down" /\ boot'[w].pc = "read"
         /\ boot'[w].todo = {a \in Artifact : disk[a] # Missing}
         /\ boot'[w].found = [a \in Artifact |-> Null] /\ boot'[w].late = {}
         /\ boot'[w].calm <=> /\ \A j \in Job : ~InFlight(j)
                             /\ \A v \in Worker : Reconciling(v) => boot[v].calm
         /\ \A v \in Worker : v # w => boot'[v] = boot[v]
<1> DEFINE c == /\ \A j \in Job : ~InFlight(j)
                /\ \A v \in Worker : Reconciling(v) => boot[v].calm
           t == {a \in Artifact : disk[a] # Missing}
<1>1. boot' = [boot EXCEPT ![w] = [Down EXCEPT !.pc = "read", !.todo = t, !.calm = c]]
  BY DEF Start, Become
<1>2. boot[w].pc = "down"
  BY DEF Start
<1> HIDE DEF c, t
<1>3. /\ boot'[w].pc = "read" /\ boot'[w].todo = t /\ boot'[w].late = {}
      /\ boot'[w].found = [a \in Artifact |-> Null] /\ boot'[w].calm = c
      /\ \A v \in Worker : v # w => boot'[v] = boot[v]
  BY <1>1 DEF Down, TypeOK
<1> QED
  BY <1>2, <1>3 DEF c, t

LEMMA CompleteEffect ==
  ASSUME TypeOK, NEW j \in Job, NEW w \in Worker, NEW a \in Artifact, Complete(j, w, a)
  PROVE  /\ disk[a] # Missing
         /\ disk'[a].of = disk[a].of /\ disk'[a].is = "ready" /\ disk'[a] # Missing
         /\ \A b \in Artifact : b # a => disk'[b] = disk[b]
         /\ \A v \in Worker :
              /\ boot'[v].pc = boot[v].pc /\ boot'[v].todo = boot[v].todo
              /\ boot'[v].found = boot[v].found /\ boot'[v].calm = FALSE
              /\ boot[v].late \subseteq boot'[v].late
              /\ Reconciling(v) /\ ~Ready(a) => a \in boot'[v].late
         /\ ~InFlight(j) /\ job'[j].pc = "read" /\ job'[j].on = a
         /\ \A i \in Job : i # j => job'[i] = job[i]
<1>1. disk[a] # Missing
  <2>1. disk[a].is \in {"uploading", "ready"}
    BY DEF Complete
  <2> QED
    BY <2>1 DEF Missing
<1>2. Becomes(a, "ready")
  BY DEF Complete
<1> DEFINE L(v) == IF Reconciling(v) /\ ~Ready(a) THEN boot[v].late \cup {a} ELSE boot[v].late
<1>3. boot' = [v \in Worker |-> [boot[v] EXCEPT !.late = L(v), !.calm = FALSE]]
  BY DEF Complete
<1>4. \A v \in Worker :
        boot[v].late \subseteq L(v) /\ (Reconciling(v) /\ ~Ready(a) => a \in L(v))
  OBVIOUS
<1> HIDE DEF L
<1>5. \A v \in Worker :
        /\ boot'[v].pc = boot[v].pc /\ boot'[v].todo = boot[v].todo
        /\ boot'[v].found = boot[v].found /\ boot'[v].calm = FALSE /\ boot'[v].late = L(v)
  BY <1>3 DEF TypeOK, Reconcile
<1>6. /\ ~InFlight(j) /\ job'[j].pc = "read" /\ job'[j].on = a
      /\ \A i \in Job : i # j => job'[i] = job[i]
  BY DEF Complete, Begin, TypeOK
<1> QED
  BY <1>1, <1>2, <1>4, <1>5, <1>6, FileEffect

\* Every step keeps copies honest.
LEMMA HonestStep ==
  ASSUME TypeOK, TypeOK', NullAssumption, Honest, [Next]_vars
  PROVE  Honest'
<1>1. ASSUME NEW a \in Artifact, NEW u \in Upload, Create(a, u) PROVE Honest'
  BY <1>1, NullAssumption DEF Create, Honest, IndexedWasReady, Listed, Ready, TypeOK, Reconcile,
     Request, File, Missing, Idle, InFlight, Down, Reconciling, ReadFromDisk
<1>2. ASSUME NEW j \in Job, NEW w \in Worker, NEW a \in Artifact, Complete(j, w, a) PROVE Honest'
  <2> DEFINE u == disk[a].of
  <2>1. wasReady' = [wasReady EXCEPT ![a] = wasReady[a] \cup {u}]
    BY <1>2 DEF Complete
  <2>2. /\ wasReady'[a] = wasReady[a] \cup {u}
        /\ \A b \in Artifact : b # a => wasReady'[b] = wasReady[b]
    BY <2>1 DEF TypeOK
  <2>3. UNCHANGED row
    BY <1>2 DEF Complete
  <2>4. /\ disk[a] # Missing
        /\ disk'[a].of = disk[a].of /\ disk'[a].is = "ready" /\ disk'[a] # Missing
        /\ \A b \in Artifact : b # a => disk'[b] = disk[b]
        /\ \A v \in Worker :
             /\ boot'[v].pc = boot[v].pc /\ boot'[v].todo = boot[v].todo
             /\ boot'[v].found = boot[v].found /\ boot'[v].calm = FALSE
             /\ boot[v].late \subseteq boot'[v].late
             /\ Reconciling(v) /\ ~Ready(a) => a \in boot'[v].late
        /\ ~InFlight(j) /\ job'[j].pc = "read" /\ job'[j].on = a
        /\ \A i \in Job : i # j => job'[i] = job[i]
    BY <1>2, CompleteEffect
  <2> QED
    <3>1. \A i \in Job : job[i].pc = "upsert" => job[i].on \in Artifact
      BY DEF TypeOK, InFlight
    <3> QED
      BY <2>2, <2>3, <2>4, <3>1 DEF InFlight, Honest, IndexedWasReady, Listed, Ready
<1>3. ASSUME NEW a \in Artifact, Reject(a) PROVE Honest'
  BY <1>3, NullAssumption DEF Reject, Disturbed, Becomes, Honest, IndexedWasReady, Listed, Ready,
     TypeOK, Reconcile, Request, File, Missing, Idle, InFlight, Down, Reconciling, ReadFromDisk
<1>4. ASSUME NEW a \in Artifact, Terminate(a) PROVE Honest'
  <2>1. Disturbed /\ Becomes(a, "gutted") /\ disk[a] # Missing
    BY <1>4 DEF Terminate, Missing
  <2>2. \A v \in Worker :
          /\ boot'[v].pc = boot[v].pc /\ boot'[v].todo = boot[v].todo
          /\ boot'[v].found = boot[v].found /\ boot'[v].late = boot[v].late
          /\ boot'[v].calm = FALSE
    BY <2>1, DisturbedEffect
  <2>3. /\ disk'[a].of = disk[a].of /\ disk'[a].is = "gutted" /\ disk'[a] # Missing
        /\ \A b \in Artifact : b # a => disk'[b] = disk[b]
    BY <2>1, FileEffect
  <2>4. UNCHANGED <<row, job, wasReady>>
    BY <1>4 DEF Terminate
  <2> QED
    BY <2>1, <2>2, <2>3, <2>4 DEF Honest, IndexedWasReady, Listed, Ready
<1>5. ASSUME NEW j \in Job, HookRead(j) PROVE Honest'
  BY <1>5, NullAssumption DEF HookRead, AfterRead, ReadFromDisk, Honest, IndexedWasReady, Listed,
     Ready, TypeOK, Reconcile, Request, File, Missing, Idle, InFlight, Down, Reconciling,
     ReadFromDisk
<1>6. ASSUME NEW j \in Job, HookUpsert(j) PROVE Honest'
  BY <1>6, NullAssumption DEF HookUpsert, Upserted, End, Honest, IndexedWasReady, Listed, Ready,
     TypeOK, Reconcile, Request, File, Missing, Idle, InFlight, Down, Reconciling, ReadFromDisk
<1>7. ASSUME NEW j \in Job, NEW w \in Worker, NEW a \in Artifact, AuthorizeDelete(j, w, a) PROVE Honest'
  <2>1. Disturbed
    BY <1>7 DEF AuthorizeDelete
  <2>2. \A v \in Worker :
          /\ boot'[v].pc = boot[v].pc /\ boot'[v].todo = boot[v].todo
          /\ boot'[v].found = boot[v].found /\ boot'[v].late = boot[v].late
          /\ boot'[v].calm = FALSE
    BY <2>1, DisturbedEffect
  <2>3. UNCHANGED <<disk, wasReady>>
    BY <1>7 DEF AuthorizeDelete
  <2>4. row'[a] = Null /\ \A b \in Artifact : b # a => row'[b] = row[b]
    BY <1>7 DEF AuthorizeDelete, Unlist, Pruned, TypeOK
  <2>5. /\ job[j].pc = "idle" /\ job'[j].pc = "remove" /\ job'[j].on = a
        /\ \A i \in Job : i # j => job'[i] = job[i]
    BY <1>7 DEF AuthorizeDelete, Begin, TypeOK, InFlight
  <2> QED
    BY <2>2, <2>3, <2>4, <2>5 DEF Honest, IndexedWasReady, Listed, Ready
<1>8. ASSUME NEW j \in Job, Remove(j) PROVE Honest'
  BY <1>8, NullAssumption DEF Remove, End, Honest, IndexedWasReady, Listed, Ready, TypeOK,
     Reconcile, Request, File, Missing, Idle, InFlight, Down, Reconciling, ReadFromDisk
<1>9. ASSUME NEW j \in Job, Fail(j) PROVE Honest'
  <2>1. CASE UNCHANGED disk
    BY <1>9, <2>1 DEF Fail, End, Idle, TypeOK, Honest, IndexedWasReady, Listed, Ready
  <2>2. CASE job[j].pc = "remove" /\ disk[job[j].on] # Missing /\ Becomes(job[j].on, "gutted")
    <3>1. job[j].on \in Artifact
      BY <1>9 DEF Fail, TypeOK
    <3> QED
      BY <1>9, <2>2, <3>1, FileEffect DEF Fail, End, Idle, TypeOK, Honest, IndexedWasReady,
         Listed, Ready
  <2> QED
    BY <1>9, <2>1, <2>2 DEF Fail
<1>10. ASSUME NEW w \in Worker, Start(w) PROVE Honest'
  <2>1. UNCHANGED <<disk, row, job, wasReady>>
    BY <1>10 DEF Start
  <2>2. /\ boot'[w].pc = "read"
        /\ boot'[w].todo = {a \in Artifact : disk[a] # Missing}
        /\ boot'[w].found = [a \in Artifact |-> Null] /\ boot'[w].late = {}
        /\ boot'[w].calm <=> /\ \A j \in Job : ~InFlight(j)
                            /\ \A v \in Worker : Reconciling(v) => boot[v].calm
        /\ \A v \in Worker : v # w => boot'[v] = boot[v]
    BY <1>10, StartEffect
  <2>3. \A a \in Artifact : Ready(a) => disk[a] # Missing
    BY DEF Ready, Missing
  <2>4. \A a \in Artifact : boot'[w].found[a] = Null /\ (Ready(a) => a \in boot'[w].todo)
    BY <2>2, <2>3
  <2> HIDE DEF Missing
  <2> QED
    BY <2>1, <2>2, <2>4 DEF Honest, IndexedWasReady, Listed, Ready
<1>11. ASSUME NEW w \in Worker, NEW a \in Artifact, ReadOne(w, a) PROVE Honest'
  BY <1>11, NullAssumption DEF ReadOne, Become, ReadFromDisk, Honest, IndexedWasReady, Listed,
     Ready, TypeOK, Reconcile, Request, File, Missing, Idle, InFlight, Down, Reconciling,
     ReadFromDisk
<1>12. ASSUME NEW w \in Worker, ReadAll(w) PROVE Honest'
  <2>1. Become(w, [boot[w] EXCEPT !.pc = "index", !.todo = Found(w)])
    BY <1>12 DEF ReadAll, Found
  <2>2. /\ boot'[w].pc = "index" /\ boot'[w].todo = Found(w) /\ boot'[w].found = boot[w].found
        /\ boot'[w].late = boot[w].late /\ boot'[w].calm = boot[w].calm
        /\ \A v \in Worker : v # w => boot'[v] = boot[v]
    BY <2>1, NextLoopEffect
  <2>3. /\ boot[w].pc = "read" /\ boot[w].todo = {}
        /\ UNCHANGED <<disk, row, job, wasReady>>
    BY <1>12 DEF ReadAll
  <2> QED
    BY <2>2, <2>3 DEF Found, Honest, IndexedWasReady, Listed, Ready
<1>13. ASSUME NEW w \in Worker, NEW a \in Artifact, IndexOne(w, a) PROVE Honest'
  BY <1>13, NullAssumption DEF IndexOne, Become, Upserted, Honest, IndexedWasReady, Listed, Ready,
     TypeOK, Reconcile, Request, File, Missing, Idle, InFlight, Down, Reconciling, ReadFromDisk
<1>14. ASSUME NEW w \in Worker, FetchRows(w) PROVE Honest'
  <2>1. Become(w, [boot[w] EXCEPT !.pc = "prune", !.todo = Drop(w)])
    BY <1>14 DEF FetchRows
  <2>2. /\ boot'[w].pc = "prune" /\ boot'[w].todo = Drop(w) /\ boot'[w].found = boot[w].found
        /\ boot'[w].late = boot[w].late /\ boot'[w].calm = boot[w].calm
        /\ \A v \in Worker : v # w => boot'[v] = boot[v]
    BY <2>1, NextLoopEffect
  <2>3. /\ boot[w].pc = "index" /\ boot[w].todo = {}
        /\ UNCHANGED <<disk, row, job, wasReady>>
    BY <1>14 DEF FetchRows
  <2> QED
    BY <2>2, <2>3 DEF Drop, Honest, IndexedWasReady, Listed, Ready
<1>15. ASSUME NEW w \in Worker, NEW a \in Artifact, PruneOne(w, a) PROVE Honest'
  BY <1>15, NullAssumption DEF PruneOne, Become, Pruned, Honest, IndexedWasReady, Listed, Ready,
     TypeOK, Reconcile, Request, File, Missing, Idle, InFlight, Down, Reconciling, ReadFromDisk
<1>16. ASSUME NEW w \in Worker, Listen(w) PROVE Honest'
  BY <1>16, NullAssumption DEF Listen, Become, Down, Honest, IndexedWasReady, Listed, Ready,
     TypeOK, Reconcile, Request, File, Missing, Idle, InFlight, Down, Reconciling, ReadFromDisk
<1>17. ASSUME NEW w \in Worker, Crash(w) PROVE Honest'
  BY <1>17, NullAssumption DEF Crash, Become, Down, Idle, Honest, IndexedWasReady, Listed, Ready,
     TypeOK, Reconcile, Request, File, Missing, Idle, InFlight, Down, Reconciling, ReadFromDisk
<1>18. CASE UNCHANGED vars
  BY <1>18 DEF vars, Honest, IndexedWasReady, Listed, Ready, TypeOK, Reconcile, Request, File,
     Missing, Idle, InFlight, Down, Reconciling, ReadFromDisk
<1> QED
  BY <1>1, <1>2, <1>3, <1>4, <1>5, <1>6, <1>7, <1>8, <1>9, <1>10, <1>11, <1>12, <1>13, <1>14,
     <1>15, <1>16, <1>17, <1>18
     DEF Next, RequestStep, WorkerStep

\* Every step keeps account of what a reconcile cannot have found.
LEMMA LateInvStep ==
  ASSUME TypeOK, TypeOK', NullAssumption, LateInv, [Next]_vars
  PROVE  LateInv'
<1>1. ASSUME NEW a \in Artifact, NEW u \in Upload, Create(a, u) PROVE LateInv'
  BY <1>1, NullAssumption DEF Create, LateInv, Ready, TypeOK, Reconcile, File, Missing, Down,
     Reconciling, ReadFromDisk
<1>2. ASSUME NEW j \in Job, NEW w \in Worker, NEW a \in Artifact, Complete(j, w, a) PROVE LateInv'
  <2> DEFINE u == disk[a].of
  <2>1. wasReady' = [wasReady EXCEPT ![a] = wasReady[a] \cup {u}]
    BY <1>2 DEF Complete
  <2>2. /\ wasReady'[a] = wasReady[a] \cup {u}
        /\ \A b \in Artifact : b # a => wasReady'[b] = wasReady[b]
    BY <2>1 DEF TypeOK
  <2>3. UNCHANGED row
    BY <1>2 DEF Complete
  <2>4. /\ disk[a] # Missing
        /\ disk'[a].of = disk[a].of /\ disk'[a].is = "ready" /\ disk'[a] # Missing
        /\ \A b \in Artifact : b # a => disk'[b] = disk[b]
        /\ \A v \in Worker :
             /\ boot'[v].pc = boot[v].pc /\ boot'[v].todo = boot[v].todo
             /\ boot'[v].found = boot[v].found /\ boot'[v].calm = FALSE
             /\ boot[v].late \subseteq boot'[v].late
             /\ Reconciling(v) /\ ~Ready(a) => a \in boot'[v].late
        /\ ~InFlight(j) /\ job'[j].pc = "read" /\ job'[j].on = a
        /\ \A i \in Job : i # j => job'[i] = job[i]
    BY <1>2, CompleteEffect
  <2> QED
    <3>1. \A i \in Job : job[i].pc = "upsert" => job[i].on \in Artifact
      BY DEF TypeOK, InFlight
    <3> QED
      BY <2>2, <2>3, <2>4, <3>1 DEF InFlight, LateInv, Ready, Reconciling
<1>3. ASSUME NEW a \in Artifact, Reject(a) PROVE LateInv'
  <2>1. Disturbed
    BY <1>3 DEF Reject
  <2>2. \A v \in Worker :
          /\ boot'[v].pc = boot[v].pc /\ boot'[v].todo = boot[v].todo
          /\ boot'[v].found = boot[v].found /\ boot'[v].late = boot[v].late
    BY <2>1, DisturbedEffect
  <2>3. disk'[a] = Missing /\ \A b \in Artifact : b # a => disk'[b] = disk[b]
    BY <1>3 DEF Reject, TypeOK
  <2> QED
    BY <2>2, <2>3 DEF Missing, LateInv, Ready, Reconciling
<1>4. ASSUME NEW a \in Artifact, Terminate(a) PROVE LateInv'
  <2>1. Disturbed /\ Becomes(a, "gutted") /\ disk[a] # Missing
    BY <1>4 DEF Terminate, Missing
  <2>2. \A v \in Worker :
          /\ boot'[v].pc = boot[v].pc /\ boot'[v].todo = boot[v].todo
          /\ boot'[v].found = boot[v].found /\ boot'[v].late = boot[v].late
          /\ boot'[v].calm = FALSE
    BY <2>1, DisturbedEffect
  <2>3. /\ disk'[a].of = disk[a].of /\ disk'[a].is = "gutted" /\ disk'[a] # Missing
        /\ \A b \in Artifact : b # a => disk'[b] = disk[b]
    BY <2>1, FileEffect
  <2>4. UNCHANGED <<row, job, wasReady>>
    BY <1>4 DEF Terminate
  <2> QED
    BY <2>1, <2>2, <2>3, <2>4 DEF LateInv, Ready, Reconciling
<1>5. ASSUME NEW j \in Job, HookRead(j) PROVE LateInv'
  BY <1>5, NullAssumption DEF HookRead, AfterRead, ReadFromDisk, LateInv, Ready, TypeOK,
     Reconcile, File, Missing, Down, Reconciling, ReadFromDisk
<1>6. ASSUME NEW j \in Job, HookUpsert(j) PROVE LateInv'
  BY <1>6, NullAssumption DEF HookUpsert, Upserted, End, LateInv, Ready, TypeOK, Reconcile, File,
     Missing, Down, Reconciling, ReadFromDisk
<1>7. ASSUME NEW j \in Job, NEW w \in Worker, NEW a \in Artifact, AuthorizeDelete(j, w, a) PROVE LateInv'
  <2>1. Disturbed
    BY <1>7 DEF AuthorizeDelete
  <2>2. \A v \in Worker :
          /\ boot'[v].pc = boot[v].pc /\ boot'[v].todo = boot[v].todo
          /\ boot'[v].found = boot[v].found /\ boot'[v].late = boot[v].late
          /\ boot'[v].calm = FALSE
    BY <2>1, DisturbedEffect
  <2>3. UNCHANGED <<disk, wasReady>>
    BY <1>7 DEF AuthorizeDelete
  <2>4. row'[a] = Null /\ \A b \in Artifact : b # a => row'[b] = row[b]
    BY <1>7 DEF AuthorizeDelete, Unlist, Pruned, TypeOK
  <2>5. /\ job[j].pc = "idle" /\ job'[j].pc = "remove" /\ job'[j].on = a
        /\ \A i \in Job : i # j => job'[i] = job[i]
    BY <1>7 DEF AuthorizeDelete, Begin, TypeOK, InFlight
  <2> QED
    BY <2>2, <2>3, <2>4, <2>5 DEF LateInv, Ready, Reconciling
<1>8. ASSUME NEW j \in Job, Remove(j) PROVE LateInv'
  BY <1>8, NullAssumption DEF Remove, End, LateInv, Ready, TypeOK, Reconcile, File, Missing, Down,
     Reconciling, ReadFromDisk
<1>9. ASSUME NEW j \in Job, Fail(j) PROVE LateInv'
  <2>1. CASE UNCHANGED disk
    BY <1>9, <2>1 DEF Fail, End, Idle, TypeOK, LateInv, Ready, Reconciling
  <2>2. CASE job[j].pc = "remove" /\ disk[job[j].on] # Missing /\ Becomes(job[j].on, "gutted")
    <3>1. job[j].on \in Artifact
      BY <1>9 DEF Fail, TypeOK
    <3> QED
      BY <1>9, <2>2, <3>1, FileEffect DEF Fail, End, Idle, TypeOK, LateInv, Ready, Reconciling
  <2> QED
    BY <1>9, <2>1, <2>2 DEF Fail
<1>10. ASSUME NEW w \in Worker, Start(w) PROVE LateInv'
  <2>1. UNCHANGED <<disk, row, job, wasReady>>
    BY <1>10 DEF Start
  <2>2. /\ boot'[w].pc = "read"
        /\ boot'[w].todo = {a \in Artifact : disk[a] # Missing}
        /\ boot'[w].found = [a \in Artifact |-> Null] /\ boot'[w].late = {}
        /\ boot'[w].calm <=> /\ \A j \in Job : ~InFlight(j)
                            /\ \A v \in Worker : Reconciling(v) => boot[v].calm
        /\ \A v \in Worker : v # w => boot'[v] = boot[v]
    BY <1>10, StartEffect
  <2>3. \A a \in Artifact : Ready(a) => disk[a] # Missing
    BY DEF Ready, Missing
  <2>4. \A a \in Artifact : boot'[w].found[a] = Null /\ (Ready(a) => a \in boot'[w].todo)
    BY <2>2, <2>3
  <2> HIDE DEF Missing
  <2> QED
    BY <2>1, <2>2, <2>4 DEF LateInv, Ready, Reconciling
<1>11. ASSUME NEW w \in Worker, NEW a \in Artifact, ReadOne(w, a) PROVE LateInv'
  BY <1>11, NullAssumption DEF ReadOne, Become, ReadFromDisk, LateInv, Ready, TypeOK, Reconcile,
     File, Missing, Down, Reconciling, ReadFromDisk
<1>12. ASSUME NEW w \in Worker, ReadAll(w) PROVE LateInv'
  <2>1. Become(w, [boot[w] EXCEPT !.pc = "index", !.todo = Found(w)])
    BY <1>12 DEF ReadAll, Found
  <2>2. /\ boot'[w].pc = "index" /\ boot'[w].todo = Found(w) /\ boot'[w].found = boot[w].found
        /\ boot'[w].late = boot[w].late /\ boot'[w].calm = boot[w].calm
        /\ \A v \in Worker : v # w => boot'[v] = boot[v]
    BY <2>1, NextLoopEffect
  <2>3. /\ boot[w].pc = "read" /\ boot[w].todo = {}
        /\ UNCHANGED <<disk, row, job, wasReady>>
    BY <1>12 DEF ReadAll
  <2> QED
    BY <2>2, <2>3 DEF Found, LateInv, Ready, Reconciling
<1>13. ASSUME NEW w \in Worker, NEW a \in Artifact, IndexOne(w, a) PROVE LateInv'
  BY <1>13, NullAssumption DEF IndexOne, Become, Upserted, LateInv, Ready, TypeOK, Reconcile,
     File, Missing, Down, Reconciling, ReadFromDisk
<1>14. ASSUME NEW w \in Worker, FetchRows(w) PROVE LateInv'
  <2>1. Become(w, [boot[w] EXCEPT !.pc = "prune", !.todo = Drop(w)])
    BY <1>14 DEF FetchRows
  <2>2. /\ boot'[w].pc = "prune" /\ boot'[w].todo = Drop(w) /\ boot'[w].found = boot[w].found
        /\ boot'[w].late = boot[w].late /\ boot'[w].calm = boot[w].calm
        /\ \A v \in Worker : v # w => boot'[v] = boot[v]
    BY <2>1, NextLoopEffect
  <2>3. /\ boot[w].pc = "index" /\ boot[w].todo = {}
        /\ UNCHANGED <<disk, row, job, wasReady>>
    BY <1>14 DEF FetchRows
  <2> QED
    BY <2>2, <2>3 DEF Drop, LateInv, Ready, Reconciling
<1>15. ASSUME NEW w \in Worker, NEW a \in Artifact, PruneOne(w, a) PROVE LateInv'
  BY <1>15, NullAssumption DEF PruneOne, Become, Pruned, LateInv, Ready, TypeOK, Reconcile, File,
     Missing, Down, Reconciling, ReadFromDisk
<1>16. ASSUME NEW w \in Worker, Listen(w) PROVE LateInv'
  BY <1>16, NullAssumption DEF Listen, Become, Down, LateInv, Ready, TypeOK, Reconcile, File,
     Missing, Down, Reconciling, ReadFromDisk
<1>17. ASSUME NEW w \in Worker, Crash(w) PROVE LateInv'
  BY <1>17, NullAssumption DEF Crash, Become, Down, Idle, LateInv, Ready, TypeOK, Reconcile, File,
     Missing, Down, Reconciling, ReadFromDisk
<1>18. CASE UNCHANGED vars
  BY <1>18 DEF vars, LateInv, Ready, TypeOK, Reconcile, File, Missing, Down, Reconciling,
     ReadFromDisk
<1> QED
  BY <1>1, <1>2, <1>3, <1>4, <1>5, <1>6, <1>7, <1>8, <1>9, <1>10, <1>11, <1>12, <1>13, <1>14,
     <1>15, <1>16, <1>17, <1>18
     DEF Next, RequestStep, WorkerStep

\* Every step keeps a calm reconcile on its way to an exact table.
LEMMA CalmStep ==
  ASSUME TypeOK, TypeOK', NullAssumption, Calm, [Next]_vars
  PROVE  Calm'
<1>1. ASSUME NEW a \in Artifact, NEW u \in Upload, Create(a, u) PROVE Calm'
  BY <1>1, NullAssumption DEF Create, Calm, Listed, Ready, TypeOK, Reconcile, Request, File,
     Missing, Idle, InFlight, Down, Reconciling, ReadFromDisk
<1>2. ASSUME NEW j \in Job, NEW w \in Worker, NEW a \in Artifact, Complete(j, w, a) PROVE Calm'
  <2> DEFINE u == disk[a].of
  <2>1. wasReady' = [wasReady EXCEPT ![a] = wasReady[a] \cup {u}]
    BY <1>2 DEF Complete
  <2>2. /\ wasReady'[a] = wasReady[a] \cup {u}
        /\ \A b \in Artifact : b # a => wasReady'[b] = wasReady[b]
    BY <2>1 DEF TypeOK
  <2>3. UNCHANGED row
    BY <1>2 DEF Complete
  <2>4. /\ disk[a] # Missing
        /\ disk'[a].of = disk[a].of /\ disk'[a].is = "ready" /\ disk'[a] # Missing
        /\ \A b \in Artifact : b # a => disk'[b] = disk[b]
        /\ \A v \in Worker :
             /\ boot'[v].pc = boot[v].pc /\ boot'[v].todo = boot[v].todo
             /\ boot'[v].found = boot[v].found /\ boot'[v].calm = FALSE
             /\ boot[v].late \subseteq boot'[v].late
             /\ Reconciling(v) /\ ~Ready(a) => a \in boot'[v].late
        /\ ~InFlight(j) /\ job'[j].pc = "read" /\ job'[j].on = a
        /\ \A i \in Job : i # j => job'[i] = job[i]
    BY <1>2, CompleteEffect
  <2> QED
    <3>1. \A i \in Job : job[i].pc = "upsert" => job[i].on \in Artifact
      BY DEF TypeOK, InFlight
    <3> QED
      BY <2>2, <2>3, <2>4, <3>1 DEF InFlight, Calm, Listed, Ready, Reconciling, InFlight
<1>3. ASSUME NEW a \in Artifact, Reject(a) PROVE Calm'
  BY <1>3, NullAssumption DEF Reject, Disturbed, Becomes, Calm, Listed, Ready, TypeOK, Reconcile,
     Request, File, Missing, Idle, InFlight, Down, Reconciling, ReadFromDisk
<1>4. ASSUME NEW a \in Artifact, Terminate(a) PROVE Calm'
  BY <1>4, NullAssumption DEF Terminate, Becomes, Disturbed, Calm, Listed, Ready, TypeOK,
     Reconcile, Request, File, Missing, Idle, InFlight, Down, Reconciling, ReadFromDisk
<1>5. ASSUME NEW j \in Job, HookRead(j) PROVE Calm'
  BY <1>5, NullAssumption DEF HookRead, AfterRead, ReadFromDisk, Calm, Listed, Ready, TypeOK,
     Reconcile, Request, File, Missing, Idle, InFlight, Down, Reconciling, ReadFromDisk
<1>6. ASSUME NEW j \in Job, HookUpsert(j) PROVE Calm'
  BY <1>6, NullAssumption DEF HookUpsert, Upserted, End, Calm, Listed, Ready, TypeOK, Reconcile,
     Request, File, Missing, Idle, InFlight, Down, Reconciling, ReadFromDisk
<1>7. ASSUME NEW j \in Job, NEW w \in Worker, NEW a \in Artifact, AuthorizeDelete(j, w, a) PROVE Calm'
  BY <1>7, NullAssumption DEF AuthorizeDelete, Begin, Unlist, Pruned, Disturbed, InFlight,
     Serving, Calm, Listed, Ready, TypeOK, Reconcile, Request, File, Missing, Idle, InFlight,
     Down, Reconciling, ReadFromDisk
<1>8. ASSUME NEW j \in Job, Remove(j) PROVE Calm'
  BY <1>8, NullAssumption DEF Remove, End, Calm, Listed, Ready, TypeOK, Reconcile, Request, File,
     Missing, Idle, InFlight, Down, Reconciling, ReadFromDisk
<1>9. ASSUME NEW j \in Job, Fail(j) PROVE Calm'
  BY <1>9, NullAssumption DEF Fail, End, Becomes, InFlight, Calm, Listed, Ready, TypeOK,
     Reconcile, Request, File, Missing, Idle, InFlight, Down, Reconciling, ReadFromDisk
<1>10. ASSUME NEW w \in Worker, Start(w) PROVE Calm'
  <2>1. UNCHANGED <<disk, row, job, wasReady>>
    BY <1>10 DEF Start
  <2>2. /\ boot'[w].pc = "read"
        /\ boot'[w].todo = {a \in Artifact : disk[a] # Missing}
        /\ boot'[w].found = [a \in Artifact |-> Null] /\ boot'[w].late = {}
        /\ boot'[w].calm <=> /\ \A j \in Job : ~InFlight(j)
                            /\ \A v \in Worker : Reconciling(v) => boot[v].calm
        /\ \A v \in Worker : v # w => boot'[v] = boot[v]
    BY <1>10, StartEffect
  <2>3. \A a \in Artifact : Ready(a) => disk[a] # Missing
    BY DEF Ready, Missing
  <2>4. \A a \in Artifact : boot'[w].found[a] = Null /\ (Ready(a) => a \in boot'[w].todo)
    BY <2>2, <2>3
  <2> HIDE DEF Missing
  <2> QED
    BY <2>1, <2>2, <2>4 DEF Calm, Listed, Ready, Reconciling, InFlight
<1>11. ASSUME NEW w \in Worker, NEW a \in Artifact, ReadOne(w, a) PROVE Calm'
  BY <1>11, NullAssumption DEF ReadOne, Become, ReadFromDisk, Calm, Listed, Ready, TypeOK,
     Reconcile, Request, File, Missing, Idle, InFlight, Down, Reconciling, ReadFromDisk
<1>12. ASSUME NEW w \in Worker, ReadAll(w) PROVE Calm'
  <2>1. Become(w, [boot[w] EXCEPT !.pc = "index", !.todo = Found(w)])
    BY <1>12 DEF ReadAll, Found
  <2>2. /\ boot'[w].pc = "index" /\ boot'[w].todo = Found(w) /\ boot'[w].found = boot[w].found
        /\ boot'[w].late = boot[w].late /\ boot'[w].calm = boot[w].calm
        /\ \A v \in Worker : v # w => boot'[v] = boot[v]
    BY <2>1, NextLoopEffect
  <2>3. /\ boot[w].pc = "read" /\ boot[w].todo = {}
        /\ UNCHANGED <<disk, row, job, wasReady>>
    BY <1>12 DEF ReadAll
  <2> QED
    BY <2>2, <2>3 DEF Found, Calm, Listed, Ready, Reconciling, InFlight
<1>13. ASSUME NEW w \in Worker, NEW a \in Artifact, IndexOne(w, a) PROVE Calm'
  BY <1>13, NullAssumption DEF IndexOne, Become, Upserted, Calm, Listed, Ready, TypeOK, Reconcile,
     Request, File, Missing, Idle, InFlight, Down, Reconciling, ReadFromDisk
<1>14. ASSUME NEW w \in Worker, FetchRows(w) PROVE Calm'
  <2>1. Become(w, [boot[w] EXCEPT !.pc = "prune", !.todo = Drop(w)])
    BY <1>14 DEF FetchRows
  <2>2. /\ boot'[w].pc = "prune" /\ boot'[w].todo = Drop(w) /\ boot'[w].found = boot[w].found
        /\ boot'[w].late = boot[w].late /\ boot'[w].calm = boot[w].calm
        /\ \A v \in Worker : v # w => boot'[v] = boot[v]
    BY <2>1, NextLoopEffect
  <2>3. /\ boot[w].pc = "index" /\ boot[w].todo = {}
        /\ UNCHANGED <<disk, row, job, wasReady>>
    BY <1>14 DEF FetchRows
  <2> QED
    BY <2>2, <2>3 DEF Drop, Calm, Listed, Ready, Reconciling, InFlight
<1>15. ASSUME NEW w \in Worker, NEW a \in Artifact, PruneOne(w, a) PROVE Calm'
  BY <1>15, NullAssumption DEF PruneOne, Become, Pruned, Calm, Listed, Ready, TypeOK, Reconcile,
     Request, File, Missing, Idle, InFlight, Down, Reconciling, ReadFromDisk
<1>16. ASSUME NEW w \in Worker, Listen(w) PROVE Calm'
  BY <1>16, NullAssumption DEF Listen, Become, Down, Calm, Listed, Ready, TypeOK, Reconcile,
     Request, File, Missing, Idle, InFlight, Down, Reconciling, ReadFromDisk
<1>17. ASSUME NEW w \in Worker, Crash(w) PROVE Calm'
  BY <1>17, NullAssumption DEF Crash, Become, Down, Idle, Calm, Listed, Ready, TypeOK, Reconcile,
     Request, File, Missing, Idle, InFlight, Down, Reconciling, ReadFromDisk
<1>18. CASE UNCHANGED vars
  BY <1>18 DEF vars, Calm, Listed, Ready, TypeOK, Reconcile, Request, File, Missing, Idle,
     InFlight, Down, Reconciling, ReadFromDisk
<1> QED
  BY <1>1, <1>2, <1>3, <1>4, <1>5, <1>6, <1>7, <1>8, <1>9, <1>10, <1>11, <1>12, <1>13, <1>14,
     <1>15, <1>16, <1>17, <1>18
     DEF Next, RequestStep, WorkerStep

\* Every step keeps rows and copies current, or marks the artifact loose.
LEMMA CurrentStep ==
  ASSUME TypeOK, TypeOK', NullAssumption, Current, Next
  PROVE  Current'
<1> SUFFICES ASSUME NEW a \in Artifact, a \notin loose'
             PROVE  CurrentAt(a)'
  BY DEF Current
<1>1. /\ ~(Reading(a)' /\ Deleting(a)')
      /\ ~((Reading(a) \/ Listed(a)) /\ Reject(a))
      /\ a \in loose => ~Reading(a)' /\ ~Listed(a)'
  BY DEF Next, Track
<1>2. CASE a \in loose
  BY <1>1, <1>2 DEF CurrentAt, Reading
<1>3. CASE a \notin loose
  <2>1. CurrentAt(a)
    BY <1>3 DEF Current
  <2>2. /\ Listed(a) => disk[a] # Missing /\ row[a] = disk[a].of
        /\ \A j \in Job : job[j].pc = "upsert" /\ job[j].on = a =>
             disk[a] # Missing /\ job[j].got = disk[a].of
        /\ \A w \in Worker : boot[w].pc \in {"read", "index"} /\ boot[w].found[a] # Null =>
             disk[a] # Missing /\ boot[w].found[a] = disk[a].of
        /\ Deleting(a) => ~Listed(a) /\ ~Reading(a)
    BY <2>1 DEF CurrentAt
  <2>3. \A j \in Job : job[j].pc \in {"read", "upsert"} /\ job[j].on = a => Reading(a)
    BY DEF Reading
  <2>4. \A w \in Worker : boot[w].pc \in {"read", "index"}
                          /\ (a \in boot[w].todo \/ boot[w].found[a] # Null) => Reading(a)
    BY DEF Reading
  <2>5. ASSUME Deleting(a)' => ~Listed(a)',
               Listed(a)' => disk'[a] # Missing /\ row'[a] = disk'[a].of,
               \A j \in Job : job'[j].pc = "upsert" /\ job'[j].on = a =>
                 disk'[a] # Missing /\ job'[j].got = disk'[a].of,
               \A w \in Worker : boot'[w].pc \in {"read", "index"} /\ boot'[w].found[a] # Null =>
                 disk'[a] # Missing /\ boot'[w].found[a] = disk'[a].of
        PROVE  CurrentAt(a)'
    BY <1>1, <2>5 DEF CurrentAt
  <2>6. ASSUME NEW b \in Artifact, NEW u \in Upload, Create(b, u) PROVE CurrentAt(a)'
    <3>1. UNCHANGED <<row, boot, job>>
      BY <2>6 DEF Create
    <3>2. b # a => disk'[a] = disk[a]
      BY <2>6 DEF Create, TypeOK
    <3>3. b = a => disk[a] = Missing
      BY <2>6 DEF Create
    <3> QED
      BY <2>2, <2>5, <3>1, <3>2, <3>3 DEF Listed, Deleting
  <2>7. ASSUME NEW j \in Job, NEW w \in Worker, NEW b \in Artifact, Complete(j, w, b) PROVE CurrentAt(a)'
    <3>1. /\ disk[b] # Missing
          /\ disk'[b].of = disk[b].of /\ disk'[b].is = "ready" /\ disk'[b] # Missing
          /\ \A c \in Artifact : c # b => disk'[c] = disk[c]
          /\ \A v \in Worker :
               /\ boot'[v].pc = boot[v].pc /\ boot'[v].todo = boot[v].todo
               /\ boot'[v].found = boot[v].found /\ boot'[v].calm = FALSE
               /\ boot[v].late \subseteq boot'[v].late
               /\ Reconciling(v) /\ ~Ready(b) => b \in boot'[v].late
          /\ ~InFlight(j) /\ job'[j].pc = "read" /\ job'[j].on = b
          /\ \A i \in Job : i # j => job'[i] = job[i]
      BY <2>7, CompleteEffect
    <3>2. UNCHANGED row
      BY <2>7 DEF Complete
    <3> QED
      BY <2>2, <2>5, <3>1, <3>2 DEF Listed, Deleting
  <2>8. ASSUME NEW b \in Artifact, Reject(b) PROVE CurrentAt(a)'
    <3>1. \A v \in Worker : /\ boot'[v].pc = boot[v].pc /\ boot'[v].todo = boot[v].todo
                            /\ boot'[v].found = boot[v].found
      BY <2>8, DisturbedEffect DEF Reject
    <3>2. UNCHANGED <<row, job>> /\ (b # a => disk'[a] = disk[a])
      BY <2>8 DEF Reject, TypeOK
    <3>3. b = a => ~Reading(a) /\ ~Listed(a)
      BY <1>1, <2>8
    <3> QED
      BY <2>2, <2>5, <2>3, <2>4, <3>1, <3>2, <3>3 DEF Listed, Deleting
  <2>9. ASSUME NEW b \in Artifact, Terminate(b) PROVE CurrentAt(a)'
    <3>1. \A v \in Worker : /\ boot'[v].pc = boot[v].pc /\ boot'[v].todo = boot[v].todo
                            /\ boot'[v].found = boot[v].found
      BY <2>9, DisturbedEffect DEF Terminate
    <3>2. UNCHANGED <<row, job>> /\ Becomes(b, "gutted") /\ disk[b] # Missing
      BY <2>9 DEF Terminate, Missing
    <3>3. /\ disk'[b].of = disk[b].of /\ disk'[b] # Missing
          /\ b # a => disk'[a] = disk[a]
      BY <3>2, FileEffect
    <3> QED
      BY <2>2, <2>5, <3>1, <3>2, <3>3 DEF Listed, Deleting
  <2>10. ASSUME NEW j \in Job, HookRead(j) PROVE CurrentAt(a)'
    <3>1. UNCHANGED <<disk, row, boot>>
      BY <2>10 DEF HookRead
    <3>2. \A i \in Job : i # j => job'[i] = job[i]
      BY <2>10 DEF HookRead, TypeOK
    <3>3. job'[j].pc = "upsert" => /\ job'[j].on = job[j].on
                                   /\ Ready(job[j].on) /\ job'[j].got = disk[job[j].on].of
      BY <2>10, NullAssumption DEF HookRead, AfterRead, ReadFromDisk, TypeOK, Request, Idle
    <3>4. job'[j].pc \in {"idle", "upsert"}
      BY <2>10 DEF HookRead, AfterRead, TypeOK, Request, Idle
    <3>5. Ready(a) => disk[a] # Missing
      BY DEF Ready, Missing
    <3> QED
      BY <2>2, <2>5, <3>1, <3>2, <3>3, <3>4, <3>5 DEF Listed, Deleting
  <2>11. ASSUME NEW j \in Job, HookUpsert(j) PROVE CurrentAt(a)'
    <3>1. UNCHANGED <<disk, boot>>
      BY <2>11 DEF HookUpsert
    <3>2. job'[j].pc = "idle" /\ \A i \in Job : i # j => job'[i] = job[i]
      BY <2>11 DEF HookUpsert, End, Idle, TypeOK
    <3>3. \/ row'[a] = row[a]
          \/ job[j].pc = "upsert" /\ job[j].on = a /\ row'[a] = job[j].got
      BY <2>11 DEF HookUpsert, Upserted, TypeOK
    <3> QED
      BY <2>2, <2>5, <2>3, <3>1, <3>2, <3>3 DEF Listed, Deleting
  <2>12. ASSUME NEW j \in Job, NEW w \in Worker, NEW b \in Artifact, AuthorizeDelete(j, w, b) PROVE CurrentAt(a)'
    <3>1. \A v \in Worker : /\ boot'[v].pc = boot[v].pc /\ boot'[v].todo = boot[v].todo
                            /\ boot'[v].found = boot[v].found
      BY <2>12, DisturbedEffect DEF AuthorizeDelete
    <3>2. UNCHANGED disk
      BY <2>12 DEF AuthorizeDelete
    <3>3. /\ job'[j].pc = "remove" /\ job'[j].on = b
          /\ \A i \in Job : i # j => job'[i] = job[i]
      BY <2>12 DEF AuthorizeDelete, Begin, TypeOK
    <3>4. IF b = a THEN row'[a] = Null ELSE row'[a] = row[a]
      BY <2>12 DEF AuthorizeDelete, Unlist, Pruned, TypeOK
    <3> QED
      BY <2>2, <2>5, <3>1, <3>2, <3>3, <3>4 DEF Listed, Deleting
  <2>13. ASSUME NEW j \in Job, Remove(j) PROVE CurrentAt(a)'
    <3>1. UNCHANGED <<row, boot>>
      BY <2>13 DEF Remove
    <3>2. job'[j].pc = "idle" /\ \A i \in Job : i # j => job'[i] = job[i]
      BY <2>13 DEF Remove, End, Idle, TypeOK
    <3>3. disk'[a] = disk[a] \/ Deleting(a)
      BY <2>13 DEF Remove, Deleting, TypeOK
    <3> QED
      BY <2>2, <2>5, <2>3, <2>4, <3>1, <3>2, <3>3 DEF Listed, Deleting
  <2>14. ASSUME NEW j \in Job, Fail(j) PROVE CurrentAt(a)'
    <3>1. UNCHANGED <<row, boot>>
      BY <2>14 DEF Fail
    <3>2. job'[j].pc = "idle" /\ \A i \in Job : i # j => job'[i] = job[i]
      BY <2>14 DEF Fail, End, Idle, TypeOK
    <3>3. disk'[a] = disk[a] \/ (disk'[a].of = disk[a].of /\ disk'[a] # Missing)
      <4>1. CASE UNCHANGED disk
        BY <4>1
      <4>2. CASE job[j].pc = "remove" /\ disk[job[j].on] # Missing /\ Becomes(job[j].on, "gutted")
        <5>1. job[j].on \in Artifact
          BY <2>14 DEF Fail, TypeOK
        <5> QED
          BY <4>2, <5>1, FileEffect
      <4> QED
        BY <2>14, <4>1, <4>2 DEF Fail
    <3> QED
      BY <2>2, <2>5, <3>1, <3>2, <3>3 DEF Listed, Deleting
  <2>15. ASSUME NEW w \in Worker, Start(w) PROVE CurrentAt(a)'
    <3>1. UNCHANGED <<disk, row, job>>
      BY <2>15 DEF Start
    <3>2. /\ boot'[w].found = [b \in Artifact |-> Null]
          /\ \A v \in Worker : v # w => boot'[v] = boot[v]
      BY <2>15, StartEffect
    <3>3. boot'[w].found[a] = Null
      BY <3>2
    <3> QED
      BY <2>2, <2>5, <3>1, <3>2, <3>3 DEF Listed, Deleting
  <2>16. ASSUME NEW w \in Worker, NEW b \in Artifact, ReadOne(w, b) PROVE CurrentAt(a)'
    <3>1. UNCHANGED <<disk, row, job>>
      BY <2>16 DEF ReadOne
    <3>2. /\ boot[w].pc = "read" /\ boot'[w].pc = "read"
          /\ \A v \in Worker : v # w => boot'[v] = boot[v]
      BY <2>16 DEF ReadOne, Become, TypeOK, Reconcile
    <3>3. boot'[w].found[a] = IF a = b THEN ReadFromDisk(a) ELSE boot[w].found[a]
      BY <2>16 DEF ReadOne, Become, TypeOK, Reconcile
    <3>4. ReadFromDisk(a) # Null => disk[a] # Missing /\ ReadFromDisk(a) = disk[a].of
      BY DEF ReadFromDisk, Ready, Missing
    <3> QED
      BY <2>2, <2>5, <3>1, <3>2, <3>3, <3>4 DEF Listed, Deleting
  <2>17. ASSUME NEW w \in Worker, ReadAll(w) PROVE CurrentAt(a)'
    <3>1. Become(w, [boot[w] EXCEPT !.pc = "index", !.todo = Found(w)])
      BY <2>17 DEF ReadAll, Found
    <3>2. /\ boot'[w].pc = "index" /\ boot'[w].todo = Found(w) /\ boot'[w].found = boot[w].found
          /\ boot'[w].late = boot[w].late /\ boot'[w].calm = boot[w].calm
          /\ \A v \in Worker : v # w => boot'[v] = boot[v]
      BY <3>1, NextLoopEffect
    <3>3. boot[w].pc = "read" /\ UNCHANGED <<disk, row, job>>
      BY <2>17 DEF ReadAll
    <3> QED
      BY <2>2, <2>5, <3>2, <3>3 DEF Listed, Deleting
  <2>18. ASSUME NEW w \in Worker, NEW b \in Artifact, IndexOne(w, b) PROVE CurrentAt(a)'
    <3>1. UNCHANGED <<disk, job>>
      BY <2>18 DEF IndexOne
    <3>2. /\ boot[w].pc = "index" /\ b \in boot[w].todo
          /\ boot'[w].pc = "index" /\ boot'[w].found = boot[w].found
          /\ \A v \in Worker : v # w => boot'[v] = boot[v]
      BY <2>18 DEF IndexOne, Become, TypeOK, Reconcile
    <3>3. row'[a] = row[a] \/ (b = a /\ row'[a] = boot[w].found[a])
      BY <2>18 DEF IndexOne, Upserted, TypeOK
    <3> QED
      BY <2>2, <2>5, <2>4, <3>1, <3>2, <3>3 DEF Listed, Deleting
  <2>19. ASSUME NEW w \in Worker, FetchRows(w) PROVE CurrentAt(a)'
    <3>1. Become(w, [boot[w] EXCEPT !.pc = "prune", !.todo = Drop(w)])
      BY <2>19 DEF FetchRows
    <3>2. /\ boot'[w].pc = "prune" /\ boot'[w].todo = Drop(w) /\ boot'[w].found = boot[w].found
          /\ boot'[w].late = boot[w].late /\ boot'[w].calm = boot[w].calm
          /\ \A v \in Worker : v # w => boot'[v] = boot[v]
      BY <3>1, NextLoopEffect
    <3>3. boot[w].pc = "index" /\ UNCHANGED <<disk, row, job>>
      BY <2>19 DEF FetchRows
    <3> QED
      BY <2>2, <2>5, <3>2, <3>3 DEF Listed, Deleting
  <2>20. ASSUME NEW w \in Worker, NEW b \in Artifact, PruneOne(w, b) PROVE CurrentAt(a)'
    <3>1. UNCHANGED <<disk, job>>
      BY <2>20 DEF PruneOne
    <3>2. /\ boot[w].pc = "prune" /\ boot'[w].pc = "prune"
          /\ \A v \in Worker : v # w => boot'[v] = boot[v]
      BY <2>20 DEF PruneOne, Become, TypeOK, Reconcile
    <3>3. row'[a] = row[a] \/ row'[a] = Null
      BY <2>20 DEF PruneOne, Pruned, TypeOK
    <3> QED
      BY <2>2, <2>5, <3>1, <3>2, <3>3 DEF Listed, Deleting
  <2>21. ASSUME NEW w \in Worker, Listen(w) PROVE CurrentAt(a)'
    <3>1. UNCHANGED <<disk, row, job>>
      BY <2>21 DEF Listen
    <3>2. boot'[w].pc = "serving" /\ \A v \in Worker : v # w => boot'[v] = boot[v]
      BY <2>21 DEF Listen, Become, Down, TypeOK
    <3> QED
      BY <2>2, <2>5, <3>1, <3>2 DEF Listed, Deleting
  <2>22. ASSUME NEW w \in Worker, Crash(w) PROVE CurrentAt(a)'
    <3>1. UNCHANGED <<disk, row>>
      BY <2>22 DEF Crash
    <3>2. boot'[w].pc = "down" /\ \A v \in Worker : v # w => boot'[v] = boot[v]
      BY <2>22 DEF Crash, Become, Down, TypeOK
    <3>3. \A i \in Job : job'[i].pc = "idle" \/ job'[i] = job[i]
      BY <2>22 DEF Crash, Idle
    <3> QED
      BY <2>2, <2>5, <3>1, <3>2, <3>3 DEF Listed, Deleting
  <2> QED
    BY <2>6, <2>7, <2>8, <2>9, <2>10, <2>11, <2>12, <2>13, <2>14, <2>15, <2>16, <2>17, <2>18,
       <2>19, <2>20, <2>21, <2>22 DEF Next, RequestStep, WorkerStep
<1> QED
  BY <1>2, <1>3

-----------------------------------------------------------------------------
(* Theorems.                                                               *)

LEMMA InitTypes == ASSUME NullAssumption, Init PROVE TypeOK
BY DEF Init, TypeOK, File, Missing, Reconcile, Down, Request, Idle, InFlight

\* At the start nothing is listed, held or read.
LEMMA InitInvariants ==
  ASSUME NullAssumption, Init PROVE Honest /\ LateInv /\ Current /\ Calm
<1>1. /\ \A a \in Artifact : disk[a] = Missing /\ ~Ready(a) /\ ~Listed(a)
      /\ \A j \in Job : job[j].pc = "idle"
      /\ \A w \in Worker : boot[w].pc = "down" /\ boot[w].calm = FALSE
      /\ \A w \in Worker, a \in Artifact : boot[w].found[a] = Null
  BY DEF Init, Missing, Ready, Listed, Idle, Down
<1>2. Honest
  BY <1>1 DEF Honest, IndexedWasReady
<1>3. LateInv
  BY <1>1 DEF LateInv, Reconciling
<1>4. Current
  BY <1>1 DEF Current, CurrentAt, Deleting
<1>5. Calm
  BY <1>1 DEF Calm
<1> QED
  BY <1>2, <1>3, <1>4, <1>5

\* Stuttering keeps all of it.
LEMMA Stutter ==
  ASSUME TypeOK, Honest, LateInv, Current, Calm, UNCHANGED vars
  PROVE  TypeOK' /\ Honest' /\ LateInv' /\ Current' /\ Calm'
<1>1. TypeOK'
  BY DEF TypeOK, vars, InFlight
<1>2. Honest'
  BY DEF Honest, IndexedWasReady, Listed, Ready, vars
<1>3. LateInv'
  BY DEF LateInv, Reconciling, Ready, vars
<1>4. Current'
  BY DEF Current, CurrentAt, Listed, Deleting, Reading, vars
<1>5. Calm'
  BY DEF Calm, Reconciling, InFlight, Ready, Listed, vars
<1> QED
  BY <1>1, <1>2, <1>3, <1>4, <1>5

\* Every variable keeps its type; in particular a hook never upserts what it did not find.
THEOREM TypeCorrect == Spec => []TypeOK
<1>1. Init => TypeOK
  BY InitTypes, NullAssumption
<1>2. TypeOK /\ [Next]_vars => TypeOK'
  BY TypeStep, NullAssumption
<1> QED
  BY <1>1, <1>2, PTL DEF Spec

\* All four invariants hold in every state.
LEMMA Invariant == Spec => [](Honest /\ LateInv /\ Current /\ Calm)
<1>1. Init => Honest /\ LateInv /\ Current /\ Calm
  BY InitInvariants, NullAssumption
<1>2. ASSUME TypeOK, TypeOK', Honest, LateInv, Current, Calm, [Next]_vars
      PROVE  Honest' /\ LateInv' /\ Current' /\ Calm'
  <2>1. CASE Next
    <3>1. Honest'
      BY <1>2, HonestStep, NullAssumption
    <3>2. LateInv'
      BY <1>2, LateInvStep, NullAssumption
    <3>3. Current'
      BY <1>2, <2>1, CurrentStep, NullAssumption
    <3>4. Calm'
      BY <1>2, CalmStep, NullAssumption
    <3> QED
      BY <3>1, <3>2, <3>3, <3>4
  <2>2. CASE UNCHANGED vars
    BY <1>2, <2>2, Stutter
  <2> QED
    BY <1>2, <2>1, <2>2
<1> QED
  BY <1>1, <1>2, TypeCorrect, PTL DEF Spec

\* A row of the gallery is of an upload that was ready under that artifactId.
THEOREM IndexedWasReadyHolds == Spec => []IndexedWasReady
<1>1. Honest => IndexedWasReady
  BY DEF Honest
<1> QED
  BY <1>1, Invariant, PTL

\* A reconcile drops the row of a ready artifact only if that became ready after the worker
\* listed the directory.
THEOREM PrunesOnlyLateHolds == Spec => []PrunesOnlyLate
<1>1. TypeOK /\ LateInv => PrunesOnlyLate
  BY DEF LateInv, PrunesOnlyLate, Reconciling, TypeOK, Reconcile
<1> QED
  BY <1>1, TypeCorrect, Invariant, PTL

\* A reconcile that nothing but other reconciles disturbs ends with the table that the disk
\* calls for.
THEOREM ReconcileIsExactHolds == Spec => []ReconcileIsExact
<1>1. Calm => ReconcileIsExact
  BY DEF Calm, ReconcileIsExact
<1> QED
  BY <1>1, Invariant, PTL

\* A row of a ready artifact is of the upload that is there, unless the artifact is loose.
THEOREM RowsAreCurrentHolds == Spec => []RowsAreCurrent
<1>1. Current => RowsAreCurrent
  BY DEF Current, CurrentAt, RowsAreCurrent
<1> QED
  BY <1>1, Invariant, PTL
===============================================================================
