------------------------------ MODULE S3Storage ------------------------------
(***************************************************************************)
(* The S3/R2 storage adapter, src/storage/s3.ts, at the granularity at     *)
(* which its promises interleave: a step is the effect of one request at   *)
(* the bucket, or the continuation that reads or writes the metadata cache.*)
(*                                                                         *)
(* The bucket is external.  It takes each request in one step: a GET sees a*)
(* whole sidecar or none, a PUT replaces it whole.  A request may fail, and*)
(* a PUT whose answer is lost may have landed all the same.  Backends treat*)
(* the conditional PUT (IfNoneMatch) in three ways: they honour it, reject *)
(* it as unsupported, or ignore it.                                        *)
(*                                                                         *)
(* The key of an upload's object is made of its kind and extension, so each*)
(* Meta of an artifactId has an object of its own.  A request of a process *)
(* that crashes has landed or never does.                                  *)
(***************************************************************************)
EXTENDS MetaCache

CONSTANTS
  Backend,   \* the kinds of backend the bucket may be
  Overlap,   \* for each, the mutating methods that may overlap on one id
  MayFail    \* whether requests to the bucket may fail

Mutator == {"reserve", "markReady", "remove"}
Op == Mutator \cup {"load", "resolve", "digest"}

ASSUME BackendAssumption == Backend \subseteq {"conditional", "unsupported", "ignoring"}
ASSUME OverlapAssumption == Overlap \in [Backend -> SUBSET Mutator]
ASSUME FailAssumption == MayFail \in BOOLEAN

VARIABLES
  backend,   \* the kind of backend the bucket is
  sidecar,   \* .pulsevault/<id>.json
  object,    \* the finished objects of each id, by the Meta their key is made of
  call,      \* the call in each slot
  marked     \* history: ids markReady was ever called for

vars == <<backend, sidecar, object, cache, call, marked>>

Idle == [op |-> "none", id |-> Null, meta |-> Null, pc |-> "idle",
         got |-> NoFile, again |-> FALSE, todo |-> {}]

\* A call that has ended: its outcome, and what it returns.
Ended(r, pc, got) ==
  [Idle EXCEPT !.op = r.op, !.id = r.id, !.pc = pc, !.got = got]

Underway(r) == r.pc \notin {"idle", "done", "conflict", "failed"}
Running(c) == Underway(call[c])

Continue(c, r) == call' = [call EXCEPT ![c] = r]

\* A method rejects, as it does when a request it awaits fails.
Reject(c) == Continue(c, Ended(call[c], "failed", NoFile))
Fail(c) == MayFail /\ Reject(c)

-----------------------------------------------------------------------------
(* loadMeta and what follows it.                                           *)

\* loadMeta has produced r.got.  A reservation is refused if there is any, and
\* else writes, conditionally at first; resolve presigns the key of a ready upload
\* (no request); remove and the digests go on to the object of a known one.
Loaded(r) ==
  CASE r.op = "reserve" /\ r.got # NoFile -> Ended(r, "conflict", NoFile)
    [] r.op = "reserve" /\ r.got = NoFile ->
         [r EXCEPT !.pc = IF r.again THEN "put" ELSE "putNew"]
    [] r.op = "resolve" /\ r.got.state # "ready" -> Ended(r, "done", NoFile)
    [] r.op = "remove" /\ r.got # NoFile -> [r EXCEPT !.pc = "abort"]
    [] r.op = "digest" /\ r.got # NoFile -> [r EXCEPT !.pc = "fetch"]
    [] OTHER -> Ended(r, "done", r.got)

\* remove drops the cache entry in the same turn in which loadMeta returns.
CacheAfterLoad(r, k) == IF r.op = "remove" THEN CacheDelete(k, r.id) ELSE k

\* loadMeta's cache lookup, in the turn that calls it.
Lookup(c, r) ==
  LET hit == [r EXCEPT !.got = Cached(c, r.id)]
  IN  IF Cached(c, r.id) = NoFile
      THEN Continue(c, [r EXCEPT !.pc = "get"]) /\ UNCHANGED cache
      ELSE /\ Continue(c, Loaded(hit))
           /\ SetCache(c, CacheAfterLoad(hit, cache[procOf[c]]))

\* The first turn of a method.
Begin(c, op, i, m) ==
  LET r == [Idle EXCEPT !.op = op, !.id = i, !.meta = m]
  IN  /\ marked' = IF op = "markReady" THEN marked \cup {i} ELSE marked
      /\ IF op = "markReady"
         THEN Continue(c, [r EXCEPT !.pc = "get"]) /\ UNCHANGED cache
         ELSE Lookup(c, r)
      /\ UNCHANGED <<backend, sidecar, object>>

\* readSidecar's GET.
GetSidecar(c) ==
  /\ call[c].pc = "get"
  /\ \/ Continue(c, [call[c] EXCEPT !.got = sidecar[call[c].id], !.pc = "resume"])
     \/ Fail(c)
  /\ UNCHANGED <<backend, sidecar, object, cache, marked>>

\* The continuation of loadMeta after a cache miss: fill the cache, go on.
FillCache(c) ==
  LET r == call[c]
      k == cache[procOf[c]]
      filled == IF r.got = NoFile THEN k ELSE CacheSet(k, r.id, r.got)
  IN  /\ r.pc = "resume" /\ r.op # "markReady"
      /\ Continue(c, Loaded(r))
      /\ SetCache(c, CacheAfterLoad(r, filled))
      /\ UNCHANGED <<backend, sidecar, object, marked>>

-----------------------------------------------------------------------------
(* reserveUpload and markReady.                                            *)

\* (Mistake: the PUT of a reservation forgets IfNoneMatch.)
PutNewUnconditionally(c) ==
  /\ call[c].pc = "putNew"
  /\ sidecar' = [sidecar EXCEPT ![call[c].id] = Content(call[c])]
  /\ Continue(c, [call[c] EXCEPT !.pc = "commit"])
  /\ UNCHANGED <<backend, object, cache, marked>>

\* The PUT with IfNoneMatch: it lands, or finds a sidecar (412, a conflict), or
\* is refused as unsupported (501, check again and then write), or fails, landed
\* or not.  When only the answer is lost, the SDK sends it again, and it may then find
\* the sidecar it put itself; its other requests are idempotent.
PutNew(c) ==
  LET r == call[c]
      lands == backend = "ignoring" \/ (backend = "conditional" /\ sidecar[r.id] = NoFile)
      landed == [sidecar EXCEPT ![r.id] = Content(r)]
  IN  /\ r.pc = "putNew"
      /\ \/ lands /\ sidecar' = landed /\ Continue(c, [r EXCEPT !.pc = "commit"])
         \/ lands /\ sidecar' = landed /\ Fail(c)
         \/ /\ lands /\ backend = "conditional" /\ MayFail
            /\ sidecar' = landed /\ UNCHANGED call
         \/ /\ backend = "conditional" /\ ~lands
            /\ Continue(c, Ended(r, "conflict", NoFile)) /\ UNCHANGED sidecar
         \/ /\ backend = "unsupported"
            /\ Continue(c, [r EXCEPT !.pc = "reload", !.again = TRUE])
            /\ UNCHANGED sidecar
         \/ Fail(c) /\ UNCHANGED sidecar
      /\ UNCHANGED <<backend, object, cache, marked>>

\* The fallback's own loadMeta.
Reload(c) ==
  /\ call[c].pc = "reload"
  /\ Lookup(c, call[c])
  /\ UNCHANGED <<backend, sidecar, object, marked>>

\* (Mistake: markReady does not mind that there is no sidecar.)
CheckStatusLoosely(c) ==
  LET r == call[c]
  IN  /\ r.pc = "resume" /\ r.op = "markReady"
      /\ Continue(c, [r EXCEPT !.pc = "put", !.meta = r.got.meta, !.got = NoFile])
      /\ UNCHANGED <<backend, sidecar, object, cache, marked>>

\* The continuation of markReady: refuse, or refresh the cache, or write.
CheckStatus(c) ==
  LET r == call[c]
  IN  /\ r.pc = "resume" /\ r.op = "markReady"
      /\ \/ r.got = NoFile /\ Reject(c) /\ UNCHANGED cache
         \/ /\ r.got.state = "ready"
            /\ Continue(c, Ended(r, "done", NoFile))
            /\ SetCache(c, CacheSet(cache[procOf[c]], r.id, r.got))
         \/ /\ r.got.state = "uploading"
            /\ Continue(c, [r EXCEPT !.pc = "put", !.meta = r.got.meta, !.got = NoFile])
            /\ UNCHANGED cache
      /\ UNCHANGED <<backend, sidecar, object, marked>>

\* writeSidecar's PUT lands, or fails, landed or not.
Put(c) ==
  LET r == call[c]
      landed == [sidecar EXCEPT ![r.id] = Content(r)]
  IN  /\ r.pc = "put"
      /\ \/ sidecar' = landed /\ Continue(c, [r EXCEPT !.pc = "commit"])
         \/ sidecar' \in {sidecar, landed} /\ Fail(c)
      /\ UNCHANGED <<backend, object, cache, marked>>

\* The write was acknowledged; the caller's continuation updates the cache.
CommitToCache(c) ==
  LET r == call[c]
  IN  /\ r.pc = "commit"
      /\ SetCache(c, CacheSet(cache[procOf[c]], r.id, Content(r)))
      /\ Continue(c, Ended(r, "done", NoFile))
      /\ UNCHANGED <<backend, sidecar, object, marked>>

-----------------------------------------------------------------------------
(* remove and the digests.                                                 *)

\* The datastore's own remove, whose outcome is ignored: it aborts a multipart
\* upload and may delete the object.
Abort(c) ==
  LET r == call[c]
  IN  /\ r.pc = "abort"
      /\ object' \in {object, [object EXCEPT ![r.id] = @ \ {r.got.meta}]}
      /\ Continue(c, [r EXCEPT !.pc = "rm", !.todo = {"object", "sidecar"}])
      /\ UNCHANGED <<backend, sidecar, cache, marked>>

\* One of the concurrent DELETEs is answered, or fails, done or not.  The caller
\* hears of a failure at once; the slot stays taken until all are answered.
Rm(c) ==
  LET r == call[c]
      Reply(f, pc) ==
        Continue(c, IF r.todo # {f} THEN [r EXCEPT !.todo = @ \ {f}, !.pc = pc]
                    ELSE Ended(r, IF pc = "rm" THEN "done" ELSE "failed", r.got))
  IN  /\ r.pc \in {"rm", "rmFailed"}
      /\ \E f \in r.todo :
           \/ /\ sidecar' = IF f = "sidecar" THEN [sidecar EXCEPT ![r.id] = NoFile]
                                             ELSE sidecar
              /\ object' = IF f = "object"
                           THEN [object EXCEPT ![r.id] = @ \ {r.got.meta}] ELSE object
              /\ Reply(f, r.pc) \/ (MayFail /\ Reply(f, "rmFailed"))
           \/ /\ MayFail /\ Reply(f, "rmFailed")
              /\ UNCHANGED <<sidecar, object>>
      /\ UNCHANGED <<backend, cache, marked>>

\* readHeader, readAll, digestAll: GET the object at the key the metadata gives.
Fetch(c) ==
  LET r == call[c]
  IN  /\ r.pc = "fetch"
      /\ \/ Continue(c, Ended(r, "done",
              IF r.got.meta \in object[r.id] THEN r.got ELSE NoFile))
         \/ Fail(c)
      /\ UNCHANGED <<backend, sidecar, object, cache, marked>>

Step(c) ==
  \/ GetSidecar(c) \/ FillCache(c) \/ PutNew(c) \/ Reload(c)
  \/ CheckStatus(c) \/ Put(c) \/ CommitToCache(c) \/ Abort(c)
  \/ Rm(c) \/ Fetch(c)

-----------------------------------------------------------------------------
(* The adapter under any caller.                                           *)

Invoke(c) ==
  /\ ~Running(c)
  /\ \E op \in Op, i \in Id, m \in Meta \cup {Null} :
       /\ (m = Null) = (op # "reserve")
       /\ \A d \in Call \ {c} :
            Running(d) /\ call[d].id = i /\ {op, call[d].op} \subseteq Mutator
              => {op, call[d].op} \subseteq Overlap[backend]
       /\ Begin(c, op, i, m)

\* The datastore completes the multipart upload of a reserved key.
Deposit(i, m) ==
  /\ object' = [object EXCEPT ![i] = @ \cup {m}]
  /\ UNCHANGED <<backend, sidecar, cache, call, marked>>

\* A process dies: its calls and its cache are gone, the bucket is as it was.
Crash(p) ==
  /\ call' = [c \in Call |-> IF procOf[c] = p THEN Idle ELSE call[c]]
  /\ cache' = [cache EXCEPT ![p] = EmptyCache]
  /\ UNCHANGED <<backend, sidecar, object, marked>>

Init ==
  /\ backend \in Backend
  /\ sidecar = [i \in Id |-> NoFile]
  /\ object = [i \in Id |-> {}]
  /\ cache = [p \in Proc |-> EmptyCache]
  /\ call = [c \in Call |-> Idle]
  /\ marked = {}

Next ==
  \/ \E c \in Call : Invoke(c) \/ Step(c)
  \/ \E i \in Id, m \in Meta : Deposit(i, m)
  \/ \E p \in Proc : Crash(p)

Spec == Init /\ [][Next]_vars

-----------------------------------------------------------------------------
(* Properties.                                                             *)

CallType ==
  [op : Op \cup {"none"}, id : Id \cup {Null}, meta : Meta \cup {Null},
   pc : {"idle", "get", "resume", "putNew", "reload", "put", "commit", "abort",
         "rm", "rmFailed", "fetch", "done", "conflict", "failed"},
   got : Parsed, again : BOOLEAN, todo : SUBSET {"object", "sidecar"}]

\* Every variable has its type.
TypeOK ==
  /\ backend \in Backend
  /\ sidecar \in [Id -> Parsed]
  /\ object \in [Id -> SUBSET Meta]
  /\ cache \in [Proc -> CacheType]
  /\ call \in [Call -> CallType]
  /\ marked \subseteq Id

\* The status "ready" never appears, in the bucket, in any cache or in the hands of
\* a call, for an artifact markReady was never called for.
ReadyIsMarked ==
  \A i \in Id : i \notin marked =>
    /\ sidecar[i].state # "ready"
    /\ \A p \in Proc : cache[p].entry[i].state # "ready"
    /\ \A c \in Call : call[c].id = i => call[c].got.state # "ready"

\* What a call is doing fits how it got there: only a reservation, or a markReady
\* that found an upload, writes, and what it writes has that upload's metadata.
Sound(r, done) ==
  /\ r \in CallType
  /\ r.pc # "idle" => r.id \in Id
  /\ r.op = "reserve" => r.meta \in Meta \/ ~Underway(r)
  /\ r.pc \in {"putNew", "put", "commit"}
       => r.op \in {"reserve", "markReady"} /\ r.meta \in Meta
  /\ r.op = "markReady" => r.id \in done
  /\ r.id \in Id \ done => r.got.state # "ready"

\* The inductive invariant behind TypeOK and ReadyIsMarked: types, honest sidecars
\* and cache entries, sound calls.
Inv ==
  /\ TypeOK
  /\ \A i \in Id : Honest(i, sidecar[i], marked)
  /\ \A p \in Proc, i \in Id : Honest(i, cache[p].entry[i], marked)
  /\ \A c \in Call : Sound(call[c], marked)

\* The inductive invariant behind ImplementsLifecycle: where mutating calls on one
\* id overlap only if the backend sorts them out, what a call counts on, of its
\* artifact's sidecar, stays true between its steps, lost answers and crashes included.
Orderly == \A b \in Backend :
  Overlap[b] \subseteq IF b = "conditional" THEN {"reserve"} ELSE {}

Mutating(c) == Running(c) /\ call[c].op \in Mutator
Alone == \A c, d \in Call :
  c # d /\ Mutating(c) /\ Mutating(d) /\ call[c].id = call[d].id
    => backend = "conditional" /\ call[c].op = "reserve" /\ call[d].op = "reserve"

\* (b: the kind of backend.)
Counts(r, file, b) ==
  /\ r.pc = "putNew" => /\ r.op = "reserve" /\ ~r.again
                        /\ b = "conditional" \/ file = NoFile
  /\ r.pc = "reload" => r.again
  /\ r.again => r.op = "reserve" /\ b # "conditional"
  /\ r.pc = "resume" /\ (r.op = "markReady" \/ (r.op = "reserve" /\ b # "conditional"))
       => r.got = file
  /\ r.pc = "put" => file = IF r.op = "reserve" THEN NoFile ELSE File("uploading", r.meta)
  /\ r.pc = "put" /\ r.op = "reserve" => b # "conditional"

SerialInv ==
  /\ Inv /\ Alone
  /\ \A c \in Call : call[c].pc \in {"abort", "rm", "rmFailed"} => call[c].op = "remove"
  /\ \A c \in Call : Mutating(c) => Counts(call[c], sidecar[call[c].id], backend)

\* With no call on it in flight, every instance serves an artifact exactly when
\* the bucket says it is ready: instances on one bucket need no coordination.
Serves(p, i) ==
  (IF cache[p].entry[i] = NoFile THEN sidecar[i] ELSE cache[p].entry[i]).state = "ready"
InstancesAgree ==
  \A p \in Proc, i \in Id :
    (\A c \in Call : call[c].id = i => ~Running(c))
      => (Serves(p, i) <=> sidecar[i].state = "ready")

Lifecycle == INSTANCE ArtifactLifecycle
  WITH life <- sidecar,
       removing <- {call[c].id : c \in {d \in Call : call[d].pc \in {"rm", "rmFailed"}}}

\* When mutating calls on one id overlap only as Overlap says, reservations freely
\* where IfNoneMatch is honoured, every step of the adapter, lost answers, partial
\* removals and crashes included, is a step of one life per artifactId.
ImplementsLifecycle == Lifecycle!Spec
=============================================================================
