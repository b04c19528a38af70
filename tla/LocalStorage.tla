---------------------------- MODULE LocalStorage ----------------------------
(***************************************************************************)
(* The local-disk storage adapter, src/storage/local.ts, at the granularity*)
(* at which its promises interleave.                                       *)
(*                                                                         *)
(* Every adapter method is a chain of awaited file-system operations.      *)
(* Between two of them the event loop runs one continuation without being  *)
(* interrupted, so a step is either the effect of one file-system          *)
(* operation, or the continuation that reads or writes the in-memory       *)
(* metadata cache.  A continuation that touches neither shares the step of *)
(* the operation it follows.                                               *)
(*                                                                         *)
(* Several server processes may share one workspace directory (the cluster *)
(* deployment): each has its own cache, all see one disk.  A process may   *)
(* crash at any step; its calls and its cache vanish, the disk stays.  Any *)
(* file-system operation may fail: it has then done nothing, but a failed  *)
(* write may leave a part of its text, and the call that awaited it throws.*)
(*                                                                         *)
(* Abstracted: kind, extension, file name, relation, checksum and title    *)
(* are one value of Meta, and every upload of an artifactId lands in the   *)
(* same byte file.  mkdir calls are idempotent and left out.               *)
(***************************************************************************)
EXTENDS MetaCache

CONSTANTS
  Overlap,   \* mutating methods that may overlap on one artifactId
  Failing    \* file-system operations that may fail (ENOSPC, EIO, EACCES ...)

Mutator == {"reserve", "markReady", "remove"}
Op == Mutator \cup {"load", "resolve"}

ASSUME OverlapAssumption == Overlap \subseteq Mutator

\* What a call awaits, remove's rm calls, and the FileStore's and send's own operations.
Awaitable == {"read", "open", "write", "tmpOpen", "tmpWrite", "rename", "stat"}
FileOp == Awaitable \cup {"rm", "store"}

ASSUME FailAssumption == Failing \subseteq FileOp

VARIABLES
  sidecar,   \* .pulsevault/<id>.json
  tmp,       \* .pulsevault/<id>.json.tmp, one name for all writers
  stored,    \* which of the datastore's two files of an id exist
  call,      \* the call in each slot
  marked     \* history: ids markReady was ever called for

storageVars == <<sidecar, tmp, stored, cache, call, marked>>

-----------------------------------------------------------------------------
(* A file may hold what MetaCache calls a sidecar, or exist but not parse.  *)

Torn == File("torn", Null)
OnDisk == Parsed \cup {Torn}
StoreFile == {"bytes", "info"}

\* (Mistake: a malformed sidecar is handed on.)
Unparsed(f) == f

\* readSidecar: a malformed sidecar is treated as absent.
Parse(f) == IF f = Torn THEN NoFile ELSE f

Idle == [op |-> "none", id |-> Null, meta |-> Null, pc |-> "idle",
         got |-> NoFile, fd |-> "none", todo |-> {}]

\* A call that has ended: its outcome, and what it returns.
Ended(r, pc, got) ==
  [Idle EXCEPT !.op = r.op, !.id = r.id, !.pc = pc, !.got = got]

Running(c) == call[c].pc \notin {"idle", "done", "conflict", "failed"}

\* remove awaits its rm calls; one of them may already have failed.
Deleting == {"rm", "rmFailed"}

-----------------------------------------------------------------------------
(* Starting a call, and what follows loadMeta.                             *)

\* (Mistake: resolve does not look at the status.)
LoadedUnready(r) ==
  CASE r.op = "resolve" /\ r.got # NoFile -> [r EXCEPT !.pc = "stat"]
    [] r.op = "remove" /\ r.got # NoFile ->
         [r EXCEPT !.pc = "rm", !.todo = StoreFile \cup {"sidecar"}]
    [] OTHER -> Ended(r, "done", r.got)

\* loadMeta has produced r.got: a plain getter returns it, resolve goes on to
\* stat the bytes of a ready artifact, remove to delete the files of a known one.
Loaded(r) ==
  CASE r.op = "resolve" /\ r.got.state = "ready" -> [r EXCEPT !.pc = "stat"]
    [] r.op = "resolve" /\ r.got.state # "ready" ->
         Ended(r, "done", NoFile)
    [] r.op = "remove" /\ r.got # NoFile ->
         [r EXCEPT !.pc = "rm", !.todo = StoreFile \cup {"sidecar"}]
    [] OTHER -> Ended(r, "done", r.got)

\* remove drops the cache entry in the same turn in which loadMeta returns.
CacheAfterLoad(r, k) == IF r.op = "remove" THEN CacheDelete(k, r.id) ELSE k

\* The first turn of a method: the cache lookup of loadMeta is part of it.
Begin(c, op, i, m) ==
  LET r == [Idle EXCEPT !.op = op, !.id = i, !.meta = m, !.got = Cached(c, i)]
  IN  /\ marked' = IF op = "markReady" THEN marked \cup {i} ELSE marked
      /\ \/ /\ op \in {"reserve", "markReady"}
            /\ call' = [call EXCEPT ![c] = [r EXCEPT !.got = NoFile,
                          !.pc = IF op = "reserve" THEN "open" ELSE "read"]]
            /\ UNCHANGED cache
         \/ /\ op \notin {"reserve", "markReady"} /\ Cached(c, i) = NoFile
            /\ call' = [call EXCEPT ![c] = [r EXCEPT !.pc = "read"]]
            /\ UNCHANGED cache
         \/ /\ op \notin {"reserve", "markReady"} /\ Cached(c, i) # NoFile
            /\ call' = [call EXCEPT ![c] = Loaded(r)]
            /\ SetCache(c, CacheAfterLoad(r, cache[procOf[c]]))
      /\ UNCHANGED <<sidecar, tmp, stored>>

-----------------------------------------------------------------------------
(* The steps of a call.                                                    *)

\* (Mistake: EEXIST is taken for debris without a second look.)
ReadSidecarTrusting(c) ==
  LET r == call[c]
  IN  /\ r.pc = "read"
      /\ call' = [call EXCEPT ![c] =
           IF r.op = "reserve" THEN [r EXCEPT !.pc = "tmpOpen"]
           ELSE [r EXCEPT !.got = Parse(sidecar[r.id]), !.pc = "resume"]]
      /\ UNCHANGED <<sidecar, tmp, stored, cache, marked>>

\* readSidecar's readFile (IOError is where it throws).  For reserveUpload it is the
\* re-check after EEXIST: a readable sidecar is a collision (409), anything else is
\* overwritten.
ReadSidecar(c) ==
  LET r == call[c]
      got == Parse(sidecar[r.id])
  IN  /\ r.pc = "read"
      /\ call' = [call EXCEPT ![c] =
           IF r.op = "reserve"
           THEN IF got = NoFile THEN [r EXCEPT !.pc = "tmpOpen"]
                                ELSE Ended(r, "conflict", NoFile)
           ELSE [r EXCEPT !.got = got, !.pc = "resume"]]
      /\ UNCHANGED <<sidecar, tmp, stored, cache, marked>>

\* The continuation of loadMeta after a cache miss: fill the cache, go on.
FillCache(c) ==
  LET r == call[c]
      k == cache[procOf[c]]
      filled == IF r.got = NoFile THEN k ELSE CacheSet(k, r.id, r.got)
  IN  /\ r.pc = "resume" /\ r.op # "markReady"
      /\ call' = [call EXCEPT ![c] = Loaded(r)]
      /\ SetCache(c, CacheAfterLoad(r, filled))
      /\ UNCHANGED <<sidecar, tmp, stored, marked>>

\* The continuation of markReady: refuse, or refresh the cache, or write.
CheckStatus(c) ==
  LET r == call[c]
  IN  /\ r.pc = "resume" /\ r.op = "markReady"
      /\ \/ /\ r.got = NoFile
            /\ call' = [call EXCEPT ![c] = Ended(r, "failed", NoFile)]
            /\ UNCHANGED cache
         \/ /\ r.got.state = "ready"
            /\ call' = [call EXCEPT ![c] = Ended(r, "done", NoFile)]
            /\ SetCache(c, CacheSet(cache[procOf[c]], r.id, r.got))
         \/ /\ r.got.state = "uploading"
            /\ call' = [call EXCEPT ![c] = [r EXCEPT !.pc = "tmpOpen",
                                        !.meta = r.got.meta, !.got = NoFile]]
            /\ UNCHANGED cache
      /\ UNCHANGED <<sidecar, tmp, stored, marked>>

\* (Mistake: plain writeFile, which truncates the sidecar that is there.)
OpenTruncating(c) ==
  /\ call[c].pc = "open"
  /\ sidecar' = [sidecar EXCEPT ![call[c].id] = Torn]
  /\ call' = [call EXCEPT ![c].pc = "write", ![c].fd = "final"]
  /\ UNCHANGED <<tmp, stored, cache, marked>>

\* writeFile with flag wx: create the sidecar, still empty, or EEXIST.
OpenExclusive(c) ==
  LET r == call[c]
  IN  /\ r.pc = "open"
      /\ \/ /\ sidecar[r.id] = NoFile
            /\ sidecar' = [sidecar EXCEPT ![r.id] = Torn]
            /\ call' = [call EXCEPT ![c].pc = "write", ![c].fd = "final"]
         \/ /\ sidecar[r.id] # NoFile
            /\ call' = [call EXCEPT ![c].pc = "read"]
            /\ UNCHANGED sidecar
      /\ UNCHANGED <<tmp, stored, cache, marked>>

\* (Mistake: writeSidecar writes in place.)
OpenInPlace(c) ==
  /\ call[c].pc = "tmpOpen"
  /\ sidecar' = [sidecar EXCEPT ![call[c].id] = Torn]
  /\ call' = [call EXCEPT ![c].pc = "write", ![c].fd = "final"]
  /\ UNCHANGED <<tmp, stored, cache, marked>>

\* writeSidecar's writeFile opens, and truncates, the one tmp name of the id.
OpenTmp(c) ==
  /\ call[c].pc = "tmpOpen"
  /\ tmp' = [tmp EXCEPT ![call[c].id] = Torn]
  /\ call' = [call EXCEPT ![c].pc = "tmpWrite", ![c].fd = "tmp"]
  /\ UNCHANGED <<sidecar, stored, cache, marked>>

\* A write over another writer's text leaves its tail when it is shorter.
Landed(old, new) == IF old \in {Torn, new} THEN {new} ELSE {new, Torn}

\* The JSON lands in the file that was opened, under whatever name it has now.
Write(c) ==
  LET r == call[c]
  IN  /\ r.pc \in {"write", "tmpWrite"}
      /\ call' = [call EXCEPT ![c].fd = "none",
                    ![c].pc = IF r.pc = "write" THEN "commit" ELSE "rename"]
      /\ \/ /\ r.fd = "final"
            /\ \E f \in Landed(sidecar[r.id], Content(r)) :
                 sidecar' = [sidecar EXCEPT ![r.id] = f]
            /\ UNCHANGED tmp
         \/ /\ r.fd = "tmp"
            /\ \E f \in Landed(tmp[r.id], Content(r)) :
                 tmp' = [tmp EXCEPT ![r.id] = f]
            /\ UNCHANGED sidecar
         \/ /\ r.fd = "gone"
            /\ UNCHANGED <<sidecar, tmp>>
      /\ UNCHANGED <<stored, cache, marked>>

\* Open files follow their inode: one renamed away or unlinked has no name left.
Relink(calls, i, new) ==
  [d \in Call |-> IF calls[d].id = i /\ calls[d].fd \in DOMAIN new
                  THEN [calls[d] EXCEPT !.fd = new[@]] ELSE calls[d]]

\* rename(tmp, final); another writer may already have renamed the tmp away (ENOENT).
Rename(c) ==
  LET i == call[c].id
  IN  /\ call[c].pc = "rename"
      /\ \/ /\ tmp[i] = NoFile
            /\ call' = [call EXCEPT ![c] = Ended(call[c], "failed", NoFile)]
            /\ UNCHANGED <<sidecar, tmp>>
         \/ /\ tmp[i] # NoFile
            /\ sidecar' = [sidecar EXCEPT ![i] = tmp[i]]
            /\ tmp' = [tmp EXCEPT ![i] = NoFile]
            /\ call' = Relink([call EXCEPT ![c].pc = "commit"], i,
                              [tmp |-> "final", final |-> "gone"])
      /\ UNCHANGED <<stored, cache, marked>>

\* (Mistake: reserveUpload leaves the cache entry it finds.)
CommitReadyToCache(c) ==
  LET r == call[c]
  IN  /\ r.pc = "commit"
      /\ IF r.op = "reserve" THEN UNCHANGED cache
         ELSE SetCache(c, CacheSet(cache[procOf[c]], r.id, Content(r)))
      /\ call' = [call EXCEPT ![c] = Ended(r, "done", NoFile)]
      /\ UNCHANGED <<sidecar, tmp, stored, marked>>

\* The write is on disk; the caller's continuation updates the cache.
CommitToCache(c) ==
  LET r == call[c]
  IN  /\ r.pc = "commit"
      /\ SetCache(c, CacheSet(cache[procOf[c]], r.id, Content(r)))
      /\ call' = [call EXCEPT ![c] = Ended(r, "done", NoFile)]
      /\ UNCHANGED <<sidecar, tmp, stored, marked>>

\* resolve stats the bytes of an artifact its metadata calls ready.
Stat(c) ==
  LET r == call[c]
  IN  /\ r.pc = "stat"
      /\ call' = [call EXCEPT ![c] = Ended(r, "done",
                    IF "bytes" \in stored[r.id] THEN r.got ELSE NoFile)]
      /\ UNCHANGED <<sidecar, tmp, stored, cache, marked>>

\* One of remove's three concurrent rm calls has settled; the last one ends the call.
\* If any failed, remove has thrown by then, while the others went on.
Settled(r, f, pc) ==
  [r EXCEPT !.todo = @ \ {f},
     !.pc = IF r.todo # {f} THEN pc ELSE IF pc = "rm" THEN "done" ELSE "failed"]

Rm(c) ==
  LET r == call[c]
  IN  /\ r.pc \in Deleting
      /\ \E f \in r.todo :
           LET after == [call EXCEPT ![c] = Settled(r, f, r.pc)]
           IN  IF f = "sidecar"
               THEN /\ sidecar' = [sidecar EXCEPT ![r.id] = NoFile]
                    /\ call' = Relink(after, r.id, [final |-> "gone"])
                    /\ UNCHANGED stored
               ELSE /\ stored' = [stored EXCEPT ![r.id] = @ \ {f}]
                    /\ call' = after
                    /\ UNCHANGED sidecar
      /\ UNCHANGED <<tmp, cache, marked>>

RmFails(c) ==
  /\ "rm" \in Failing /\ call[c].pc \in Deleting
  /\ \E f \in call[c].todo :
       call' = [call EXCEPT ![c] = Settled(call[c], f, "rmFailed")]
  /\ UNCHANGED <<sidecar, tmp, stored, cache, marked>>

\* What the failed operation leaves of the files: a write may have spoilt the one that
\* is open as fd.
Spoilt(files, r, fd) ==
  IF r.pc \in {"write", "tmpWrite"} /\ r.fd = fd
  THEN {files, [files EXCEPT ![r.id] = Torn]} ELSE {files}

\* Any other operation fails, and its method throws: readFile with more than ENOENT,
\* writeFile with more than EEXIST or after it has opened its file, rename, stat.
IOError(c) ==
  LET r == call[c]
  IN  /\ r.pc \in Awaitable \cap Failing
      /\ call' = [call EXCEPT ![c] = Ended(r, "failed", NoFile)]
      /\ sidecar' \in Spoilt(sidecar, r, "final")
      /\ tmp' \in Spoilt(tmp, r, "tmp")
      /\ UNCHANGED <<stored, cache, marked>>

StorageStep(c) ==
  \/ ReadSidecar(c) \/ FillCache(c) \/ CheckStatus(c)
  \/ OpenExclusive(c) \/ OpenTmp(c) \/ Write(c) \/ Rename(c)
  \/ CommitToCache(c) \/ Stat(c) \/ Rm(c) \/ RmFails(c) \/ IOError(c)

\* A process dies: its calls and its cache are gone, the disk is as it was.
CrashStorage(p) ==
  /\ call' = [c \in Call |-> IF procOf[c] = p THEN Idle ELSE call[c]]
  /\ cache' = [cache EXCEPT ![p] = EmptyCache]
  /\ UNCHANGED <<sidecar, tmp, stored, marked>>

-----------------------------------------------------------------------------
(* The adapter under any caller: every method at any time, except that     *)
(* mutating calls on one id overlap only when Overlap allows both.         *)

Invoke(c) ==
  /\ ~Running(c)
  /\ \E op \in Op, i \in Id, m \in Meta \cup {Null} :
       /\ (m = Null) = (op # "reserve")
       /\ \A d \in Call \ {c} :
            Running(d) /\ call[d].id = i /\ {op, call[d].op} \subseteq Mutator
              => {op, call[d].op} \subseteq Overlap
       /\ Begin(c, op, i, m)

\* FileStore puts down the files of an upload, reserved or removed meanwhile.
Deposit(i) ==
  /\ stored' = [stored EXCEPT ![i] = StoreFile]
  /\ UNCHANGED <<sidecar, tmp, cache, call, marked>>

InitStorage ==
  /\ sidecar = [i \in Id |-> NoFile]
  /\ tmp = [i \in Id |-> NoFile]
  /\ stored = [i \in Id |-> {}]
  /\ cache = [p \in Proc |-> EmptyCache]
  /\ call = [c \in Call |-> Idle]
  /\ marked = {}

NextStorage ==
  \/ \E c \in Call : Invoke(c) \/ StorageStep(c)
  \/ \E i \in Id : Deposit(i)
  \/ \E p \in Proc : CrashStorage(p)

SpecStorage == InitStorage /\ [][NextStorage]_storageVars

-----------------------------------------------------------------------------
(* Properties.                                                             *)

\* Every variable has its type.
CallType ==
  [op : Op \cup {"none"}, id : Id \cup {Null}, meta : Meta \cup {Null},
   pc : {"idle", "read", "resume", "open", "write", "tmpOpen", "tmpWrite",
         "rename", "commit", "stat", "rm", "rmFailed", "done", "conflict", "failed"},
   got : Parsed, fd : {"none", "tmp", "final", "gone"},
   todo : SUBSET (StoreFile \cup {"sidecar"})]
StorageTypeOK ==
  /\ sidecar \in [Id -> OnDisk]
  /\ tmp \in [Id -> OnDisk]
  /\ stored \in [Id -> SUBSET StoreFile]
  /\ cache \in [Proc -> CacheType]
  /\ call \in [Call -> CallType]
  /\ marked \subseteq Id

\* The status "ready" never appears, on disk, in a tmp file, in any cache or in
\* the hands of a call, for an artifact markReady was never called for: no
\* overlap of writers, crash, debris or late cache fill makes one up.
ReadyIsMarked ==
  \A i \in Id : i \notin marked =>
    /\ sidecar[i].state # "ready" /\ tmp[i].state # "ready"
    /\ \A p \in Proc : cache[p].entry[i].state # "ready"
    /\ \A c \in Call : call[c].id = i => call[c].got.state # "ready"

\* What a call is doing fits how it got there: only a reservation, or a markReady
\* that found an upload, writes, and what it writes has that upload's metadata.
Writing == {"open", "write", "tmpOpen", "tmpWrite", "rename", "commit"}
Sound(r, done) ==
  /\ r \in CallType
  /\ r.pc # "idle" => r.id \in Id
  /\ r.pc \in Writing \/ (r.pc = "read" /\ r.op = "reserve")
       => r.op \in {"reserve", "markReady"} /\ r.meta \in Meta
  /\ r.op = "markReady" => r.id \in done
  /\ r.id \in Id \ done => r.got.state # "ready"

\* The inductive invariant behind StorageTypeOK and ReadyIsMarked: types, honest
\* files and cache entries, sound calls.
StorageInv ==
  /\ sidecar \in [Id -> OnDisk] /\ tmp \in [Id -> OnDisk]
  /\ stored \in [Id -> SUBSET StoreFile] /\ marked \subseteq Id
  /\ cache \in [Proc -> CacheType] /\ call \in [Call -> CallType]
  /\ \A i \in Id : Honest(i, sidecar[i], marked) /\ Honest(i, tmp[i], marked)
  /\ \A p \in Proc, i \in Id : Honest(i, cache[p].entry[i], marked)
  /\ \A c \in Call : Sound(call[c], marked)

\* What a call about to replace the sidecar has made sure of.
Expects(r, file) ==
  IF r.op = "reserve" THEN Parse(file) = NoFile
                      ELSE file = File("uploading", r.meta)

\* What a call counts on, of its artifact's sidecar and tmp file.
Counts(r, file, draft) ==
  /\ r.pc \in {"open", "write"} => r.op = "reserve"
  /\ r.pc = "write" => r.fd = "final" /\ file = Torn
  /\ r.pc = "resume" /\ r.op = "markReady" => r.got = Parse(file)
  /\ r.pc \in {"tmpOpen", "tmpWrite", "rename"} => Expects(r, file)
  /\ r.pc = "tmpWrite" => r.fd = "tmp" /\ draft = Torn
  /\ r.pc = "rename" => draft = Content(r)

\* The inductive invariant behind ReadableStaysReadable and ImplementsLifecycle,
\* where mutating calls do not overlap: a call that mutates an artifact is alone in
\* that, and what it counts on stays true between its steps, through every crash.
Mutating(c) == Running(c) /\ call[c].op \in Mutator
Alone == \A c, d \in Call :
  c # d /\ Mutating(c) /\ Mutating(d) => call[c].id # call[d].id

SerialInv ==
  /\ StorageInv /\ Alone
  /\ \A c \in Call : call[c].pc \in Deleting => call[c].op = "remove"
  /\ \A c \in Call : Mutating(c) =>
       Counts(call[c], sidecar[call[c].id], tmp[call[c].id])

\* A readable sidecar is never replaced by an unreadable one, so a crash never
\* leaves a truncated sidecar of an upload that had one (writeSidecar's promise).
ReadableStaysReadable ==
  [][\A i \in Id : sidecar[i] \in Parsed \ {NoFile} => sidecar'[i] # Torn]_sidecar

-----------------------------------------------------------------------------
(* What the adapter promises: one life per artifactId.                     *)

Lifecycle == INSTANCE ArtifactLifecycle
  WITH life <- [i \in Id |-> Parse(sidecar[i])],
       removing <- {call[c].id : c \in {d \in Call : call[d].pc \in Deleting}}

\* When mutating calls on one id do not overlap, every step of the adapter,
\* crashes included, is a step of that life or leaves it alone.
ImplementsLifecycle == Lifecycle!Spec
=============================================================================
