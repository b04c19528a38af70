# PulseVault in TLA+

PulseVault is an npm package that adds resumable video upload to a Node server
(Fastify plugin, or any framework through `createPulseVaultCore`). A client
creates an upload under an `artifactId` it may choose itself, sends the bytes by
the tus protocol, and once all bytes are there and validated the artifact can be
fetched and deleted. The library keeps no database: what it knows of an artifact
is a JSON *sidecar* beside the bytes, on a local disk or in an S3 bucket, and an
in-memory cache of it in each process.

That is where the difficulty lies. Every handler is a chain of awaited calls, so
requests on one artifact interleave at every `await`; several processes may share the
disk or the bucket; a process may die between two file-system operations, and each of
these operations may fail; clients retry, go away in the middle of a body, and delete what they are still uploading. This
directory models that: the two storage adapters and the abstract contract both are
shown to implement, the service composed on top of one of them and what it promises
its clients, the rewriter of finished files, authorization, and the two parts of the
authenticated example deployment that keep state of their own; with twelve TLC runs
and, for each component, theorems checked by TLAPS.

Paths below are relative to the repository root.

## The system

| Part | Source | State it keeps | Operations | Hard behaviour | Makes it correct |
|---|---|---|---|---|---|
| Storage contract | `src/storage/types.ts` | one life per artifactId | `reserveUpload`, `markReady`, `resolve`, `remove`, lookups | who may call what while another call is under way | an id is reserved once, keeps its metadata, disappears only by removal |
| Metadata cache | `storage/local.ts`, `storage/s3.ts` | `metaCache`, a bounded Map per process | fill, refresh, delete, evict | filled with what was read before an `await`; other processes do not see it | never claims more than was done; agrees with the store at rest |
| Local adapter | `storage/local.ts` | sidecar, its tmp file, byte and info files, cache | the contract's | two-step file creation, one tmp name, crash debris, three concurrent `rm`, each operation failing | the contract; no torn sidecar |
| S3/R2 adapter | `storage/s3.ts` | sidecar and object keys, cache | the contract's, `digest` | backends that ignore conditional PUTs, lost answers, partial failure, several instances | the contract; instances agree |
| tus server, FileStore | external, wired in `lib/pulsevaultTus.ts` | byte file, offset file, one lock per upload and process | create, append, remove | lock timeout, aborted bodies | offsets match the bytes |
| Completion pipeline | `lib/pulsevaultTus.ts` | none of its own | reserve id; validate, reject or mark ready, call the consumer's hook | runs after the lock is released, may run twice, each step may fail | ready only after validation; acknowledged only after ready |
| Request handlers | `core.ts`, `routes/pulsevault.ts` | the request in flight | POST, PATCH, DELETE on `/upload`, GET and DELETE on `/artifacts` | look-up, `authorize`, `resolve` and `send` are separate awaits, and each may throw | nothing partial is served; every request is answered |
| Web-ready rewriter | `lib/web-ready.ts`, `scripts/web-ready-migrate.mjs` | a temporary file per job | moov scan, probe, ffmpeg, verify, rename | minutes long, concurrent jobs, ffmpeg failures, artifact removed meanwhile | the served file is always whole; the scan is right |
| Validators | `lib/checksum.ts`, `lib/magic.ts` | none | verdict on a finished file | what the checksum is compared with, and which upload's checksum it is | accept only complete matching bytes |
| Metadata parsers | `lib/pulsevaultTus.ts`, `core.ts` | none | parse `Upload-Metadata` and the upload URL, twice each | two parsers that must agree | same id, kind, relation |
| Capability tokens | `lib/capability-token.ts`, `lib/authorize.ts` | none; the operator keeps keys | issue, verify, authorize | clock skew, key rotation, time between approval and action | a token opens what it names, while it lives |
| Artifact index | `examples/fastify-auth-demo/server.mjs` | a table of finished uploads, shared by all workers | upsert in the completion hook, removal in `authorize`, reconciliation at boot | the table is written from what was read before an `await`; workers boot while others serve | lists what is ready on disk |
| Cluster supervisor | `examples/fastify-auth-demo/cluster.mjs` | workers, crash counter, shutdown state of the primary | fork, respawn, give up, drain, kill | crashes of several workers, timer against exits, `cluster.workers` emptied by the shutdown | restores capacity; gives up only in a crash loop; a shutdown ends |
| Deep links, options, errors, UUID | `lib/deeplinks.ts`, `lib/options.ts`, `lib/errors.ts`, `lib/uuid.ts`, `lib/request.ts` | none | pure functions | none concurrent | - |

How they interact: a handler calls one adapter method at a time and acts on its
outcome; `namingFunction` reserves the id inside the tus server's POST; the tus
server's `onUploadFinish` runs the pipeline; the adapter and the FileStore share
the byte file without talking to each other; the consumer's `onUploadComplete`
hook may start the rewriter, which works on the file behind the adapter's back, or
write a row of the index; every request passes `authorize` before any of that. In
the example deployment the supervisor forks the processes all of this runs in.

## Modules

| Module | Models | Extends / composes |
|---|---|---|
| `ArtifactLifecycle` | the contract of `types.ts`: nothing, uploading, ready, removed, per id | abstract specification |
| `MetaCache` | what a sidecar and a cache entry hold; `cacheSet` with its eviction order | base of both adapters |
| `LocalStorage` | the local adapter | extends `MetaCache`, instantiates `ArtifactLifecycle` |
| `S3Storage` | the S3 adapter | extends `MetaCache`, instantiates `ArtifactLifecycle` |
| `Validation` | the checksum validator and the MP4 sniffer as verdicts on a file | operators |
| `UploadContract` | what the clients of an artifact are promised, with the whole server behind it | abstract specification |
| `UploadService` | handlers, pipeline, tus server and FileStore | extends `LocalStorage` and `Validation`: the composed system on local disk; instantiates `UploadContract` |
| `WebReady` | box scan and rewriter | on its own |
| `UploadMetadata` | the two parsers of a create's header, the two readings of an upload URL | operators |
| `CapabilityTokens` | a token's claims and its verification | operators |
| `Authorization` | `runAuthorize` in front of the handlers, tokens, clocks and keys | extends `UploadMetadata` and `CapabilityTokens` |
| `ArtifactIndex` | the index table, its workers' reconciliations, the requests that touch it | on its own |
| `ClusterSupervisor` | the primary process and its workers | on its own |
| `MC*` | constants for TLC | one per model |
| `*_proofs` | theorems | one per component proved about |

### How the code maps to steps

*Granularity.* JavaScript runs a continuation without interruption, so a step is
either the effect of one awaited file-system or bucket operation, or a
continuation that reads or writes shared memory (the cache). A continuation that
touches neither shares the step of the operation it follows. A loop turn that
does a synchronous cache lookup and then starts an operation is one step
(`Begin`), and the operation's effect is a later one.

*`LocalStorage`.* A call is a record in a slot of `Call`: the method, its
arguments, where it is (`pc`), what it read (`got`). `fs.writeFile` is two steps,
open (creates or truncates: the file is then `Torn`) and write; an open file
follows its inode when its name is renamed or unlinked (`fd`, `Relink`), as the
shared tmp name makes that observable. `remove` runs three `rm` calls in any
order. `CrashStorage(p)` drops the calls and cache of one process and leaves the
disk. Any operation may fail (`IOError`, `RmFails`): it has then done nothing, but a
failed write may leave a torn file, and the method throws, which ends the call
`failed`; `remove` throws at its first failing `rm` while the others go on, so its call
keeps its slot until they have settled. A write over another writer's longer text may
leave its tail (`Landed`).

*`UploadService`.* `req[c]` says where the handler of slot `c` stands and
`call[c]` is the adapter method it awaits; a handler step consumes the outcome of
the one and starts the next. The pipeline of `onUploadFinish` runs with the tus
lock released, as in the code (`Receive` goes to `finishing`, which is not a
`Holder` stage). `authorize`, `onUploadComplete` and what `validatePayload` does
beside the shipped validators belong to the deployer and may refuse or fail at any
time. What the adapter throws is answered by `FailClosed` (500), or rejects the upload
where `onUploadFinish` looks up its path; what the FileStore or `send` throws by
`StoreFails`. `promise` is a history variable: what the clients of an id were last told.
`Routes` is the load balancer in front of the processes: a request for an id arrives in
a process that id is routed to.

*`UploadContract`.* Per artifactId, what its clients were told (`promise`) and what is
held ready for it: nothing, or one upload with its bytes. It opens, becomes held whole
and checked, is acknowledged, withdrawn and removed. The service maps to it by what its
disk says: held is what a ready sidecar and a byte file beside it hold (`Held`).

*`S3Storage`.* As the local adapter, with one step per request. A request may
fail, and a failing PUT may have landed; when only the answer of the conditional PUT is
lost the SDK sends it again, and may get a 412 for the sidecar it put itself. `backend` is chosen once: it honours
`IfNoneMatch`, rejects it (the code then retries without it), or ignores it. The
object key contains kind and extension, so each `Meta` has its own object.

*`Validation`.* A file is how many bytes it has and whose upload they are. A
checksum is missing, malformed (then nothing is checked, as in the code), right or
wrong for the upload it was sent with; a digest tells any two files apart. The
verdict is taken in the handler's step of `UploadService`, over the file and the
sidecar's metadata as they are then: the digest is one pass over one opened file.

*`Authorization`.* A request takes two steps, because other requests run between
them: it is approved (header or URL parsed, kind and relation looked up, token
checked), and later carried out on what the tus server and the naming function
parsed for themselves. Headers are sequences of key and value pairs as clients may
send them: aliases in any order, blank values, padded text, keys twice, pairs the
tus server's stricter parser refuses; the core's parser skips what it cannot read,
the tus server refuses the request. A URL is a sequence of segments: an upload id as
the server makes them, one it never made that has an artifactId as its second component
(`Foreign`), something else, or nothing. Every process reads a clock of its own, at most
`Skew` off. The operator introduces, switches and retires keys as `OPERATIONS.md`
prescribes. Storage is one sidecar per id, seen and changed at once.

*`ArtifactIndex`.* A sidecar and its bytes are one record of `disk`. The hook's
read-back of an artifact (sidecar, then size) is one step, its upsert another;
`authorize` of a DELETE prunes the row in one step and `remove` follows in another.
A booting worker lists the directory, reads one artifact at a time, upserts one row
at a time, fetches all rows, and drops one at a time; it crashes between any two.
`late`, `calm`, `wasReady` and `loose` are history the properties refer to.

*`ClusterSupervisor`.* A position of the pool is held by a worker and then by its
replacement. `listed` is `cluster.workers`, which the code reads only once a shutdown has
begun: in the primary, Node's `Worker.prototype.disconnect` takes the worker off that
list at once, so `Shutdown` empties it. When an exit takes a worker off the list is
therefore left out. A worker's age is only what the handler looks at: younger than
`MIN_HEALTHY_MS` or not.

*`WebReady`.* `Scan` is the walk over box headers: the loop's variables after each
box, a recursive function of the box's number (`Turn` is one turn of the loop); a
layout is the sequence of box headers met by going from each box by its size to the
next, and a file length that may cut the last one. A size is any number in 32 or 64 bits,
the rest of the file, or beyond the safe integers; a 64-bit size from 8 to 15 passes the
code's check and makes the next header overlap this one's. A job goes scan, probe,
launch, encode, stat, rename or cleanup; a crash ends it, and its temporary file stays.

### Abstractions

Metadata (kind, extension, name, relation, checksum, title) is one value of
`Meta`. Bytes are a count and whose upload they belong to. The sidecar's JSON is
its status and metadata, or `Torn` if it does not parse. `mkdir`, logging, header
and URL formatting are left out. Local byte files of all `Meta` of an id are one
file in `LocalStorage` (the usual case: same kind and extension); `S3Storage`
keeps them apart.

### Disciplines on the environment

Some guarantees hold only if callers keep apart what the code does not. These are
constants, so that each run says what it assumes:

- `Overlap` (adapters): the mutating methods that may overlap on one id. `{}` is
  "one at a time", which `storage_serial` and the refinement proof use; everything is
  allowed in the service runs and in the proof of `StorageInv`. For the S3 adapter it
  depends on the backend: `Orderly` leaves overlapping reservations to a backend that
  honours `IfNoneMatch`, and nothing else.
- `Races` in `UploadService`: `"create"` lets an id be created anew while other
  requests on it are in flight, `"complete"` lets a repeated zero-byte final PATCH
  overlap another completion. The passing service runs exclude both, and so do the
  proofs of `AckedIsDurable` and `ReadyVouchesForBytes`; that of `NoPartialServed`
  excludes only the first. An id counts as used, so that `"create"` is about it, from
  the success of its first create or from the crash that ended it.
  `repeated_finish` shows what the second does; with `Races = {"create"}` TLC finds
  `NoPartialServed` violated (see *Noted while reading*).
- `Routes` in `UploadService`: which artifactIds the load balancer routes to each
  process. `Sticky` is what `OPERATIONS.md:51-53` recommends, all requests for one
  upload to one instance: no two processes are routed the same id. The runs have one process, to which everything is routed; the proofs of
  `NoPartialServed`, `AckedIsDurable`, `ReadyVouchesForBytes` and of the contract assume
  `Sticky`, for any number of processes.
- `Wired`, `claim`, `Mp4` in `UploadService`: which validators the deployer chained,
  and what each upload sends them.
- `Races` in `WebReady`: `"remove"` lets an artifact be removed under a job.
- `Retire` and `Switch` in `Authorization`: the operator rotates keys by overlap, as
  documented. Which clients have which token is not restricted.
- `MayFail` in `S3Storage`: whether bucket requests may fail. `Failing` in
  `LocalStorage` and `UploadService`: which file operations may fail.

## What is checked

Runs that must pass:

| Run | Instance | Properties | Shows |
|---|---|---|---|
| `storage_serial` | 1 process, 2 calls, 1 id, 2 metas, mutators one at a time, any file operation failing | `SerialInv`, `ReadableStaysReadable`, `ImplementsLifecycle` | every step of the local adapter, crashes and failures included, is a step of one life per id; neither truncates a readable sidecar |
| `service_safety` | 1 process, 2 requests, 3 metas (no, a right and a wrong checksum; two of them MP4), upload length 1, failing reads, stats and FileStore operations | `ImplementsContract`, `StorageInv`, `ReadyIsMarked`, `ServiceTypeOK`, `NoPartialServed`, `ServingInv`, `AckedIsDurable`, `ReadyVouchesForBytes`, `DurableInv` | the service keeps its contract with its clients; incomplete or invalid bytes are never served; an acknowledged upload stays whole on disk; no collision of writers invents a "ready" |
| `service_liveness` | 1 process that does not crash, 2 requests, cache limit 0, fairness, every file operation failing | `AckedIsDurable`, `EveryRequestEnds` | no request hangs, whatever throws; an acknowledged upload stays, whatever fails |
| `s3_lifecycle` | 2 instances, 2 calls, 2 metas, 3 backends, failures | `TypeOK`, `Inv`, `ReadyIsMarked`, `SerialInv`, `ImplementsLifecycle` | the S3 adapter implements the contract; reservations race freely where `IfNoneMatch` is honoured |
| `web_ready` | 2 jobs, 1 path, 2 uploads, some 800 layouts | `Inv`, `ScanIsRight`, `ServedIsWhole`, `TmpIsTransient`, `FaststartStays`, `ReportIsTrue` | a rewrite never costs the artifact its bytes; the scan agrees with a definition by positions, but for files without `mdat`; reports are true |
| `authorization` | 2 servers, 2 keys, a session anchor and a child, some 60 headers, 9 URLs, 1 token, 6 seconds | `TypeOK`, `ActsOnTheApproved`, `CreatorKeepsAccess`, `AcceptedInTime`, `LiveTokenAccepted` | what is carried out is what was approved, on uploads the server made; a session keeps what it created; tokens are accepted from issue to expiry and not later than the tolerance allows |
| `artifact_index` | 3 workers, 2 jobs, 1 artifact, 2 uploads | `TypeOK`, `IndexedWasReady`, `ReconcileIsExact`, `PrunesOnlyLate`, `RowsAreCurrent` | every row names an upload that was ready; an undisturbed reconciliation leaves exactly what is on disk; what a disturbed one can do wrong is limited |
| `cluster` | 2 workers | `TypeOK`, `GivesUpOnlyInACrashLoop`, `CapacityIsRestored`, `CrashLoopEnds`, `ShutdownEnds` | lost workers are replaced; a crash loop ends the primary, crashes that recover do not; a shutdown ends, and kills nobody |

Runs that show the code doing what its documentation denies (each has one
property; TLC must find it violated):

| Run | Property | What happens |
|---|---|---|
| `exclusive_reserve` | `ExclusiveReserve` | two overlapping reservations of one id both succeed, with no removal between them: the second meets the first's sidecar after its creation and before its text, and takes it for crash debris |
| `repeated_finish` | `AckedIsDurable` | a second completion truncates the tmp file the first is about to rename; the sidecar of an acknowledged upload is torn |
| `s3_instances` | `InstancesAgree` | the instance that reserved an upload keeps "uploading" in its cache after another instance finished it |
| `removed_bytes` | `RemovedStaysGone` | a rewrite's rename puts the bytes of a removed artifact back, under no sidecar |

The quotes each of them contradicts are in `PROJECT.json` under `findings`.
`ExclusiveReserve` counts the successes since the id's last removal (`won`, a history
variable of `MCExclusiveReserve`); with a reservation that creates and writes its sidecar
in one step TLC finds it true, so it is the two steps that break it.

Five more findings are about passing runs, whose property says what the code does where
a comment says more:

| Run | Property | Where it stops short of the comment |
|---|---|---|
| `web_ready` | `ScanIsRight` | `web-ready.ts:70-71` promises "unknown" for a file missing either box; one with a `moov` and no `mdat` is "front" (`LacksMdat`) |
| `authorization` | `ActsOnTheApproved` | `core.ts:202-204` and `PROTOCOL.md:186-187` want the id that was approved to be the one acted on; for ids the server never made, `artifactIdFromUploadId` takes the second component and the FileStore the whole |
| `authorization` | `ActsOnTheApproved` | `core.ts:162` tests `relatedTo` untrimmed, `pulsevaultTus.ts:141` trims it: a padded relation is stored, and `authorize` is told of none |
| `cluster` | `ShutdownEnds` | `cluster.mjs:140-141, 166` promise a drain and a SIGKILL for stragglers; `disconnect()` has emptied `cluster.workers`, so the first exit ends the drain and nobody is killed |
| `artifact_index` | `PrunesOnlyLate` | `server.mjs:214` drops "rows whose files are gone", and `cluster.mjs:30-31` calls overlapping reconciliations harmless; rows of uploads that became ready after the listing are dropped too |

Each property of a passing run has a mutant: an operator marked `(Mistake: ...)`
beside the definition it replaces, such as writing the sidecar in place, taking
every EEXIST for debris, skipping the checksum, not answering what one await threw,
leaving the row to the next reconciliation, or not resetting the crash counter. TLC
must find the property violated with it.

### Bounds, and why they are enough

- One id in the adapters and the service: ids share nothing but the cache's eviction
  order and, in the service, the processes. `CacheLimit = 1` keeps the entry and
  `CacheLimit = 0` evicts it at once, which is what a second id could do to it at the
  worst moment. Eviction order between ids is not explored by TLC (the proofs cover
  any `Id` and any limit).
- Two slots: every race listed under `hazards` is between two calls or requests, and
  the proofs hold for any number; the one disturbance that needs three is noted below.
  With mutators one at a time, the second slot of `storage_serial` is for readers. One
  process in the local runs: TLC's second slot explores the disk races, and the proofs
  of `StorageInv` and the adapter's refinement hold for any number of processes on the
  disk. What the service promises its clients is checked for one process, and proved for
  any number with sticky routing; without that, a second process's cache breaks it (see
  *Noted while reading*).
- File operations that fail: `storage_serial` has all of them, and so has
  `service_liveness`, without crashes: a crash takes the callers along, and most of what it
  leaves on disk a failed operation leaves too. `service_safety` has crashes together with failing reads, stats and
  FileStore operations. The proofs hold for any `Failing`, crashes included.
- `Size = 1`: a body is absent or complete; a partial body differs from an absent
  one only in its offset, and offsets are compared for equality.
- Three metas in the service: one without a checksum, one whose bytes match it, one
  whose bytes do not and which is no MP4. That is an upload per outcome of each
  validator, and enough to tell two uploads of an id apart.
- `Authorization`: two processes let a key be known in one and not yet in the other;
  one token and `MaxTime = 6` reach past expiry (1) plus tolerance (2) plus twice the
  skew (1); one request slot, since sidecars change at once and the proofs hold for
  any number of slots. The headers are every way `Names` lists to name the artifact,
  each with every relation of `Relations`.
- `ArtifactIndex`: a third worker lets a reconciliation overlap with another one while
  a worker serves. Rows of different artifacts do not meet.
- `ClusterSupervisor`: with two workers the primary tolerates eight rapid exits; the
  run goes past that with the exits of one worker or spread over both.
- Boxes: `ftyp` and two more, bodies of one byte, or 64-bit sizes of 8 and 12 followed by
  what their own headers' bytes read as. The walk's decisions look at one header and the
  bytes left; the file is cut at the end, inside the last body, at its start, and inside
  the last header.
- No depth or state constraint is used in any run. Deadlock is checked in all but
  `cluster`, where the primary ends and its workers after it: nothing happens then.

### Fairness

`FairWork` asks weak fairness of each request's next step (`Adapter(c) \/
Handler(c)`): file-system operations end, well or not, their continuations run, and a
request waiting for a tus lock gives up at its timeout. A request awaits either the
adapter or its handler, never both, so one weak fairness condition per slot is what
Node's event loop gives. Clients owe nothing: no fairness on arrivals, and a body may
stop at any byte. `FairWork` has no crashes: a crash ends its requests without an answer,
which nobody can prevent, so nothing is promised to them. That a request of a later
process ends whatever an earlier one left is checked only as far as failing operations
leave the same: a torn or empty sidecar, a tmp file, bytes without a sidecar.

`ClusterSupervisor` asks weak fairness of `Exit` (Node delivers the event of a process
that ended, and the handler runs) and of the grace timer firing while the primary runs.
Nothing is asked of workers: they may drain for ever, crash at once every time, or never
end. That the timer is `unref`ed makes no difference: a worker that has not ended keeps
the primary's event loop alive, and one that ends is heard. `CrashLoopEnds` is about pools
in which no worker gets old any more; a position that loops beside healthy ones goes on
being restarted as long as they reset the counter.

## What is proved

Every theorem is about any sets of ids, metas, processes, calls, workers, requests and
tokens, any cache limit and any clock bound. Assumptions are the named `ASSUME`s of the
component modules, which say that the constants have their types (and, for headers and
words, that `Absent` is none of them), and the discipline named in the theorem.

| Module | Theorem | States | Under |
|---|---|---|---|
| `MetaCache_proofs` | lemmas | what `CacheSet`, `CacheDelete`, `Without` preserve: a Map in order, within its limit | - |
| `LocalStorage_proofs` | `StorageInvariant`, `StorageTypeCorrect`, `ReadyIsAlwaysMarked`, `CachesAlwaysBounded` | `StorageInv`, `StorageTypeOK`, `ReadyIsMarked`, `CachesStayBounded` | any `Overlap`, any `Failing` |
| | `SerialInvariant`, `ReadableAlwaysStays`, `LifecycleImplemented` | `SerialInv`, `ReadableStaysReadable`, `ImplementsLifecycle` | `Overlap = {}`, any `Failing` |
| `S3Storage_proofs` | `Invariant`, `TypeCorrect`, `ReadyIsAlwaysMarked`, `CachesAlwaysBounded` | `Inv`, `TypeOK`, `ReadyIsMarked`, `CachesStayBounded` | any `Overlap`, any backend |
| | `SerialInvariant`, `LifecycleImplemented` | `SerialInv`, `ImplementsLifecycle` | `Orderly` |
| `UploadService_proofs` | `ServiceKeepsStorage`, `ServiceTypeCorrect`, `ServiceReadyIsMarked` | `StorageInv`, `ServiceTypeOK`, `ReadyIsMarked` in the composed system | any `Races` (this and all below: any `Failing`) |
| | `RoutedAlways` | `Routed` | any `Races`, any routing |
| | `ServingInvariant`, `NoPartialServedHolds` | `ServingInv`, `NoPartialServed` | `Sticky`, `"create"` not in `Races` |
| | `DurableInvariant`, `ReadyVouchesForBytesHolds`, `AckedIsDurableHolds` | `DurableInv`, `ReadyVouchesForBytes`, `AckedIsDurable` | `Sticky`, `Races = {}` |
| | `ContractImplemented`, `AcknowledgedStays` | `ImplementsContract`, `Contract!AckedStays` | `Sticky`, `Races = {}` |
| `WebReady_proofs` | `ScanRight`, `TypesAreRight`, `ScanIsAlwaysRight`, `TmpIsAlwaysTransient` | what the scan answers for every layout (`Scan` against `MoovPosition`, but for `LacksMdat`); the stored files' types; `ScanIsRight`, `TmpIsTransient` | any `Races` |
| | `Invariant`, `ServedIsAlwaysWhole`, `FaststartStaysThere`, `ReportIsAlwaysTrue`, `RemovedIsGone` | `Inv`, `ServedIsWhole`, `FaststartStays`, `ReportIsTrue`, `RemovedStaysGone` | `Races = {}` (`removed_bytes` shows the need) |
| `Authorization_proofs` | `TypeCorrect`, `ActsOnTheApprovedHolds`, `CreatorKeepsAccessHolds`, `AcceptedInTimeHolds`, `LiveTokenAcceptedHolds` | the properties of the same names | - |
| `ArtifactIndex_proofs` | `TypeCorrect`, `IndexedWasReadyHolds`, `PrunesOnlyLateHolds`, `ReconcileIsExactHolds`, `RowsAreCurrentHolds` | the properties of the same names | - |
| `ClusterSupervisor_proofs` | `TypeCorrect`, `GivesUpOnlyInACrashLoopHolds` | `TypeOK`, `GivesUpOnlyInACrashLoop` | - |

*Ready is never made up.* `ReadyIsMarked` ("ready is only claimed of an id `markReady`
was called for") is not inductive: it says nothing of what a call is about to write,
nor of a call that found an upload and carries its metadata to a later write.
The strengthening adds `Sound`, one clause per such debt of a call in flight
(a call that writes is a reservation or a `markReady`; a `markReady`'s id is
already marked; what a call has read is honest), and `Honest` for every place a
status lives: sidecar, tmp file, cache. Each step is then shown to preserve it in
a lemma of its own. A step of `UploadService` changes the adapter's variables only by
adapter steps, by starting a call, or by dropping one, so the same lemmas serve the
composed system; there `ReadyIsMarked` is about completions, whatever handlers race.

*The refinement.* A step of an adapter is one step of `ArtifactLifecycle` or none, if
what it writes agrees with what is there. `markReady` writes metadata it read some
awaits ago, and the rename moves whatever the tmp file holds by then. `SerialInv` says
that a mutating call that is alone on its artifact may count on it: the sidecar is
still what it read (`Counts`), and its tmp file holds what it wrote. Readers do not
disturb that, since they touch only the cache, nor do crashes, since they end the
call. For the local adapter the tmp file of a *dead* writer must be harmless
too: a later writer truncates it before anything renames it. For S3, `Orderly` lets
reservations overlap where the backend honours `IfNoneMatch`; then what a reservation
counts on is asked only of writes that do not carry the condition.

*Nothing partial is served.* A GET sends the file by name, some awaits after `resolve`
called the artifact ready, so "ready" has to be right about the bytes wherever it is
said: by the sidecar, by the cache, by a call that read either, by a request that was
validated and is about to mark, or resolved and is about to send. That is
`ReadyIsPresentable` (`Ready` is the disjunction of those places). What could break it
is a create, which empties the file. So a create that has not made its byte file yet
is alone on its artifact or the first there ever was (`CreateInTime`, `FreshIsVirgin`),
and what it reserved over is not ready, nor is anything once it holds its reservation
(`ReservesUnready`). `FinishesWhole` keeps the file whole between the last byte and the
verdict, and `Linked` ties each stage of a handler to the adapter method it awaits.
Each step is summed up (`Works` for the adapter's, `Acts` with `Owes` or `Calm` for a
request's) and two lemmas carry the invariant over from the summary. The theorem
assumes sticky routing because a reservation clears its own process's cache and no
other: see *Noted while reading* for what two processes do to one artifact.

*Routing.* What sticky routing gives is an invariant too, for any routing: every request
in flight, adapter call and cache entry of a process is about an artifact routed there
(`Routed`). A step of a slot touches one artifact, the one its request arrived with
(`Confined`). With `Sticky`, whoever works on an artifact is then in the one process
that may have it cached or locked (`OneHome`), which is where the other proofs use it;
and a crash takes either all requests on an artifact or none.

*A bounded cache.* Both adapters' invariants say that the cache is a Map of at most
`CacheLimit` keys (`CacheType`): every cached id is in the insertion order, once.
`CacheSet` appends after it removed the key, so the order is one too long at most before
it drops the oldest; ids and their places in the order are then an injection, hence the
bound on how many artifacts are cached.

*What is acknowledged stays.* `AckedIsDurable` and `ReadyVouchesForBytes` follow from
`DurableInv`, which stands on `ServingInv` and adds three things. *Whose upload it is:*
the sidecar, the cache, what any request has read and what a finished reservation wrote
all name one upload (`OneUpload`, over `Claimed`), except while a reservation is between
its write and the cache; a reservation replaces nothing readable (`Reserves`). So the
checksum a completion goes by, wherever it found it, is the one that belongs to the
bytes, and what markReady may write was checked (`Checked`, `Marks`). *One writer:* a
single request creates, writes or completes an artifact at a time (`OneUploader`), since
a PATCH gets past the offset check only while bytes are missing, and one without bytes
is alone (`AsksAgainAlone`); so no second markReady truncates the tmp file, and no
late write tears a sidecar that says ready. *What a promise holds off:* while one stands
(`Live`) nothing is being removed (`RemovesWithdrawn`) and the bytes are there
(`KeepsBytes`). The proof treats a step as one request's: `Elsewhere` and `Leaves` say
what it does not touch, `OthersUphold` shows that every other request may go on counting
on what it did, and `Carries` and `Settles` are what each action has to show for its own
request and artifact; `StepEndures` puts them together. A crash leaves of an artifact
that was worked on only the disk, and the disk names one upload at most.

*The contract.* With the three invariants, every step of the service is one of
`UploadContract` on one artifact (`Deals`), a crash, or invisible to clients
(`ContractStep`). Most steps leave what is held alone (`Steady`); the ones that count
are the rename that makes a sidecar ready, where `DurableInv` says that the bytes are
whole and checked; the deposit of bytes and the FileStore's create, which `KeepsBytes`
and `ReadyIsPresentable` keep away from what is held; the removals, which
`RemovesWithdrawn` ties to a withdrawal; and the answers, where `Marks` and
`AckedIsReady` say that what is acknowledged is held. `AcknowledgedStays` is read off the
contract alone: no step of it but a withdrawal touches what was acknowledged.

*The scan.* A recursive function exists only if its recursion is well founded, and what
it computes takes induction. Both come here from the principle that a set of numbers has
a least one (`LeastNumber`, from the library's theorem on finite sets), which
`InductionUpTo` and `RecursionExists` restate for sets of numbers and for functions given
by a start and a step: no theorem with an operator for a parameter is needed. The rest is
a loop invariant: while the walk goes on, all boxes behind it are reachable, none is the
moov and the first is ftyp, it stands where the last of them ends, and it has seen an mdat
if and only if one of them is one. Sizes enter only as what is added to the position, so
that a box overlaps its own header is no case of its own.

*Rewriting.* `JobOK` carries the debts of a job: the temporary file it is about to
rename is whole and made from the bytes of the upload that owns the path, which is
what `ServedIsWhole` needs at the rename.

*Authorization.* The parsers are compared as operators: whenever the naming function
does not refuse a header, no key occurs twice in it, so the earliest, the latest and
the only value of a key are the same, and both readings agree on id, kind and relation.
For the URLs of uploads the server made, at most one trailing slash is dropped by both, so
the last segment is the same one; ids it never made are outside the theorem (see the findings). The rest is an invariant over the requests between approval and action, and
over tokens and keys: a key that signs is known to every process, a token's key is
known to all until it has expired on the true clock.

*Index.* `RowsAreCurrent` needs to know, of each copy somebody is about to upsert,
that it is of the upload on disk unless that is being deleted (`loose`).
`ReconcileIsExact` needs, of a calm reconciliation, what is already right at each of
its three loops, next to other workers whose reconciliations must be calm too.

*Crash loop.* `GivesUpOnlyInACrashLoop` follows from `LoopInv`: until a position has
crashed its share in a row, `rapidCrashes` is at most the number of pairs of a position
and a crash of its present streak. A young exit adds one to both, an old one resets the
counter; and a pool whose streaks are all short of the share is short of the limit.

*Only model-checked:* liveness, `EveryRequestEnds`, `CapacityIsRestored`, `CrashLoopEnds`
and `ShutdownEnds`: liveness under fairness is out of the prover's reach.

## Noted while reading, no run

- `types.ts:125-128` says `markReady` is called after `onUploadComplete`;
  `pulsevaultTus.ts:281-305` calls it before, and the model follows the code.
- A repeated final PATCH calls `onUploadComplete` again;
  `test/plugin.test.mjs:490` tests that it fires once for one PATCH.
- A process that dies while ffmpeg runs leaves its `.webready-<uuid>` file beside the
  artifact; only the `catch` of `rewriteInPlace` removes such files (`web-ready.ts:171`),
  and nothing looks for old ones. `TmpIsTransient` excepts jobs whose process died.
- Over S3, a create whose PUT landed and whose answer was lost for good is answered with
  an error, and its retry with 409.
- A crash between `reserveUpload` and the FileStore's create leaves an id that
  answers 409 to a new create until it is removed.
- `DELETE /upload/:id` removes the bytes and leaves the sidecar.
- Two jobs on one artifact that disagree about transcoding (different options, or
  one failed probe) may leave a remux where a transcode was.
- An id is created a second time while its first upload completes (`Races =
  {"create"}`): the first's late "ready" lands in the cache over the second reservation,
  and the second's incomplete bytes are served (`NoPartialServed`).
- A lookup that read "uploading" may fill the cache after `markReady` put "ready" there
  (`local.ts:256`); the process answers 404 until the entry is evicted. Adding
  `INVARIANT AckedIsServed` to `service_safety.cfg` shows it.
- The same late fill, with three requests: a first create dies with its process and
  leaves a reservation; a GET reads its sidecar, a DELETE removes it, a new POST reserves
  and commits, and then the GET's continuation caches the removed upload's metadata. The
  validators of the new upload then look for a checksum in the wrong metadata, and
  `ReadyVouchesForBytes` fails. `Crash` counts the id as used, so that this belongs to
  the race `"create"`; the proof of `DurableInv` is what found it.
- Two processes on one disk without sticky routing (`Routes <- Everything`,
  `procOf <- TwoProcesses`, `Proc = {p1, p2}`, no symmetry in
  `service_safety.cfg`): TLC finds `AckedIsServed` violated, as the worker that reserved
  or looked up an upload keeps "uploading" in its cache while another completes it; and
  `NoPartialServed`, as a worker's "ready" survives a removal and a new creation by
  another, and the new upload's first bytes are served. `cluster.mjs:12` calls the
  cluster "Safe with the LOCAL storage adapter", and `OPERATIONS.md:55` offers a shared
  filesystem, with a caveat about the mount only, beside sticky sessions.
- A crash in `remove` may leave the bytes without a sidecar (`local.ts:368`). If the id
  is reserved anew without a checksum and the next crash comes before the FileStore
  truncates the file, a completion finds the old bytes whole and marks them ready.
  `ReadyVouchesForBytes` therefore speaks of length and format, and of identity only
  where a checksum was sent.
- A checksum that does not parse asks for no check (`checksum.ts`); it does not fail the
  upload.
- A retried DELETE of a child artifact answers 403 once the sidecar with its relation is
  gone: `authorize` no longer sees the session the child belonged to.
- The index's `upsert` leaves an existing row alone (`update: {}`), so a row that is
  wrong (`loose`) stays wrong until it is pruned.
- The auth demo's `/captions` route serves the file `getLocalPath` names without asking
  whether the upload is ready.

## Not modelled

The `components` list of `PROJECT.json` gives each part and the reason. In short:

- Deep links, option checking, error formatting, the UUID test: pure functions of their
  arguments, with nothing to interleave.
- HEAD and OPTIONS, the capabilities route: change nothing.
- Pages, the event feed, subtitle pairing and sign-in of the example servers, the Meteor
  and plain Fastify demos: request-by-request code without state of its own beside the
  index. An external retention job counts as another process of the storage.
- The HMAC of a token, base64, JSON: a value either is what was encoded or is malformed.
- Three hazards have a note in place of a property: a validator's 5xx on a repeated
  completion removes an upload that was acknowledged (`pulsevaultTus.ts:261`), a crash
  between `reserveUpload` and the datastore's create leaves an id nobody can use
  (`pulsevaultTus.ts:200`), and `remove` over S3 takes the object's key from a cache
  another instance may have outdated (`s3.ts:444`).

## Plan

Done, in this order: the contract and the cache; the local adapter; the composed
service with its validators; the S3 adapter; the rewriter; authorization; the artifact
index; the cluster supervisor; the service's contract with its clients; sticky routing;
and the proofs of the table above.

Left:

1. The service over `S3Storage`, with a client that retries and deletes, for the
   hazards that have a note.
2. Two ids with `CacheLimit = 1`, for eviction order under TLC (the proofs cover it).
3. Several requests at once in the `authorization` run (the proofs cover it).
