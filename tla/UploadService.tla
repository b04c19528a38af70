---------------------------- MODULE UploadService ----------------------------
(***************************************************************************)
(* The request handlers of src/core.ts and the completion pipeline of      *)
(* src/lib/pulsevaultTus.ts, composed with the storage adapter they drive  *)
(* (LocalStorage) and with the tus server and FileStore of @tus (external: *)
(* modelled from how src/ uses them).                                      *)
(*                                                                         *)
(* A slot of Call is one HTTP request; call[c] is the adapter method it is *)
(* awaiting, req[c] where its handler stands.  Each handler step consumes  *)
(* the outcome of the method it awaited and starts the next one.  Requests *)
(* of all kinds interleave; a process may crash, dropping its requests.    *)
(*                                                                         *)
(* Abstracted: an upload's bytes are how many have arrived and whose they  *)
(* are; authorize, onUploadComplete and what validatePayload does beside   *)
(* the package's own validators (Validation) are the deployer's and may    *)
(* refuse at any time; an authorize refusal of a create happens before     *)
(* anything is touched and is left out.  The kind/checksum/path lookups of *)
(* onUploadFinish hit the cache after the first: one lookup.               *)
(***************************************************************************)
EXTENDS LocalStorage, Validation

CONSTANTS
  Races,    \* races the clients are allowed to produce
  Routes    \* the artifactIds whose requests are routed to each process

ASSUME RoutesAssumption == Routes \in [Proc -> SUBSET Id]
ASSUME UploadAssumption == claim \in [Meta -> Claim] /\ Mp4 \subseteq Meta

VARIABLES
  req,       \* the HTTP request in each slot
  content,   \* the byte file of each id: how many bytes, of which upload
  promise    \* history: what the clients of an id have last been told

vars == <<storageVars, req, content, promise>>

NoBody == [len |-> 0, by |-> Null]
NoReq == [op |-> "none", id |-> Null, meta |-> Null, stage |-> "idle",
          offset |-> 0, out |-> "none", body |-> NoBody]

InFlight(c) == req[c].stage \notin {"idle", "answered"}
On(c, i) == InFlight(c) /\ req[c].id = i
Returned(c, stage) == req[c].stage = stage /\ ~Running(c)
Succeeded(c, stage) == Returned(c, stage) /\ call[c].pc = "done"

-----------------------------------------------------------------------------
(* What steps are made of.                                                 *)

Goto(c, stage) == req' = [req EXCEPT ![c].stage = stage]

\* The response is written and the slot awaits no adapter method any more.  Only an
\* answer with bytes is remembered; what uploaders are told shows in promise.
Respond(c, out, body) ==
  req' = [req EXCEPT ![c] =
    IF out # "served" THEN NoReq
    ELSE [NoReq EXCEPT !.op = "get", !.id = req[c].id, !.stage = "answered",
                       !.out = out, !.body = body]]
Answer(c, out) ==
  /\ Respond(c, out, NoBody)
  /\ call' = [call EXCEPT ![c] = Idle]
  /\ UNCHANGED <<sidecar, tmp, stored, cache, marked, content>>

\* The handler awaits the next adapter method.
Await(c, op, stage) ==
  /\ Begin(c, op, req[c].id, Null)
  /\ Goto(c, stage)
  /\ UNCHANGED content

\* From the moment something is told to remove an artifact, nothing is promised.
Withdraw(i) == promise' = [promise EXCEPT ![i] = "withdrawn"]
Removal == {"removing", "rejecting", "unlinking", "unregistering"}

\* One request at a time holds the tus lock of an upload, in each process.
Holder == {"creating", "registering", "writing", "unlinking", "unregistering"}
LockFree(c) ==
  \A d \in Call \ {c} : procOf[d] = procOf[c] /\ req[d].id = req[c].id
                          => req[d].stage \notin Holder

-----------------------------------------------------------------------------
(* Arrivals.                                                               *)

\* While an artifactId used before is being created anew, no other request on it
\* arrives: that, and a create while others are in flight, is the race "create".
CreatesAlone(op, i) ==
  \/ "create" \in Races
  \/ IF op = "post" THEN \A d \in Call : ~On(d, i)
     ELSE promise[i] = "fresh" \/ \A d \in Call : On(d, i) => req[d].op # "post"

Arrive(c, op, i, m, offset) ==
  /\ ~InFlight(c) /\ i \in Routes[procOf[c]] /\ CreatesAlone(op, i)
  /\ req' = [req EXCEPT ![c] = [NoReq EXCEPT !.op = op, !.id = i, !.meta = m,
               !.offset = offset,
               !.stage = IF op = "post" THEN "reserving" ELSE "authorizing"]]
  /\ Begin(c, IF op = "post" THEN "reserve" ELSE "load", i, m)
  /\ UNCHANGED <<content, promise>>

\* POST /upload: namingFunction reserves the artifactId.
Post(c, i, m) == Arrive(c, "post", i, m, 0)

\* PATCH /upload/:id, at the offset the client knows.  One at Size carries no
\* byte and asks for the completion again; overlapping another PATCH or the
\* create, it is the race "complete".
Patch(c, i) ==
  /\ \/ "complete" \in Races \/ content[i].len < Size
     \/ \A d \in Call : On(d, i) => req[d].op \notin {"post", "patch"}
  /\ Arrive(c, "patch", i, Null, content[i].len)

\* GET and DELETE /artifacts/:id, DELETE /upload/:id.
Get(c, i) == Arrive(c, "get", i, Null, 0)
Delete(c, i) == Arrive(c, "delete", i, Null, 0)
Cancel(c, i) == Arrive(c, "cancel", i, Null, 0)

\* runAuthorize and prepareArtifactRequest have looked the artifact up; the
\* consumer's authorize refuses, or the request goes on.
Refused(c) ==
  /\ Succeeded(c, "authorizing")
  /\ Answer(c, "refused") /\ UNCHANGED promise

Authorized(c) ==
  /\ Succeeded(c, "authorizing")
  /\ \/ /\ req[c].op = "get"
        /\ Await(c, "resolve", "resolving") /\ UNCHANGED promise
     \/ /\ req[c].op = "delete"
        /\ Await(c, "remove", "removing") /\ Withdraw(req[c].id)
     \/ /\ req[c].op \in {"patch", "cancel"}
        /\ Goto(c, "locking") /\ UNCHANGED <<storageVars, content, promise>>

-----------------------------------------------------------------------------
(* The tus server and its FileStore.                                       *)

\* (Mistake: the create goes on when its reservation fails.)
ReservedAnyway(c) ==
  /\ Returned(c, "reserving")
  /\ Goto(c, "locking")
  /\ promise' = [promise EXCEPT ![req[c].id] = IF @ = "fresh" THEN "open" ELSE @]
  /\ UNCHANGED <<storageVars, content>>

\* reserveUpload returned: a new upload starts, or the create is refused.  A failed one
\* may have left something behind: the artifactId has been used.
Reserved(c) ==
  /\ Returned(c, "reserving")
  /\ \/ /\ call[c].pc = "done"
        /\ Goto(c, "locking")
        /\ promise' = [promise EXCEPT ![req[c].id] =
             IF \E d \in Call : On(d, req[c].id) /\ req[d].stage \in Removal
             THEN "withdrawn" ELSE "open"]
        /\ UNCHANGED <<storageVars, content>>
     \/ /\ call[c].pc # "done"
        /\ Answer(c, call[c].pc)
        /\ promise' = [promise EXCEPT ![req[c].id] = IF @ = "fresh" THEN "withdrawn" ELSE @]

\* The tus lock is taken; then the FileStore must know the upload, and a PATCH
\* must come at the stored offset.
AcquireLock(c) ==
  LET r == req[c]
      known == stored[r.id] = StoreFile
  IN  /\ r.stage = "locking" /\ LockFree(c)
      /\ \/ /\ r.op = "post"
            /\ Goto(c, "creating")
            /\ UNCHANGED <<storageVars, content, promise>>
         \/ /\ r.op = "patch" /\ known /\ content[r.id].len = r.offset
            /\ Goto(c, "writing")
            /\ UNCHANGED <<storageVars, content, promise>>
         \/ /\ r.op = "cancel" /\ known
            /\ Goto(c, "unlinking") /\ Withdraw(r.id)
            /\ UNCHANGED <<storageVars, content>>
         \/ /\ r.op # "post"
            /\ ~known \/ (r.op = "patch" /\ content[r.id].len # r.offset)
            /\ Answer(c, "absent") /\ UNCHANGED promise

\* A request that waits too long for the lock gives up.
LockTimeout(c) ==
  /\ req[c].stage = "locking" /\ ~LockFree(c)
  /\ Answer(c, "failed") /\ UNCHANGED promise

\* FileStore.create: an empty byte file, then the upload's info file.
CreateFile(c) ==
  LET i == req[c].id
  IN  /\ req[c].stage = "creating"
      /\ stored' = [stored EXCEPT ![i] = @ \cup {"bytes"}]
      /\ content' = [content EXCEPT ![i] = [len |-> 0, by |-> req[c].meta]]
      /\ Goto(c, "registering")
      /\ UNCHANGED <<sidecar, tmp, cache, call, marked, promise>>

\* The create is answered, or its body carries the first bytes along.
CreateInfo(c) ==
  /\ req[c].stage = "registering"
  /\ stored' = [stored EXCEPT ![req[c].id] = @ \cup {"info"}]
  /\ \/ /\ Respond(c, "created", NoBody)
        /\ call' = [call EXCEPT ![c] = Idle]
     \/ Goto(c, "writing") /\ UNCHANGED call
  /\ UNCHANGED <<sidecar, tmp, cache, marked, content, promise>>

\* The body is appended; a client that goes away leaves what arrived of it.
\* At Size the lock is released and onUploadFinish looks the artifact up.  A disk that
\* fails leaves a part of the body, too.
Receive(c) ==
  LET i == req[c].id
  IN  /\ req[c].stage = "writing"
      /\ \E n \in 0..Size :
           /\ n >= content[i].len
           /\ content' = IF "bytes" \in stored[i]
                         THEN [content EXCEPT ![i].len = n] ELSE content
           /\ IF n = Size
              THEN Begin(c, "load", i, Null) /\ Goto(c, "finishing")
              ELSE /\ Respond(c, "partial", NoBody)
                   /\ call' = [call EXCEPT ![c] = Idle]
                   /\ UNCHANGED <<sidecar, tmp, stored, cache, marked>>
      /\ UNCHANGED promise

\* The byte file was deleted before the write opened it.
FileGone(c) ==
  /\ req[c].stage = "writing" /\ "bytes" \notin stored[req[c].id]
  /\ Answer(c, "failed") /\ UNCHANGED promise

\* FileStore.remove, for DELETE /upload/:id; the sidecar is not its business.
Unlink(c) ==
  /\ req[c].stage = "unlinking"
  /\ stored' = [stored EXCEPT ![req[c].id] = @ \ {"bytes"}]
  /\ Goto(c, "unregistering")
  /\ UNCHANGED <<sidecar, tmp, cache, call, marked, content, promise>>

Unregister(c) ==
  /\ req[c].stage = "unregistering"
  /\ stored' = [stored EXCEPT ![req[c].id] = @ \ {"info"}]
  /\ Respond(c, "removed", NoBody)
  /\ call' = [call EXCEPT ![c] = Idle]
  /\ UNCHANGED <<sidecar, tmp, cache, marked, content, promise>>

-----------------------------------------------------------------------------
(* onUploadFinish: validate, markReady, the consumer's hook.               *)

\* The byte file of an artifact, as the validators and send find it.
Bytes(i) == IF "bytes" \in stored[i] THEN content[i] ELSE NoBody

\* The checksum metadata a completion goes by: what its own create request sent,
\* or else what the storage has of the artifact.
Sent(c) == IF ChecksumOf(req[c].meta) # "none" THEN req[c].meta ELSE call[c].got.meta

\* The validators pass the artifact: the bytes on disk, as the lookup found it.
Validated(c) == Passes(Sent(c), call[c].got # NoFile, Bytes(req[c].id))

Accept(c) ==
  /\ Succeeded(c, "finishing") /\ Validated(c)
  /\ Await(c, "markReady", "marking") /\ UNCHANGED promise

\* validatePayload threw, for its own reasons or the payload's, or the lookup of the path
\* did: remove it all.  A removal that fails is logged.
Reject(c) ==
  /\ Returned(c, "finishing")
  /\ Await(c, "remove", "rejecting") /\ Withdraw(req[c].id)

Rejected(c) ==
  /\ Returned(c, "rejecting")
  /\ Answer(c, "rejected") /\ UNCHANGED promise

MarkedReady(c) ==
  /\ Returned(c, "marking")
  /\ \/ /\ call[c].pc = "done" /\ Goto(c, "notifying")
        /\ UNCHANGED <<storageVars, content, promise>>
     \/ /\ call[c].pc # "done" /\ Answer(c, "failed") /\ UNCHANGED promise

\* onUploadComplete succeeds and the client is told, or it throws.
HookDone(c) ==
  LET i == req[c].id
  IN  /\ req[c].stage = "notifying"
      /\ Answer(c, "complete")
      /\ promise' = [promise EXCEPT ![i] = IF @ = "open" THEN "acked" ELSE @]

HookFailed(c) ==
  /\ req[c].stage = "notifying"
  /\ Answer(c, "failed") /\ UNCHANGED promise

-----------------------------------------------------------------------------
(* The artifact routes.                                                    *)

Removed(c) ==
  /\ Succeeded(c, "removing")
  /\ Answer(c, IF call[c].got = NoFile THEN "absent" ELSE "removed")
  /\ UNCHANGED promise

Resolved(c) ==
  /\ Succeeded(c, "resolving")
  /\ \/ /\ call[c].got = NoFile
        /\ Answer(c, "absent") /\ UNCHANGED promise
     \/ /\ call[c].got # NoFile
        /\ Goto(c, "sending") /\ UNCHANGED <<storageVars, content, promise>>

\* send opens the byte file, if it is still there, and streams it.
Send(c) ==
  LET i == req[c].id
  IN  /\ req[c].stage = "sending"
      /\ IF "bytes" \in stored[i]
         THEN Respond(c, "served", content[i]) ELSE Respond(c, "absent", NoBody)
      /\ call' = [call EXCEPT ![c] = Idle]
      /\ UNCHANGED <<sidecar, tmp, stored, cache, marked, content, promise>>

-----------------------------------------------------------------------------
(* What throws.                                                            *)

\* (Mistake: only what the request awaits first is inside the try.)
FailClosedEarly(c) ==
  /\ req[c].stage \in {"authorizing", "finishing"} /\ call[c].pc = "failed"
  /\ Answer(c, "failed") /\ UNCHANGED promise

\* The adapter method threw: failClosed answers 500, the tus server for onUploadFinish.
\* remove throws at the first rm that fails; the request keeps its slot, and counts as one
\* on its artifact, until the others have settled.
FailClosed(c) ==
  /\ req[c].stage \in {"authorizing", "finishing", "removing", "resolving"}
  /\ call[c].pc = "failed"
  /\ Answer(c, "failed") /\ UNCHANGED promise

\* A file operation of the FileStore or of send fails (Receive has the case of a write).
StoreFails(c) ==
  /\ "store" \in Failing
  /\ req[c].stage \in {"locking", "creating", "registering", "unlinking",
                       "unregistering", "sending"}
  /\ Answer(c, "failed") /\ UNCHANGED promise

-----------------------------------------------------------------------------

\* A process dies with its requests; nobody is answered.  An artifactId whose first
\* create was among them has been used.
Crash(p) ==
  /\ CrashStorage(p)
  /\ req' = [c \in Call |-> IF procOf[c] = p THEN NoReq ELSE req[c]]
  /\ promise' = [i \in Id |->
       IF /\ promise[i] = "fresh"
          /\ \E c \in Call : procOf[c] = p /\ On(c, i) /\ req[c].op = "post"
       THEN "withdrawn" ELSE promise[i]]
  /\ UNCHANGED content

Adapter(c) == StorageStep(c) /\ UNCHANGED <<req, content, promise>>

Handler(c) ==
  \/ Refused(c) \/ Authorized(c) \/ Reserved(c) \/ AcquireLock(c)
  \/ LockTimeout(c) \/ CreateFile(c) \/ CreateInfo(c) \/ Receive(c)
  \/ FileGone(c) \/ Unlink(c) \/ Unregister(c) \/ Accept(c) \/ Reject(c)
  \/ Rejected(c) \/ MarkedReady(c) \/ HookDone(c) \/ HookFailed(c)
  \/ Removed(c) \/ Resolved(c) \/ Send(c) \/ FailClosed(c) \/ StoreFails(c)

Client(c) ==
  \E i \in Id : \/ \E m \in Meta : Post(c, i, m)
                \/ Patch(c, i) \/ Get(c, i) \/ Delete(c, i) \/ Cancel(c, i)

Init ==
  /\ InitStorage
  /\ req = [c \in Call |-> NoReq]
  /\ content = [i \in Id |-> NoBody]
  /\ promise = [i \in Id |-> "fresh"]

Work == \E c \in Call : Client(c) \/ Adapter(c) \/ Handler(c)

Next == Work \/ \E p \in Proc : Crash(p)

Spec == Init /\ [][Next]_vars

\* As long as no process dies: file-system operations end, well or not, and continuations
\* run; clients owe nothing.  At any time a request awaits either the adapter or its
\* handler, never both.
FairWork ==
  Init /\ [][Work]_vars /\ \A c \in Call : WF_vars(Adapter(c) \/ Handler(c))

-----------------------------------------------------------------------------
(* Properties.                                                             *)

\* A file with all the bytes of one upload, and an MP4 if that is looked at.
Presentable(file) == file.len = Size /\ ("sniffer" \in Wired => file.by \in Mp4)

\* A file that is good for an upload: presentable, and if that came with a checksum to
\* check, the very bytes whose digest was sent.
GoodFor(file, m) ==
  /\ Presentable(file)
  /\ "checksum" \in Wired /\ Checkable(ChecksumOf(m)) => DigestIs(file, m)

\* The file vouched for by what a sidecar says.
Vouched(i, found) == GoodFor(Bytes(i), found.meta)

\* Every variable of the handlers has its type.
ReqType ==
  [op : {"none", "post", "patch", "get", "delete", "cancel"},
   id : Id \cup {Null}, meta : Meta \cup {Null},
   stage : {"idle", "answered", "reserving", "authorizing", "locking", "creating",
            "registering", "writing", "unlinking", "unregistering", "finishing",
            "rejecting", "marking", "notifying", "removing", "resolving", "sending"},
   offset : 0..Size, out : {"none", "served"},
   body : [len : 0..Size, by : Meta \cup {Null}]]
ServiceTypeOK ==
  /\ StorageTypeOK
  /\ req \in [Call -> ReqType]
  /\ content \in [Id -> [len : 0..Size, by : Meta \cup {Null}]]
  /\ promise \in [Id -> {"fresh", "open", "acked", "withdrawn"}]

\* The load balancer keeps the requests of an artifact with one process.
Sticky == \A p, q \in Proc : p # q => Routes[p] \cap Routes[q] = {}

\* A process works on the artifacts that are routed to it, and knows of no others.
Routed ==
  /\ \A c \in Call : /\ InFlight(c) => req[c].id \in Routes[procOf[c]]
                     /\ call[c].id \in Routes[procOf[c]] \cup {Null}
  /\ \A p \in Proc, i \in Id : cache[p].entry[i] # NoFile => i \in Routes[p]

\* A GET never serves bytes that are incomplete, or no MP4 where that is looked at:
\* partially written files never leak out, whatever is uploaded, with or without a
\* checksum, removed, cancelled, cached or lost in a crash meanwhile.
NoPartialServed ==
  \A c \in Call : req[c].out = "served" => Presentable(req[c].body)

\* The inductive invariant behind NoPartialServed, where routing is sticky and without
\* the race "create".  What says that artifact i is ready: its sidecar, the cache, what a
\* call has read of it, or a request that marks or sends it.
SaysReady(c, i) ==
  \/ call[c].id = i /\ call[c].got.state = "ready"
  \/ req[c].id = i /\ req[c].stage \in {"marking", "sending"}
Ready(i) ==
  \/ sidecar[i].state = "ready"
  \/ \E c \in Call : cache[procOf[c]].entry[i].state = "ready" \/ SaysReady(c, i)

\* The adapter method each stage awaits; the others await none.
Awaited == [reserving |-> "reserve", authorizing |-> "load", finishing |-> "load",
            rejecting |-> "remove", removing |-> "remove", marking |-> "markReady",
            resolving |-> "resolve"]
Fits(r) ==
  /\ r.pc \in Deleting => r.op = "remove"
  /\ r.pc = "stat" => r.op = "resolve"
  /\ r.pc = "resume" => r.op # "reserve"
  /\ r.op = "resolve" /\ r.pc # "resume" => r.got.state \in {"none", "ready"}
Linked(c) ==
  /\ IF InFlight(c) THEN call[c].id = req[c].id ELSE call[c] = Idle
  /\ IF req[c].stage \in DOMAIN Awaited THEN call[c].op = Awaited[req[c].stage]
                                        ELSE ~Running(c)
  /\ req[c].stage = "creating" => req[c].op = "post"
  /\ Fits(call[c])

\* A create that has not made its byte file yet is the only request on its artifact, or
\* the first there ever was, others having come early and found nothing.
Pending(c) == req[c].op = "post" /\ req[c].stage \in {"reserving", "locking", "creating"}
Virgin(i) == i \notin marked /\ stored[i] = {}
Early(c) ==
  req[c].op # "post" /\ req[c].stage \in {"authorizing", "locking", "resolving", "removing"}
CreateInTime(c) ==
  Pending(c) =>
    \/ \A d \in Call \ {c} : ~On(d, req[c].id)
    \/ /\ Virgin(req[c].id)
       /\ \A d \in Call \ {c} : On(d, req[c].id) => Early(d)
FreshIsVirgin(i) ==
  promise[i] = "fresh" =>
    /\ Virgin(i)
    /\ \A c \in Call : On(c, i) => Early(c) \/ req[c].stage = "reserving"

\* What a create has replaced or found missing is not ready; nothing is, once it has
\* its reservation.
Unready(r, file, draft) ==
  /\ r.pc \in {"write", "tmpOpen", "tmpWrite", "rename", "commit"} => file.state # "ready"
  /\ r.pc \in {"tmpWrite", "rename"} => draft.state # "ready"
ReservesUnready(c) ==
  LET i == req[c].id
  IN  /\ req[c].stage = "reserving" => Unready(call[c], sidecar[i], tmp[i])
      /\ Pending(c) /\ (req[c].stage = "reserving" => call[c].pc = "done") => ~Ready(i)

FinishesWhole(c) ==
  req[c].stage = "finishing" /\ "bytes" \in stored[req[c].id]
    => content[req[c].id].len = Size
ReadyIsPresentable(i) ==
  Ready(i) /\ "bytes" \in stored[i] => Presentable(content[i])

\* Whatever says that an artifact is ready is right about the bytes that are there.
ServingInv ==
  /\ \A c \in Call : /\ Linked(c) /\ CreateInTime(c) /\ ReservesUnready(c)
                     /\ FinishesWhole(c)
  /\ \A i \in Id : FreshIsVirgin(i) /\ ReadyIsPresentable(i)
  /\ NoPartialServed

\* Once a client was told its upload is complete, and until someone asks for its
\* removal, the disk holds the whole validated upload under a ready sidecar of
\* the same metadata: no crash, retry, refused create or late step undoes it.
AckedIsDurable ==
  \A i \in Id : promise[i] = "acked" =>
    /\ Vouched(i, sidecar[i]) /\ sidecar[i].state = "ready"

\* A ready sidecar beside a byte file vouches for that file: complete, and the very
\* bytes its checksum describes.  Files that a crash left of an earlier upload of the
\* artifactId are never taken for those of an upload that came with a checksum.
ReadyVouchesForBytes ==
  \A i \in Id : sidecar[i].state = "ready" /\ "bytes" \in stored[i]
    => Vouched(i, sidecar[i])

\* The inductive invariant behind AckedIsDurable and ReadyVouchesForBytes, where routing
\* is sticky and without races, beside ServingInv.  Which upload artifact i is of, as the
\* disk, a request that looked or a finished reservation has it, or the cache.
Told(i, m) ==
  \/ sidecar[i].meta = m
  \/ \E c \in Call : /\ On(c, i)
                      /\ \/ call[c].got.meta = m
                         \/ req[c].stage = "marking" /\ call[c].meta = m
                         \/ /\ req[c].op = "post" /\ req[c].stage # "reserving"
                            /\ req[c].meta = m
Claimed(i, m) == Told(i, m) \/ \E c \in Call : Cached(c, i).meta = m

\* All of them agree, but while a reservation has yet to reach the cache.
Committing(c, i) == On(c, i) /\ req[c].stage = "reserving" /\ call[c].pc = "commit"
OneUpload(i) ==
  \/ \E c \in Call : Committing(c, i)
  \/ \A m, n \in Meta : Claimed(i, m) /\ Claimed(i, n) => m = n
FreshIsUnheardOf(i) ==
  promise[i] = "fresh" /\ (\A c \in Call : On(c, i) => req[c].op # "post")
    => sidecar[i] = NoFile /\ \A m \in Meta : ~Claimed(i, m)

\* One request at a time writes an artifact's bytes or completes it; one that has no
\* byte to send is the only uploader.
Completing == {"finishing", "marking", "notifying"}
Uploading == {"creating", "registering", "writing"} \cup Completing
Uploads(c) ==
  /\ req[c].stage \in Uploading => req[c].op \in {"post", "patch"}
  /\ InFlight(c) => (req[c].op = "post" <=> req[c].meta \in Meta)
OneUploader(i) ==
  \A c, d \in Call :
    /\ On(c, i) /\ req[c].stage \in Uploading
    /\ On(d, i) /\ req[d].stage \in Uploading
    => c = d
AsksAgainAlone(c) ==
  InFlight(c) /\ req[c].op = "patch" /\ req[c].offset = Size =>
    /\ content[req[c].id].len = Size
    /\ \A d \in Call \ {c} : On(d, req[c].id) => req[d].op \notin {"post", "patch"}
CompletesWhole(c) ==
  req[c].stage \in Completing /\ "bytes" \in stored[req[c].id]
    => content[req[c].id].len = Size

\* While something is promised, nothing is removed and the bytes of an upload are there.
Live(i) == promise[i] \in {"open", "acked"}
RemovesWithdrawn(c) ==
  req[c].stage \in Removal => promise[req[c].id] = "withdrawn"
KeepsBytes(c) ==
  req[c].stage \in {"registering", "writing"} \cup Completing /\ Live(req[c].id)
    => "bytes" \in stored[req[c].id]

\* What a call writes is what its tmp file holds.
Drafts(r, draft) ==
  /\ r.pc = "tmpWrite" => r.fd = "tmp" /\ draft = Torn
  /\ r.pc = "rename" => draft = Content(r)

\* A reservation replaces nothing readable, and leaves one upload.
Reserves(c) ==
  LET r == call[c]
      i == req[c].id
      Only == \A m \in Meta : Claimed(i, m) => m = req[c].meta
  IN  req[c].stage = "reserving" =>
        /\ r.got = NoFile /\ (Running(c) => r.meta = req[c].meta)
        /\ r.pc \in {"write", "tmpOpen", "tmpWrite", "rename"} => sidecar[i].meta = Null
        /\ r.pc = "write" => r.fd = "gone" \/ (r.fd = "final" /\ sidecar[i] = Torn)
        /\ Drafts(r, tmp[i])
        /\ r.pc = "commit" => \A m \in Meta : Told(i, m) => m = req[c].meta
        /\ r.pc = "done" => Only
        /\ (\E d \in Call \ {c} : On(d, i)) => Only
        /\ promise[i] = "fresh" =>
             /\ Only /\ r.pc \in {"open", "write", "commit", "done", "failed"}
             /\ r.pc = "open" => sidecar[i] = NoFile

\* What markReady vouches for was validated, whichever read found it.
Checked(i, m) ==
  "bytes" \in stored[i] /\ "checksum" \in Wired /\ Checkable(ChecksumOf(m))
    => DigestIs(content[i], m)
FindsWhatThereIs(c) ==
  /\ req[c].stage = "finishing" /\ req[c].op = "patch"
  /\ call[c].pc \notin {"read", "failed"} /\ call[c].got = NoFile
  => sidecar[req[c].id].meta = Null
Marks(c) ==
  LET r == call[c]
      i == req[c].id
  IN  req[c].stage = "marking" =>
        /\ r.pc \notin {"open", "write"} /\ Drafts(r, tmp[i])
        /\ \A m \in {sidecar[i].meta, r.got.meta, r.meta} \ {Null} : Checked(i, m)
        /\ Live(i) /\ (r.pc \in {"commit", "done"} \/ r.got.state = "ready")
             => sidecar[i].state = "ready"
        /\ promise[i] = "acked" =>
             /\ r.pc \in {"read", "resume", "done", "failed"}
             /\ r.pc = "resume" => r.got.state = "ready"
Notifies(c) ==
  req[c].stage = "notifying" /\ Live(req[c].id) => sidecar[req[c].id].state = "ready"

ReadyIsChecked(i) == sidecar[i].state = "ready" => Checked(i, sidecar[i].meta)
AckedIsReady(i) ==
  promise[i] = "acked" => sidecar[i].state = "ready" /\ "bytes" \in stored[i]

\* One upload of an artifact is spoken of, one request at a time writes or completes it,
\* and what its clients were told stays true of the disk.
DurableInv ==
  /\ \A c \in Call : /\ Uploads(c) /\ AsksAgainAlone(c) /\ CompletesWhole(c)
                     /\ RemovesWithdrawn(c) /\ KeepsBytes(c) /\ Reserves(c)
                     /\ FindsWhatThereIs(c) /\ Marks(c) /\ Notifies(c)
  /\ \A i \in Id : /\ OneUpload(i) /\ FreshIsUnheardOf(i) /\ OneUploader(i)
                   /\ ReadyIsChecked(i) /\ AckedIsReady(i)

\* What the service promises its clients: what it holds of an artifact is a ready
\* sidecar with the byte file beside it.
NothingHeld == [upload |-> Null, bytes |-> NoBody]
WholeUpload ==
  {w \in [upload : Meta, bytes : [len : 0..Size, by : Meta \cup {Null}]] :
     GoodFor(w.bytes, w.upload)}
Held(i) ==
  IF sidecar[i].state = "ready" /\ "bytes" \in stored[i]
  THEN [upload |-> sidecar[i].meta, bytes |-> content[i]] ELSE NothingHeld

Contract == INSTANCE UploadContract
  WITH Whole <- WholeUpload, Nothing <- NothingHeld, held <- [i \in Id |-> Held(i)]

\* Every step of the requests, the pipeline, the adapter, the cache and the file store,
\* crashes included, keeps the contract: nothing is acknowledged that is not held whole,
\* and what was stays the same bytes of the same upload until a removal is asked for.
ImplementsContract == Contract!Spec

\* With no request on it in flight, no cache hides an artifact that was acknowledged.
\* The code does not keep this: a lookup under way during markReady fills the cache
\* late (README.md).
AckedIsServed ==
  \A i \in Id : promise[i] = "acked" /\ (\A c \in Call : ~On(c, i))
    => \A c \in Call : Cached(c, i).state # "uploading"

\* Every request is answered, while its process lives: no handler waits forever, for a
\* file-system operation, another request's lock or another request, and none is left
\* hanging by one that threw.
EveryRequestEnds == \A c \in Call : InFlight(c) ~> ~InFlight(c)
=============================================================================
