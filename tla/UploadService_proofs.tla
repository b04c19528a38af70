------------------------ MODULE UploadService_proofs ------------------------
(***************************************************************************)
(* For any number of artifacts, processes and requests in flight, any      *)
(* cache limit, any chain of validators, any file operations that fail and *)
(* any races of the clients: the types of the composed system, and that    *)
(* the handlers and the tus server around the adapter keep its invariant,  *)
(* hence ReadyIsMarked.                                                    *)
(*                                                                         *)
(* ServiceTypeOK is not inductive: that a handler starts an adapter method *)
(* on an artifactId needs that every request in flight is on one, and that *)
(* what a reservation answers is an outcome needs that only a POST         *)
(* reserves.  The adapter's part is StorageInv, by the lemmas about it.    *)
(*                                                                         *)
(* RoutedAlways says that, whatever the balancer does, a process serves    *)
(* requests only on the artifactIds it routes there; for sticky routing    *)
(* that leaves the requests on one artifact, and its adapter state, to one *)
(* process (OneHome).                                                      *)
(*                                                                         *)
(* Then, for sticky routing and clients that create no id anew under       *)
(* requests on it, that no GET serves a part of a file.  ServingInv says   *)
(* of whatever claims that an artifact is ready (its sidecar, the cache,   *)
(* what a call has read, a request about to mark or to send) that the      *)
(* bytes on disk are whole.  A step of the adapter is summed up by Works,  *)
(* a step of a request by Acts (what it leaves alone) and by Owes or Calm  *)
(* (what it has to show); StepServes and CalmServes give the invariant     *)
(* from those.                                                             *)
(*                                                                         *)
(* Then, for sticky routing and no races, that what was acknowledged stays *)
(* on disk and what is ready was checked.  DurableInv splits into clauses  *)
(* per artifact and request (Durable, Upholds).  Of a step, Elsewhere and  *)
(* Leaves say what it leaves alone, Carries and Settles what it shows for  *)
(* its own request and artifact; StepEndures gives the invariant.          *)
(*                                                                         *)
(* From the three invariants together, that the service implements the     *)
(* UploadContract: each step is a deal on one artifact (Deals), a crash,   *)
(* or invisible to clients.                                                *)
(***************************************************************************)
EXTENDS UploadService, LocalStorage_proofs

\* What is said of a request, and of the history.
ReqOK(r) ==
  /\ r \in ReqType
  /\ r.stage \notin {"idle", "answered"} => r.id \in Id
  /\ r.stage = "reserving" => r.op = "post"
ReqsOK(reqs) == reqs \in [Call -> ReqType] /\ \A c \in Call : ReqOK(reqs[c])
Body == [len : 0..Size, by : Meta \cup {Null}]
PromiseType == [Id -> {"fresh", "open", "acked", "withdrawn"}]

ServiceInv ==
  /\ StorageInv
  /\ ReqsOK(req)
  /\ content \in [Id -> Body]
  /\ promise \in PromiseType

-----------------------------------------------------------------------------
(* What the steps of a request are made of.                                *)

LEMMA NoReqFacts == NoBody \in Body /\ ReqOK(NoReq)
BY SizeAssumption DEF NoBody, NoReq, ReqType, ReqOK, Body

LEMMA GotoKeeps ==
  ASSUME ReqsOK(req), NEW c \in Call, InFlight(c), NEW stage, Goto(c, stage),
         stage \in {"locking", "creating", "registering", "writing", "unlinking",
                    "unregistering", "finishing", "rejecting", "marking",
                    "notifying", "removing", "resolving", "sending"}
  PROVE  ReqsOK(req')
BY DEF ReqsOK, ReqOK, ReqType, InFlight, Goto

LEMMA RespondKeeps ==
  ASSUME ReqsOK(req), NEW c \in Call, NEW body \in Body, NEW out, Respond(c, out, body)
  PROVE  ReqsOK(req')
<1> DEFINE served == [NoReq EXCEPT !.op = "get", !.id = req[c].id,
               !.stage = "answered", !.out = out, !.body = body]
<1>1. out = "served" => ReqOK(served)
  BY NoReqFacts DEF ReqsOK, ReqOK, ReqType, NoReq, Body
<1>2. \/ req' = [req EXCEPT ![c] = NoReq]
      \/ out = "served" /\ req' = [req EXCEPT ![c] = served]
  BY DEF Respond
<1> QED BY <1>1, <1>2, NoReqFacts DEF ReqsOK, ReqOK

\* The tus server touches the byte and info files and lets go of the call.
LEMMA StoreKeeps ==
  ASSUME StorageInv, NEW c \in Call, UNCHANGED <<sidecar, tmp, cache, marked>>,
         call' = call \/ call' = [call EXCEPT ![c] = Idle],
         stored' \in [Id -> SUBSET StoreFile]
  PROVE  StorageInv'
<1>1. call' \in [Call -> CallType] /\ \A d \in Call : Sound(call'[d], marked)
  <2>1. Sound(Idle, marked)
    BY IdleIsSound
  <2>2. CASE call' = [call EXCEPT ![c] = Idle]
    BY <2>1, <2>2, SetCallIsSound
  <2> QED BY <2>2 DEF StorageInv
<1> QED BY <1>1 DEF StorageInv

LEMMA AnswerKeeps ==
  ASSUME ServiceInv, NEW c \in Call, NEW out, Answer(c, out), promise' \in PromiseType
  PROVE  ServiceInv'
<1>1. StorageInv'
  BY StoreKeeps DEF ServiceInv, Answer, StorageInv
<1>2. ReqsOK(req')
  BY RespondKeeps, NoReqFacts DEF ServiceInv, Answer
<1> QED BY <1>1, <1>2 DEF ServiceInv, Answer

LEMMA AwaitKeeps ==
  ASSUME ServiceInv, NEW c \in Call, InFlight(c), NEW stage, NEW op,
         op \in {"load", "resolve", "remove", "markReady"}, Await(c, op, stage),
         stage \in {"rejecting", "marking", "removing", "resolving"},
         promise' \in PromiseType
  PROVE  ServiceInv'
<1>1. req[c].id \in Id
  BY DEF ServiceInv, ReqsOK, ReqOK, InFlight
<1>2. StorageInv'
  BY <1>1, BeginKeeps DEF ServiceInv, Await, Op, Mutator
<1>3. ReqsOK(req')
  BY GotoKeeps DEF ServiceInv, Await
<1> QED BY <1>2, <1>3 DEF ServiceInv, Await

\* The handler goes on without touching what the adapter keeps.
LEMMA GoOnKeeps ==
  ASSUME ServiceInv, NEW c \in Call, InFlight(c), NEW stage, Goto(c, stage),
         stage \in {"locking", "creating", "writing", "unlinking", "notifying",
                    "sending"},
         UNCHANGED <<storageVars, content>>, promise' \in PromiseType
  PROVE  ServiceInv'
<1>1. ReqsOK(req')
  BY GotoKeeps DEF ServiceInv
<1> QED BY <1>1 DEF ServiceInv, StorageInv, storageVars

LEMMA WithdrawKeeps ==
  ASSUME ServiceInv, NEW i, Withdraw(i)
  PROVE  promise' \in PromiseType
BY DEF ServiceInv, PromiseType, Withdraw

-----------------------------------------------------------------------------
(* Requests arrive, are authorized, and reach the tus server.              *)

LEMMA ArriveKeeps ==
  ASSUME ServiceInv, NEW c \in Call, NEW i \in Id, NEW m \in Meta \cup {Null},
         NEW op \in {"post", "patch", "get", "delete", "cancel"},
         op = "post" => m \in Meta, NEW offset \in 0..Size,
         Arrive(c, op, i, m, offset)
  PROVE  ServiceInv'
<1> DEFINE stage == IF op = "post" THEN "reserving" ELSE "authorizing"
           r == [NoReq EXCEPT !.op = op, !.id = i, !.meta = m, !.offset = offset,
               !.stage = stage]
<1>1. ReqOK(r)
  <2>1. /\ stage \in {"reserving", "authorizing"}
        /\ stage = "reserving" => op = "post"
    OBVIOUS
  <2> HIDE DEF stage
  <2>2. r.id = i /\ r.stage = stage /\ r.op = op
    BY DEF NoReq
  <2>3. r \in ReqType
    BY <2>1, NoReqFacts DEF ReqType, ReqOK
  <2> QED BY <2>1, <2>2, <2>3 DEF ReqOK
<1>2. ReqsOK(req')
  BY <1>1 DEF ServiceInv, ReqsOK, ReqOK, Arrive
<1>3. StorageInv'
  BY BeginKeeps DEF ServiceInv, Arrive, Op, Mutator
<1> QED BY <1>2, <1>3 DEF ServiceInv, Arrive

LEMMA ClientKeeps ==
  ASSUME ServiceInv, NEW c \in Call, Client(c)
  PROVE  ServiceInv'
<1>1. PICK i \in Id : \/ \E m \in Meta : Post(c, i, m)
                      \/ Patch(c, i) \/ Get(c, i) \/ Delete(c, i) \/ Cancel(c, i)
  BY DEF Client
<1>2. 0 \in 0..Size /\ content[i].len \in 0..Size
  BY SizeAssumption DEF ServiceInv, Body
<1>3. CASE \E m \in Meta : Post(c, i, m)
  BY <1>2, <1>3, ArriveKeeps DEF Post
<1>4. CASE Patch(c, i)
  BY <1>2, <1>4, ArriveKeeps DEF Patch
<1>5. CASE Get(c, i)
  BY <1>2, <1>5, ArriveKeeps DEF Get
<1>6. CASE Delete(c, i)
  BY <1>2, <1>6, ArriveKeeps DEF Delete
<1>7. CASE Cancel(c, i)
  BY <1>2, <1>7, ArriveKeeps DEF Cancel
<1> QED BY <1>1, <1>3, <1>4, <1>5, <1>6, <1>7

LEMMA AuthorizedKeeps ==
  ASSUME ServiceInv, NEW c \in Call, Authorized(c)
  PROVE  ServiceInv'
<1>1. InFlight(c) /\ promise' \in PromiseType
  BY WithdrawKeeps DEF ServiceInv, Authorized, Returned, Succeeded, InFlight
<1>2. CASE Await(c, "resolve", "resolving")
  BY <1>1, <1>2, AwaitKeeps
<1>3. CASE Await(c, "remove", "removing")
  BY <1>1, <1>3, AwaitKeeps
<1>4. CASE Goto(c, "locking") /\ UNCHANGED <<storageVars, content>>
  BY <1>1, <1>4, GoOnKeeps
<1> QED BY <1>2, <1>3, <1>4 DEF Authorized

\* A reservation ends well, in a conflict, or fails.
LEMMA ReservedKeeps ==
  ASSUME ServiceInv, NEW c \in Call, Reserved(c)
  PROVE  ServiceInv'
<1>1. InFlight(c) /\ req[c].op = "post"
  BY DEF ServiceInv, ReqsOK, ReqOK, Reserved, Returned, InFlight
<1>2. promise' \in PromiseType
  BY DEF ServiceInv, Reserved, PromiseType
<1>3. CASE Goto(c, "locking") /\ UNCHANGED <<storageVars, content>>
  BY <1>1, <1>2, <1>3, GoOnKeeps
<1>4. CASE Answer(c, call[c].pc)
  BY <1>2, <1>4, AnswerKeeps
<1> QED BY <1>3, <1>4 DEF Reserved

LEMMA AcquireLockKeeps ==
  ASSUME ServiceInv, NEW c \in Call, AcquireLock(c)
  PROVE  ServiceInv'
<1>1. InFlight(c) /\ promise' \in PromiseType
  BY WithdrawKeeps DEF ServiceInv, AcquireLock, InFlight
<1>2. CASE Answer(c, "absent")
  BY <1>1, <1>2, AnswerKeeps
<1>3. CASE /\ Goto(c, "creating") \/ Goto(c, "writing") \/ Goto(c, "unlinking")
           /\ UNCHANGED <<storageVars, content>>
  BY <1>1, <1>3, GoOnKeeps
<1> QED BY <1>2, <1>3 DEF AcquireLock

LEMMA CreateFileKeeps ==
  ASSUME ServiceInv, NEW c \in Call, CreateFile(c)
  PROVE  ServiceInv'
<1>1. InFlight(c) /\ req[c].id \in Id /\ req[c].meta \in Meta \cup {Null}
  BY DEF ServiceInv, ReqsOK, ReqOK, ReqType, InFlight, CreateFile
<1>2. StorageInv'
  BY <1>1, StoreKeeps DEF ServiceInv, StorageInv, CreateFile, StoreFile
<1>3. ReqsOK(req')
  BY <1>1, GotoKeeps DEF ServiceInv, CreateFile
<1>4. content' \in [Id -> Body]
  BY <1>1, SizeAssumption DEF ServiceInv, CreateFile, Body
<1> QED BY <1>2, <1>3, <1>4 DEF ServiceInv, CreateFile

LEMMA CreateInfoKeeps ==
  ASSUME ServiceInv, NEW c \in Call, CreateInfo(c)
  PROVE  ServiceInv'
<1>1. InFlight(c) /\ req[c].id \in Id
  BY DEF ServiceInv, ReqsOK, ReqOK, InFlight, CreateInfo
<1>2. StorageInv'
  BY <1>1, StoreKeeps DEF ServiceInv, StorageInv, CreateInfo, StoreFile
<1>3. ReqsOK(req')
  BY <1>1, GotoKeeps, RespondKeeps, NoReqFacts DEF ServiceInv, CreateInfo
<1> QED BY <1>2, <1>3 DEF ServiceInv, CreateInfo

LEMMA ReceiveKeeps ==
  ASSUME ServiceInv, NEW c \in Call, Receive(c)
  PROVE  ServiceInv'
<1>1. InFlight(c) /\ req[c].id \in Id
  BY DEF ServiceInv, ReqsOK, ReqOK, InFlight, Receive
<1>2. content' \in [Id -> Body]
  BY <1>1 DEF ServiceInv, Receive, Body
<1>3. CASE Begin(c, "load", req[c].id, Null) /\ Goto(c, "finishing")
  <2>1. StorageInv'
    BY <1>1, <1>3, BeginKeeps DEF ServiceInv, Op, Mutator
  <2>2. ReqsOK(req')
    BY <1>1, <1>3, GotoKeeps DEF ServiceInv
  <2> QED BY <1>2, <2>1, <2>2 DEF ServiceInv, Receive
<1>4. CASE /\ Respond(c, "partial", NoBody)
           /\ call' = [call EXCEPT ![c] = Idle]
           /\ UNCHANGED <<sidecar, tmp, stored, cache, marked>>
  <2>1. StorageInv'
    BY <1>4, StoreKeeps DEF ServiceInv, StorageInv
  <2>2. ReqsOK(req')
    BY <1>4, RespondKeeps, NoReqFacts DEF ServiceInv
  <2> QED BY <1>2, <2>1, <2>2 DEF ServiceInv, Receive
<1> QED BY <1>3, <1>4 DEF Receive

LEMMA UnlinkKeeps ==
  ASSUME ServiceInv, NEW c \in Call, Unlink(c) \/ Unregister(c)
  PROVE  ServiceInv'
<1>1. InFlight(c) /\ req[c].id \in Id
  BY DEF ServiceInv, ReqsOK, ReqOK, InFlight, Unlink, Unregister
<1>2. StorageInv'
  BY <1>1, StoreKeeps DEF ServiceInv, StorageInv, Unlink, Unregister, StoreFile
<1>3. ReqsOK(req')
  BY <1>1, GotoKeeps, RespondKeeps, NoReqFacts DEF ServiceInv, Unlink, Unregister
<1> QED BY <1>2, <1>3 DEF ServiceInv, Unlink, Unregister

-----------------------------------------------------------------------------
(* The pipeline and the artifact routes; every step.                       *)

LEMMA PipelineKeeps ==
  ASSUME ServiceInv, NEW c \in Call,
         Accept(c) \/ Reject(c) \/ Rejected(c) \/ MarkedReady(c)
  PROVE  ServiceInv'
<1>1. InFlight(c) /\ promise' \in PromiseType
  BY WithdrawKeeps DEF ServiceInv, Accept, Reject, Rejected, MarkedReady, Returned, Succeeded,
       InFlight
<1>2. CASE Accept(c)
  BY <1>1, <1>2, AwaitKeeps DEF Accept
<1>3. CASE Reject(c)
  BY <1>1, <1>3, AwaitKeeps DEF Reject
<1>4. CASE Rejected(c)
  BY <1>1, <1>4, AnswerKeeps DEF Rejected
<1>5. CASE MarkedReady(c)
  BY <1>1, <1>5, AnswerKeeps, GoOnKeeps DEF MarkedReady
<1> QED BY <1>2, <1>3, <1>4, <1>5

LEMMA HookKeeps ==
  ASSUME ServiceInv, NEW c \in Call, HookDone(c) \/ HookFailed(c)
  PROVE  ServiceInv'
<1>1. promise' \in PromiseType
  BY DEF ServiceInv, HookDone, HookFailed, PromiseType
<1>2. Answer(c, "complete") \/ Answer(c, "failed")
  BY DEF HookDone, HookFailed
<1> QED BY <1>1, <1>2, AnswerKeeps

LEMMA SendKeeps ==
  ASSUME ServiceInv, NEW c \in Call, Send(c)
  PROVE  ServiceInv'
<1>1. content[req[c].id] \in Body
  BY DEF ServiceInv, ReqsOK, ReqOK, Send
<1>2. ReqsOK(req')
  BY <1>1, RespondKeeps, NoReqFacts DEF ServiceInv, Send
<1>3. StorageInv'
  BY StoreKeeps DEF ServiceInv, StorageInv, Send
<1> QED BY <1>2, <1>3 DEF ServiceInv, Send

LEMMA ArtifactRoutesKeep ==
  ASSUME ServiceInv, NEW c \in Call, Removed(c) \/ Resolved(c)
  PROVE  ServiceInv'
<1>1. InFlight(c) /\ promise' \in PromiseType
  BY DEF ServiceInv, Removed, Resolved, Returned, Succeeded, InFlight
<1>2. CASE Removed(c)
  BY <1>1, <1>2, AnswerKeeps DEF Removed
<1>3. CASE Resolved(c)
  BY <1>1, <1>3, AnswerKeeps, GoOnKeeps DEF Resolved
<1> QED BY <1>2, <1>3

LEMMA GivingUpKeeps ==
  ASSUME ServiceInv, NEW c \in Call,
         \/ Refused(c) \/ LockTimeout(c) \/ FileGone(c) \/ FailClosed(c) \/ StoreFails(c)
  PROVE  ServiceInv'
<1>1. promise' \in PromiseType
  BY DEF ServiceInv, Refused, LockTimeout, FileGone, FailClosed, StoreFails
<1>2. Answer(c, "refused") \/ Answer(c, "failed")
  BY DEF Refused, LockTimeout, FileGone, FailClosed, StoreFails
<1> QED BY <1>1, <1>2, AnswerKeeps

LEMMA HandlerKeeps ==
  ASSUME ServiceInv, NEW c \in Call, Handler(c)
  PROVE  ServiceInv'
BY GivingUpKeeps, AuthorizedKeeps, ReservedKeeps, AcquireLockKeeps, CreateFileKeeps,
   CreateInfoKeeps, ReceiveKeeps, UnlinkKeeps, PipelineKeeps, HookKeeps,
   ArtifactRoutesKeep, SendKeeps
   DEF Handler

LEMMA CrashKeeps ==
  ASSUME ServiceInv, NEW p \in Proc, Crash(p)
  PROVE  ServiceInv'
<1>1. StorageInv'
  BY CrashStorageKeeps DEF ServiceInv, Crash
<1>2. ReqsOK(req')
  BY NoReqFacts DEF ServiceInv, ReqsOK, ReqOK, Crash
<1>3. promise' \in PromiseType
  BY DEF ServiceInv, Crash, PromiseType
<1> QED BY <1>1, <1>2, <1>3 DEF ServiceInv, Crash

LEMMA InitServiceHolds == Init => ServiceInv
BY InitStorageHolds, NoReqFacts DEF Init, ServiceInv, ReqsOK, ReqOK, PromiseType

LEMMA NextKeeps == ServiceInv /\ [Next]_vars => ServiceInv'
<1> SUFFICES ASSUME ServiceInv, [Next]_vars PROVE ServiceInv'
  OBVIOUS
<1>1. CASE \E c \in Call : Client(c)
  BY <1>1, ClientKeeps
<1>2. CASE \E c \in Call : Adapter(c)
  BY <1>2, StorageStepKeeps DEF ServiceInv, Adapter
<1>3. CASE \E c \in Call : Handler(c)
  BY <1>3, HandlerKeeps
<1>4. CASE \E p \in Proc : Crash(p)
  BY <1>4, CrashKeeps
<1>5. CASE UNCHANGED vars
  BY <1>5 DEF ServiceInv, StorageInv, vars, storageVars
<1> QED BY <1>1, <1>2, <1>3, <1>4, <1>5 DEF Next, Work

-----------------------------------------------------------------------------
(* The theorems.                                                           *)

\* Whatever the handlers, the tus server and the clients do around the adapter, its
\* inductive invariant holds: they call its methods only as it expects.
THEOREM ServiceKeepsStorage == Spec => []StorageInv
<1>1. ServiceInv => StorageInv
  BY DEF ServiceInv
<1> QED BY <1>1, InitServiceHolds, NextKeeps, PTL DEF Spec

\* Every variable of the composed system always has its type.
THEOREM ServiceTypeCorrect == Spec => []ServiceTypeOK
<1>1. ServiceInv => ServiceTypeOK
  BY InvImplies DEF ServiceInv, ServiceTypeOK, ReqsOK, Body, PromiseType
<1> QED BY <1>1, InitServiceHolds, NextKeeps, PTL DEF Spec

\* In the composed system nothing is served, cached or on disk as ready that no
\* completion asked the adapter to mark.
THEOREM ServiceReadyIsMarked == Spec => []ReadyIsMarked
BY ServiceKeepsStorage, InvImplies, PTL

-----------------------------------------------------------------------------
(* Requests stay where they are routed to.                                 *)

\* A step of slot c: nothing of an artifact that is not routed to its process comes to be
\* known there, and nothing of any other process changes.
Confined(c) ==
  LET own == Routes[procOf[c]]
  IN  /\ \A d \in Call \ {c} : req'[d] = req[d] /\ call'[d].id = call[d].id
      /\ InFlight(c)' => req'[c].id \in own
      /\ call'[c].id \in own \cup {Null}
      /\ \A p \in Proc, j \in Id : \/ cache'[p].entry[j] \in {NoFile, cache[p].entry[j]}
                                   \/ p = procOf[c] /\ j \in own

\* Such a step leaves every process with what is routed to it.
LEMMA ConfinedRoutes ==
  ASSUME Routed, NEW c \in Call, Confined(c)
  PROVE  Routed'
<1>1. ASSUME NEW d \in Call
      PROVE  /\ InFlight(d)' => req'[d].id \in Routes[procOf[d]]
             /\ call'[d].id \in Routes[procOf[d]] \cup {Null}
  <2>1. CASE d = c
    BY <2>1 DEF Confined
  <2>2. CASE d # c
    BY <2>2 DEF Confined, Routed, InFlight
  <2> QED BY <2>1, <2>2
<1>2. ASSUME NEW p \in Proc, NEW j \in Id, cache'[p].entry[j] # NoFile
      PROVE  j \in Routes[p]
  BY <1>2 DEF Confined, Routed
<1> QED BY <1>1, <1>2 DEF Routed

\* What a process caches, it caches of the artifact its call is about.
LEMMA CachesOwn ==
  ASSUME StorageInv, NEW c \in Call, NEW i \in Id, NEW k,
         SetCache(c, k) \/ UNCHANGED cache,
         \A j \in Id \ {i} : k.entry[j] \in {NoFile, cache[procOf[c]].entry[j]}
  PROVE  \A p \in Proc, j \in Id : \/ cache'[p].entry[j] \in {NoFile, cache[p].entry[j]}
                                   \/ p = procOf[c] /\ j = i
BY ProcAssumption DEF StorageInv, SetCache

\* A call ends, or goes on, about the artifact it was begun on.
LEMMA SameArtifact ==
  ASSUME NEW r \in CallType
  PROVE  /\ Loaded(r).id = r.id
         /\ \A pc, got : Ended(r, pc, got).id = r.id
BY DEF Loaded, Ended, Idle, CallType

\* A load drops no more than the entry of its artifact.
LEMMA LoadCachesOwn ==
  ASSUME NEW r \in CallType, r.id \in Id, NEW k \in CacheType
  PROVE  \A j \in Id \ {r.id} : CacheAfterLoad(r, k).entry[j] \in {NoFile, k.entry[j]}
BY CacheDeleteFacts DEF CacheAfterLoad

\* A method begun on an artifact that is routed to the process.
LEMMA BeginIsConfined ==
  ASSUME StorageInv, NEW c \in Call, NEW i \in Id, NEW op, NEW m, Begin(c, op, i, m),
         op \in Op, m \in Meta \cup {Null}, i \in Routes[procOf[c]],
         \A d \in Call \ {c} : req'[d] = req[d], InFlight(c)' => req'[c].id = i
  PROVE  Confined(c)
<1> DEFINE r == [Idle EXCEPT !.op = op, !.id = i, !.meta = m, !.got = Cached(c, i)]
           k == cache[procOf[c]]
<1>1. k \in CacheType /\ Cached(c, i) \in Parsed
  BY ProcAssumption DEF StorageInv, Cached, CacheType
<1>2. r \in CallType /\ r.id = i /\ [r EXCEPT !.pc = "read"].id = i
  BY <1>1 DEF CallType, Idle
<1>3. Loaded(r).id = i
  BY <1>2, SameArtifact
<1>4. \A j \in Id \ {i} : CacheAfterLoad(r, k).entry[j] \in {NoFile, k.entry[j]}
  BY <1>1, <1>2, LoadCachesOwn
<1>5. call \in [Call -> CallType]
  BY DEF StorageInv
<1>6. SetCache(c, CacheAfterLoad(r, k)) \/ UNCHANGED cache
  BY DEF Begin
<1>7. \A p \in Proc, j \in Id : \/ cache'[p].entry[j] \in {NoFile, cache[p].entry[j]}
                                \/ p = procOf[c] /\ j = i
  BY <1>4, <1>6, CachesOwn
<1>8. \E new : new.id = i /\ call' = [call EXCEPT ![c] = new]
  <2>1. CASE op \in {"reserve", "markReady"}
    <3>1. [r EXCEPT !.got = NoFile, !.pc = IF op = "reserve" THEN "open" ELSE "read"].id = i
      BY <1>2 DEF CallType
    <3> QED BY <2>1, <3>1 DEF Begin
  <2>2. CASE op \notin {"reserve", "markReady"} /\ Cached(c, i) = NoFile
    BY <1>2, <2>2 DEF Begin
  <2>3. CASE op \notin {"reserve", "markReady"} /\ Cached(c, i) # NoFile
    BY <1>3, <2>3 DEF Begin
  <2> QED BY <2>1, <2>2, <2>3
<1>9. call'[c].id = i /\ \A d \in Call \ {c} : call'[d].id = call[d].id
  BY <1>5, <1>8
<1> QED BY <1>7, <1>9 DEF Confined

\* What an rm call that settles does to the artifact's files and calls: it may take the
\* sidecar, or one of the FileStore's two files, or nothing.
RmLeaves(c, s, f) ==
  LET i == call[c].id
      after == [call EXCEPT ![c] = s]
  IN  \/ /\ sidecar' = [sidecar EXCEPT ![i] = NoFile]
         /\ call' = Relink(after, i, [final |-> "gone"])
         /\ UNCHANGED stored
      \/ /\ stored' = [stored EXCEPT ![i] = @ \ {f}]
         /\ call' = after
         /\ UNCHANGED sidecar
      \/ call' = after /\ UNCHANGED <<sidecar, stored>>
LEMMA RmLeavesSo ==
  ASSUME NEW c \in Call, Rm(c) \/ RmFails(c)
  PROVE  \E f, pc : /\ pc \in Deleting /\ call[c].pc \in Deleting
                    /\ RmLeaves(c, Settled(call[c], f, pc), f)
<1>1. CASE Rm(c)
  <2>1. PICK f \in call[c].todo : RmLeaves(c, Settled(call[c], f, call[c].pc), f)
    BY <1>1 DEF Rm, RmLeaves
  <2> QED BY <1>1, <2>1 DEF Rm
<1>2. CASE RmFails(c)
  <2>1. PICK f \in call[c].todo : RmLeaves(c, Settled(call[c], f, "rmFailed"), f)
    BY <1>2 DEF RmFails, RmLeaves
  <2> QED BY <1>2, <2>1 DEF RmFails, Deleting
<1> QED BY <1>1, <1>2

\* Each step of a method, on the artifact of its call.
LEMMA StorageStepIsConfined ==
  ASSUME StorageInv, Routed, NEW c \in Call, StorageStep(c), UNCHANGED req
  PROVE  Confined(c)
<1> DEFINE r == call[c]
           k == cache[procOf[c]]
<1>1. /\ r \in CallType /\ r.id \in Id /\ k \in CacheType /\ call \in [Call -> CallType]
      /\ r.meta \in Meta \/ r.pc # "commit"
  BY ProcAssumption
     DEF StorageInv, Sound, StorageStep, ReadSidecar, FillCache, CheckStatus, OpenExclusive,
         OpenTmp, Write, Rename, CommitToCache, Stat, Rm, RmFails, IOError, Writing, Deleting,
         Awaitable
<1>2. \A d \in Call : call'[d].id = call[d].id
  <2>1. \A d \in Call : call[d] \in CallType
    BY <1>1
  <2>2. \A i, new : \A calls \in [Call -> CallType] : \A d \in Call :
          Relink(calls, i, new)[d].id = calls[d].id
    BY DEF Relink, CallType
  <2>3. CASE \/ ReadSidecar(c) \/ FillCache(c) \/ CheckStatus(c) \/ CommitToCache(c)
            \/ Stat(c) \/ IOError(c)
    <3>1. \E new : new.id = r.id /\ call' = [call EXCEPT ![c] = new]
      <4>1. /\ [r EXCEPT !.pc = "tmpOpen"].id = r.id
            /\ \A got : [r EXCEPT !.got = got, !.pc = "resume"].id = r.id
        BY <1>1 DEF CallType
      <4>2. \A pc, got : Ended(r, pc, got).id = r.id
        BY <1>1, SameArtifact
      <4>3. CASE ReadSidecar(c)
        BY <4>1, <4>2, <4>3 DEF ReadSidecar
      <4>4. CASE FillCache(c)
        BY <1>1, <4>4, SameArtifact DEF FillCache
      <4>5. CASE CheckStatus(c)
        <5> DEFINE found == [r EXCEPT !.pc = "tmpOpen", !.meta = r.got.meta, !.got = NoFile]
        <5>1. found.id = r.id
          BY <1>1 DEF CallType
        <5>2. \/ call' = [call EXCEPT ![c] = Ended(r, "failed", NoFile)]
              \/ call' = [call EXCEPT ![c] = Ended(r, "done", NoFile)]
              \/ call' = [call EXCEPT ![c] = found]
          BY <4>5 DEF CheckStatus
        <5> HIDE DEF found
        <5> QED BY <4>2, <5>1, <5>2
      <4>6. CASE CommitToCache(c) \/ Stat(c) \/ IOError(c)
        BY <4>2, <4>6 DEF CommitToCache, Stat, IOError
      <4> QED BY <2>3, <4>3, <4>4, <4>5, <4>6
    <3> QED BY <1>1, <3>1
  <2>4. CASE OpenExclusive(c) \/ OpenTmp(c) \/ Write(c)
    BY <1>1, <2>4 DEF OpenExclusive, OpenTmp, Write, CallType
  <2>5. CASE Rename(c)
    <3> DEFINE on == [call EXCEPT ![c].pc = "commit"]
    <3>1. on \in [Call -> CallType] /\ \A d \in Call : on[d].id = call[d].id
      BY <1>1 DEF CallType
    <3>2. \/ call' = [call EXCEPT ![c] = Ended(call[c], "failed", NoFile)]
          \/ call' = Relink(on, r.id, [tmp |-> "final", final |-> "gone"])
      BY <2>5 DEF Rename
    <3> HIDE DEF on
    <3> QED BY <1>1, <2>2, <3>1, <3>2, SameArtifact
  <2>6. CASE Rm(c) \/ RmFails(c)
    <3>1. PICK f, pc :
            /\ r.pc \in Deleting /\ pc \in Deleting
            /\ LET after == [call EXCEPT ![c] = Settled(r, f, pc)]
               IN  call' = after \/ call' = Relink(after, r.id, [final |-> "gone"])
      BY <2>6, RmLeavesSo DEF RmLeaves
    <3> DEFINE settled == Settled(r, f, pc)
               after == [call EXCEPT ![c] = settled]
    <3>2. settled.id = r.id
      BY <1>1 DEF Settled, CallType
    <3>3. settled \in CallType
      BY <3>1, SettledIsSound DEF StorageInv, Sound
    <3> HIDE DEF settled
    <3>4. after \in [Call -> CallType] /\ \A d \in Call : after[d].id = call[d].id
      BY <1>1, <3>2, <3>3
    <3>5. call' = after \/ call' = Relink(after, r.id, [final |-> "gone"])
      BY <3>1 DEF settled
    <3> HIDE DEF after
    <3> QED BY <2>2, <3>4, <3>5
  <2> QED BY <2>3, <2>4, <2>5, <2>6 DEF StorageStep
<1>3. ASSUME NEW e \in Parsed
      PROVE  \A j \in Id \ {r.id} : CacheSet(k, r.id, e).entry[j] \in {NoFile, k.entry[j]}
  BY <1>1, CacheSetFacts
<1>4. \A p \in Proc, j \in Id : \/ cache'[p].entry[j] \in {NoFile, cache[p].entry[j]}
                                \/ p = procOf[c] /\ j = r.id
  <2>1. CASE UNCHANGED cache
    BY <2>1
  <2>2. CASE \E e \in Parsed : SetCache(c, CacheSet(k, r.id, e))
    BY <1>1, <1>3, <2>2, CachesOwn
  <2>3. CASE FillCache(c)
    <3> DEFINE filled == IF r.got = NoFile THEN k ELSE CacheSet(k, r.id, r.got)
    <3>1. filled \in CacheType /\ \A j \in Id \ {r.id} : filled.entry[j] \in {NoFile, k.entry[j]}
      BY <1>1, <1>3, CacheSetFacts DEF CallType
    <3>2. SetCache(c, CacheAfterLoad(r, filled))
      BY <2>3 DEF FillCache
    <3> HIDE DEF filled
    <3>3. \A j \in Id \ {r.id} : CacheAfterLoad(r, filled).entry[j] \in {NoFile, k.entry[j]}
      BY <1>1, <3>1, LoadCachesOwn
    <3> QED BY <1>1, <3>2, <3>3, CachesOwn
  <2>4. CASE CheckStatus(c) \/ CommitToCache(c)
    <3>1. r.got \in Parsed /\ (r.pc = "commit" => Content(r) \in Parsed)
      BY <1>1 DEF CallType, Content, Parsed, File
    <3> QED BY <2>1, <2>2, <2>4, <3>1 DEF CheckStatus, CommitToCache
  <2> QED BY <2>1, <2>3, <2>4
          DEF StorageStep, ReadSidecar, OpenExclusive, OpenTmp, Write, Rename, Stat, Rm,
              RmFails, IOError
<1> QED BY <1>1, <1>2, <1>4, NullAssumption DEF Confined, Routed, InFlight

LEMMA InitIsRouted == Init => Routed
BY ProcAssumption DEF Init, InitStorage, Routed, InFlight, NoReq, Idle, EmptyCache

\* A request goes on, is answered, or has its handler call another method: always about
\* its artifact.
LEMMA HandlerIsConfined ==
  ASSUME ServiceInv, Routed, NEW c \in Call, Handler(c), NEW i, i = req[c].id
  PROVE  Confined(c)
<1>1. InFlight(c) /\ i \in Id /\ ReqsOK(req)
  BY DEF Handler, Refused, Authorized, Reserved, AcquireLock, LockTimeout, CreateFile,
     CreateInfo, Receive, FileGone, Unlink, Unregister, Accept, Reject, Rejected, MarkedReady,
     HookDone, HookFailed, Removed, Resolved, Send, FailClosed, StoreFails, Returned,
     Succeeded, InFlight, ServiceInv, ReqsOK, ReqOK
<1>2. /\ req \in [Call -> ReqType] /\ call \in [Call -> CallType]
      /\ i \in Routes[procOf[c]] /\ call[c].id \in Routes[procOf[c]] \cup {Null}
  BY <1>1 DEF ReqsOK, ServiceInv, StorageInv, Routed
<1>3. ASSUME NEW stage, Goto(c, stage)
      PROVE  req'[c].id = i /\ \A d \in Call \ {c} : req'[d] = req[d]
  BY <1>2, <1>3 DEF Goto, ReqType
<1>4. ASSUME NEW out, NEW body, Respond(c, out, body)
      PROVE  ~InFlight(c)' /\ \A d \in Call \ {c} : req'[d] = req[d]
  BY <1>2, <1>4 DEF Respond, InFlight, NoReq
<1>5. ASSUME NEW out, NEW body, Respond(c, out, body), UNCHANGED cache,
             call' = [call EXCEPT ![c] = Idle]
      PROVE  Confined(c)
  BY <1>2, <1>4, <1>5 DEF Confined, Idle
<1>6. ASSUME NEW stage, Goto(c, stage), UNCHANGED <<cache, call>>
      PROVE  Confined(c)
  BY <1>2, <1>3, <1>6 DEF Confined
<1>7. ASSUME NEW op \in Op, NEW stage, Begin(c, op, i, Null), Goto(c, stage)
      PROVE  Confined(c)
  BY <1>1, <1>2, <1>3, <1>7, BeginIsConfined DEF ServiceInv
<1>8. {"load", "remove", "resolve", "markReady"} \subseteq Op
  BY DEF Op, Mutator
<1>9. CASE \/ Refused(c) \/ Reserved(c) \/ AcquireLock(c) \/ LockTimeout(c) \/ CreateFile(c)
           \/ CreateInfo(c) \/ FileGone(c) \/ Unlink(c) \/ Unregister(c) \/ Rejected(c)
           \/ MarkedReady(c) \/ HookDone(c) \/ HookFailed(c) \/ Removed(c) \/ Resolved(c)
           \/ Send(c) \/ FailClosed(c) \/ StoreFails(c)
  BY <1>5, <1>6, <1>9
     DEF Refused, Reserved, AcquireLock, LockTimeout, CreateFile, CreateInfo, FileGone,
         Unlink, Unregister, Rejected, MarkedReady, HookDone, HookFailed, Removed, Resolved,
         Send, FailClosed, StoreFails, Answer, storageVars
<1>10. CASE Authorized(c)
  BY <1>6, <1>7, <1>8, <1>10 DEF Authorized, Await, storageVars
<1>11. CASE Receive(c)
  BY <1>5, <1>7, <1>8, <1>11 DEF Receive
<1>12. CASE Accept(c) \/ Reject(c)
  BY <1>7, <1>8, <1>12 DEF Accept, Reject, Await
<1> QED BY <1>9, <1>10, <1>11, <1>12 DEF Handler

\* A request arrives where it is routed to.
LEMMA ArrivalIsConfined ==
  ASSUME ServiceInv, NEW c \in Call, Client(c)
  PROVE  Confined(c)
<1>1. PICK op, i, m, offset :
        /\ Arrive(c, op, i, m, offset)
        /\ op \in {"post", "patch", "get", "delete", "cancel"}
        /\ i \in Id /\ m \in Meta \cup {Null}
  BY DEF Client, Post, Patch, Get, Delete, Cancel
<1>2. /\ \A d \in Call \ {c} : req'[d] = req[d]
      /\ req'[c].id = i /\ i \in Routes[procOf[c]]
  BY <1>1 DEF Arrive, ServiceInv, ReqsOK, NoReq
<1>3. \E method \in Op : Begin(c, method, i, m)
  BY <1>1 DEF Arrive, Op, Mutator
<1> QED BY <1>1, <1>2, <1>3, BeginIsConfined DEF ServiceInv

\* A process that died knows of nothing.
LEMMA CrashRoutes ==
  ASSUME ServiceInv, Routed, NEW p \in Proc, Crash(p)
  PROVE  Routed'
<1>1. \A c \in Call : /\ req'[c] = IF procOf[c] = p THEN NoReq ELSE req[c]
                      /\ call'[c] = IF procOf[c] = p THEN Idle ELSE call[c]
  BY DEF Crash, CrashStorage
<1>2. \A q \in Proc, i \in Id : cache'[q].entry[i] \in {NoFile, cache[q].entry[i]}
  BY DEF Crash, CrashStorage, EmptyCache, ServiceInv, StorageInv
<1> QED BY <1>1, <1>2 DEF Routed, InFlight, NoReq, Idle

LEMMA NextRoutes == ServiceInv /\ Routed /\ [Next]_vars => Routed'
<1> SUFFICES ASSUME ServiceInv, Routed, [Next]_vars PROVE Routed'
  OBVIOUS
<1>1. CASE \E c \in Call : Client(c)
  BY <1>1, ArrivalIsConfined, ConfinedRoutes
<1>2. CASE \E c \in Call : Adapter(c)
  BY <1>2, StorageStepIsConfined, ConfinedRoutes DEF Adapter, ServiceInv
<1>3. CASE \E c \in Call : Handler(c)
  BY <1>3, HandlerIsConfined, ConfinedRoutes
<1>4. CASE \E p \in Proc : Crash(p)
  BY <1>4, CrashRoutes
<1>5. CASE UNCHANGED vars
  BY <1>5 DEF vars, storageVars, Routed, InFlight
<1> QED BY <1>1, <1>2, <1>3, <1>4, <1>5 DEF Next, Work

\* However requests are routed, a process never works on or caches an artifact that is
\* not routed to it, through every method, answer and crash.
THEOREM RoutedAlways == Spec => []Routed
BY InitIsRouted, NextRoutes, InitServiceHolds, NextKeeps, PTL DEF Spec

\* With sticky routing, whoever works on an artifact is in the one process that knows it.
LEMMA OneHome ==
  ASSUME Sticky, Routed, Routed', NEW c \in Call, NEW i \in Id, On(c, i)
  PROVE  \A d \in Call : \/ procOf[d] = procOf[c]
                         \/ Cached(d, i) = NoFile /\ Cached(d, i)' = NoFile /\ ~On(d, i)
BY ProcAssumption DEF Sticky, Routed, On, Cached

-----------------------------------------------------------------------------
(* No GET serves a part of a file: what a step of an adapter method does to *)
(* what says that an artifact is ready.                                     *)

\* To another call, a step of the adapter does no more than move its open file.
SameCall(r, s) ==
  /\ s.id = r.id /\ s.op = r.op /\ s.pc = r.pc /\ s.got = r.got
  /\ r = Idle => s = Idle

\* What became ready in a cache or on disk was ready in the hands of the call, or
\* the call is markReady.
Works(c) ==
  LET r == call[c]
      i == r.id
  IN  /\ i \in Id /\ marked' = marked /\ call'[c].id = i /\ call'[c].op = r.op
      /\ \A d \in Call \ {c} : SameCall(call[d], call'[d])
      /\ \A j \in Id \ {i} :
           sidecar'[j] = sidecar[j] /\ tmp'[j] = tmp[j] /\ stored'[j] = stored[j]
      /\ stored'[i] \subseteq stored[i]
      /\ \A d \in Call, j \in Id : cache'[procOf[d]].entry[j].state = "ready" =>
           \/ cache[procOf[d]].entry[j].state = "ready"
           \/ j = i /\ (r.got.state = "ready" \/ r.op = "markReady")
      /\ call'[c].got.state = "ready" => r.got.state = "ready" \/ sidecar[i].state = "ready"
      /\ sidecar'[i].state = "ready" =>
           \/ sidecar[i].state = "ready" \/ r.op = "markReady"
           \/ r.pc = "rename" /\ tmp[i].state = "ready"
      /\ Fits(call'[c])
      /\ r.op = "reserve" /\ Unready(r, sidecar[i], tmp[i])
           => Unready(call'[c], sidecar'[i], tmp'[i])
      /\ r.op = "reserve" /\ call'[c].pc = "done" =>
           /\ r.pc = "commit" /\ sidecar' = sidecar /\ call'[c].got = NoFile
           /\ cache'[procOf[c]].entry[i].state # "ready"

LEMMA LoadedFits ==
  ASSUME NEW r, r.op \notin {"reserve", "markReady"}, r.got \in Parsed
  PROVE  /\ Fits(Loaded(r)) /\ Loaded(r).id = r.id /\ Loaded(r).op = r.op
         /\ Loaded(r).got \in {NoFile, r.got}
BY ParsedFacts DEF Loaded, Fits, Deleting, Ended, Idle

\* Putting a call in its slot leaves the others as they are.
LEMMA SlotFacts ==
  ASSUME NEW c \in Call, call \in [Call -> CallType], NEW r,
         call' = [call EXCEPT ![c] = r]
  PROVE  call'[c] = r /\ \A d \in Call \ {c} : SameCall(call[d], call'[d])
BY DEF SameCall

\* So does moving the open files after that.
LEMMA RelinkFacts ==
  ASSUME NEW c \in Call, NEW calls \in [Call -> CallType], NEW i, NEW new,
         "none" \notin DOMAIN new, NEW r, NEW before,
         calls = [before EXCEPT ![c] = r], call' = Relink(calls, i, new),
         before \in [Call -> CallType]
  PROVE  /\ call'[c].id = r.id /\ call'[c].op = r.op /\ call'[c].pc = r.pc
         /\ call'[c].got = r.got
         /\ \A d \in Call \ {c} : SameCall(before[d], call'[d])
<1>1. ASSUME NEW d \in Call
      PROVE  call'[d].id = calls[d].id /\ call'[d].op = calls[d].op
             /\ call'[d].pc = calls[d].pc /\ call'[d].got = calls[d].got
             /\ (calls[d] = Idle => call'[d] = Idle)
  BY DEF Relink, CallType, Idle
<1>2. calls[c] = r /\ \A d \in Call \ {c} : calls[d] = before[d]
  OBVIOUS
<1> QED BY <1>1, <1>2 DEF SameCall

\* A cache that gets one new entry, or loses some.
Takes(k, c, i, new) ==
  \A j \in Id : \/ k.entry[j] \in {NoFile, cache[procOf[c]].entry[j]}
                \/ j = i /\ k.entry[j] \in {NoFile, new}

LEMMA CachedFacts ==
  ASSUME StorageInv, NEW c \in Call, NEW k \in CacheType, SetCache(c, k), NEW i \in Id,
         NEW new, Takes(k, c, i, new)
  PROVE  \A d \in Call, j \in Id : cache'[procOf[d]].entry[j].state = "ready" =>
           \/ cache[procOf[d]].entry[j].state = "ready"
           \/ j = i /\ new.state = "ready"
<1>1. cache'[procOf[c]] = k
  BY ProcAssumption DEF StorageInv, SetCache
<1>2. \A p \in Proc \ {procOf[c]} : cache'[p] = cache[p]
  BY DEF StorageInv, SetCache
<1>3. NoFile.state # "ready"
  BY ParsedFacts
<1> QED BY <1>1, <1>2, <1>3, ProcAssumption DEF Takes

LEMMA ReadSidecarWorks ==
  ASSUME StorageInv, NEW c \in Call, Fits(call[c]), ReadSidecar(c)
  PROVE  Works(c)
<1> DEFINE r == call[c]
           got == Parse(sidecar[r.id])
           s == IF r.op = "reserve"
                THEN IF got = NoFile THEN [r EXCEPT !.pc = "tmpOpen"]
                                     ELSE Ended(r, "conflict", NoFile)
                ELSE [r EXCEPT !.got = got, !.pc = "resume"]
<1>1. /\ r \in CallType /\ r.id \in Id /\ r.pc = "read" /\ sidecar[r.id] \in OnDisk
      /\ UNCHANGED <<sidecar, tmp, stored, cache, marked>>
  BY DEF StorageInv, Sound, ReadSidecar
<1>2. call'[c] = s /\ \A d \in Call \ {c} : SameCall(call[d], call'[d])
  BY SlotFacts DEF StorageInv, ReadSidecar
<1>3. /\ s.id = r.id /\ s.op = r.op /\ Fits(s)
      /\ s.got.state = "ready" => r.got.state = "ready" \/ sidecar[r.id].state = "ready"
  BY <1>1, ParsedFacts DEF CallType, Ended, Idle, Fits, Deleting
<1>4. r.op = "reserve" => s.pc # "done" /\ Unready(s, sidecar[r.id], tmp[r.id])
  BY <1>1, ParsedFacts DEF CallType, Ended, Idle, Unready, Parse
<1> HIDE DEF s
<1> QED BY <1>1, <1>2, <1>3, <1>4 DEF Works

LEMMA FillCacheWorks ==
  ASSUME StorageInv, NEW c \in Call, Fits(call[c]), FillCache(c)
  PROVE  Works(c)
<1> DEFINE r == call[c]
           k == cache[procOf[c]]
           filled == IF r.got = NoFile THEN k ELSE CacheSet(k, r.id, r.got)
           after == CacheAfterLoad(r, filled)
<1>1. /\ r \in CallType /\ r.id \in Id /\ r.pc = "resume" /\ r.got \in Parsed
      /\ r.op \notin {"reserve", "markReady"}
      /\ UNCHANGED <<sidecar, tmp, stored, marked>>
  BY DEF StorageInv, Sound, FillCache, CallType, Fits, Op, Mutator
<1>2. k \in CacheType
  BY CacheIsHonest
<1>3. /\ filled \in CacheType
      /\ \A j \in Id : \/ filled.entry[j] \in {NoFile, k.entry[j]}
                       \/ j = r.id /\ filled.entry[j] \in {NoFile, r.got}
  BY <1>1, <1>2, CacheSetFacts
<1>4. /\ after \in CacheType
      /\ \A j \in Id : after.entry[j] \in {NoFile, filled.entry[j]}
  BY <1>1, <1>3, CacheDeleteFacts DEF CacheAfterLoad
<1>5. SetCache(c, after)
  BY DEF FillCache
<1> HIDE DEF after
<1>6. \A d \in Call, j \in Id : cache'[procOf[d]].entry[j].state = "ready" =>
           \/ cache[procOf[d]].entry[j].state = "ready"
           \/ j = r.id /\ r.got.state = "ready"
  <2>1. Takes(after, c, r.id, r.got)
    <3> HIDE DEF filled
    <3> QED BY <1>3, <1>4 DEF Takes
  <2> QED BY <1>1, <1>4, <1>5, <2>1, CachedFacts
<1>7. call'[c] = Loaded(r) /\ \A d \in Call \ {c} : SameCall(call[d], call'[d])
  BY SlotFacts DEF StorageInv, FillCache
<1>8. /\ Fits(Loaded(r)) /\ Loaded(r).id = r.id /\ Loaded(r).op = r.op
      /\ Loaded(r).got.state = "ready" => r.got.state = "ready"
  BY <1>1, LoadedFits, ParsedFacts
<1> QED BY <1>1, <1>6, <1>7, <1>8 DEF Works

LEMMA CheckStatusWorks ==
  ASSUME StorageInv, NEW c \in Call, Fits(call[c]), CheckStatus(c)
  PROVE  Works(c)
<1> DEFINE r == call[c]
           k == CacheSet(cache[procOf[c]], r.id, r.got)
<1>1. /\ r \in CallType /\ r.id \in Id /\ r.pc = "resume" /\ r.got \in Parsed
      /\ r.op = "markReady"
      /\ UNCHANGED <<sidecar, tmp, stored, marked>>
  BY DEF StorageInv, Sound, CheckStatus, CallType
<1>2. k \in CacheType /\ Takes(k, c, r.id, r.got)
  BY <1>1, CacheIsHonest, CacheSetFacts DEF Takes
<1> HIDE DEF k
<1>3. \A d \in Call, j \in Id : cache'[procOf[d]].entry[j].state = "ready" =>
           \/ cache[procOf[d]].entry[j].state = "ready"
           \/ j = r.id /\ r.got.state = "ready"
  <2>1. CASE SetCache(c, k)
    BY <1>1, <1>2, <2>1, CachedFacts
  <2>2. CASE UNCHANGED cache
    BY <2>2
  <2> QED BY <2>1, <2>2 DEF CheckStatus, k
<1>4. PICK s : /\ call' = [call EXCEPT ![c] = s] /\ s.id = r.id /\ s.op = r.op
               /\ s.got = NoFile /\ Fits(s)
  <2>1. /\ Fits(Ended(r, "failed", NoFile)) /\ Fits(Ended(r, "done", NoFile))
        /\ Fits([r EXCEPT !.pc = "tmpOpen", !.meta = r.got.meta, !.got = NoFile])
    BY <1>1, ParsedFacts DEF CallType, Ended, Idle, Fits, Deleting
  <2> QED BY <1>1, <2>1 DEF CheckStatus, CallType, Ended, Idle
<1>5. call'[c] = s /\ \A d \in Call \ {c} : SameCall(call[d], call'[d])
  BY <1>4, SlotFacts DEF StorageInv
<1> QED BY <1>1, <1>3, <1>4, <1>5, ParsedFacts DEF Works

LEMMA OpenExclusiveWorks ==
  ASSUME StorageInv, NEW c \in Call, Fits(call[c]), OpenExclusive(c)
  PROVE  Works(c)
<1> DEFINE r == call[c]
<1>1. /\ r \in CallType /\ r.id \in Id /\ r.pc = "open"
      /\ sidecar \in [Id -> OnDisk] /\ UNCHANGED <<tmp, stored, cache, marked>>
      /\ \/ sidecar' = [sidecar EXCEPT ![r.id] = Torn]
         \/ UNCHANGED sidecar /\ call' = [call EXCEPT ![c].pc = "read"]
  BY DEF StorageInv, Sound, OpenExclusive
<1>2. PICK s : /\ call' = [call EXCEPT ![c] = s] /\ s.id = r.id /\ s.op = r.op
               /\ s.got = r.got /\ s.pc \in {"write", "read"} /\ Fits(s)
               /\ s.pc = "write" => sidecar' = [sidecar EXCEPT ![r.id] = Torn]
  <2> DEFINE opened == [r EXCEPT !.pc = "write", !.fd = "final"]
             refused == [r EXCEPT !.pc = "read"]
  <2>1. /\ Fits(opened) /\ opened.id = r.id /\ opened.op = r.op
        /\ opened.got = r.got /\ opened.pc = "write"
        /\ Fits(refused) /\ refused.id = r.id /\ refused.op = r.op
        /\ refused.got = r.got /\ refused.pc = "read"
    BY <1>1 DEF CallType, Fits, Deleting
  <2>2. \/ call' = [call EXCEPT ![c] = opened] /\ sidecar' = [sidecar EXCEPT ![r.id] = Torn]
        \/ call' = [call EXCEPT ![c] = refused]
    BY <1>1 DEF OpenExclusive, StorageInv
  <2> HIDE DEF opened, refused
  <2> QED BY <2>1, <2>2
<1>3. call'[c] = s /\ \A d \in Call \ {c} : SameCall(call[d], call'[d])
  BY <1>2, SlotFacts DEF StorageInv
<1>4. /\ \A j \in Id \ {r.id} : sidecar'[j] = sidecar[j]
      /\ sidecar'[r.id].state = "ready" => sidecar[r.id].state = "ready"
      /\ s.pc = "write" => sidecar'[r.id].state # "ready"
  BY <1>1, <1>2, ParsedFacts
<1> QED BY <1>1, <1>2, <1>3, <1>4 DEF Works, Unready

LEMMA OpenTmpWorks ==
  ASSUME StorageInv, NEW c \in Call, Fits(call[c]), OpenTmp(c)
  PROVE  Works(c)
<1> DEFINE r == call[c]
           s == [r EXCEPT !.pc = "tmpWrite", !.fd = "tmp"]
<1>1. /\ r \in CallType /\ r.id \in Id /\ r.pc = "tmpOpen" /\ tmp \in [Id -> OnDisk]
      /\ UNCHANGED <<sidecar, stored, cache, marked>>
  BY DEF StorageInv, Sound, OpenTmp, Writing
<1>2. call'[c] = s /\ \A d \in Call \ {c} : SameCall(call[d], call'[d])
  BY SlotFacts DEF StorageInv, OpenTmp
<1>3. s.id = r.id /\ s.op = r.op /\ s.got = r.got /\ s.pc = "tmpWrite" /\ Fits(s)
  BY <1>1 DEF CallType, Fits, Deleting
<1>4. tmp'[r.id].state # "ready" /\ \A j \in Id \ {r.id} : tmp'[j] = tmp[j]
  BY <1>1, ParsedFacts DEF OpenTmp
<1> HIDE DEF s
<1> QED BY <1>1, <1>2, <1>3, <1>4 DEF Works, Unready

LEMMA WriteWorks ==
  ASSUME StorageInv, NEW c \in Call, Fits(call[c]), Write(c)
  PROVE  Works(c)
<1> DEFINE r == call[c]
           s == [r EXCEPT !.fd = "none",
                          !.pc = IF r.pc = "write" THEN "commit" ELSE "rename"]
<1>1. /\ r \in CallType /\ r.id \in Id /\ r.pc \in {"write", "tmpWrite"}
      /\ r.op \in {"reserve", "markReady"}
      /\ sidecar \in [Id -> OnDisk] /\ tmp \in [Id -> OnDisk]
      /\ UNCHANGED <<stored, cache, marked>>
  BY DEF StorageInv, Sound, Write, Writing
<1>2. call'[c] = s /\ \A d \in Call \ {c} : SameCall(call[d], call'[d])
  BY SlotFacts DEF StorageInv, Write
<1>3. /\ s.id = r.id /\ s.op = r.op /\ s.got = r.got /\ Fits(s)
      /\ s.pc \in {"commit", "rename"} /\ (s.pc = "rename" <=> r.pc = "tmpWrite")
  BY <1>1 DEF CallType, Fits, Deleting
<1>4. ASSUME NEW old, NEW f \in Landed(old, Content(r))
      PROVE  f.state = "ready" => r.op = "markReady"
  BY <1>1, ParsedFacts DEF Landed, Content, File
<1>5. /\ \A j \in Id \ {r.id} : sidecar'[j] = sidecar[j] /\ tmp'[j] = tmp[j]
      /\ sidecar'[r.id].state = "ready" =>
           sidecar[r.id].state = "ready" \/ r.op = "markReady"
      /\ tmp'[r.id].state = "ready" => tmp[r.id].state = "ready" \/ r.op = "markReady"
  BY <1>1, <1>4 DEF Write
<1> HIDE DEF s
<1> QED BY <1>1, <1>2, <1>3, <1>5 DEF Works, Unready

LEMMA RenameWorks ==
  ASSUME StorageInv, NEW c \in Call, Fits(call[c]), Rename(c)
  PROVE  Works(c)
<1> DEFINE r == call[c]
           moved == [r EXCEPT !.pc = "commit"]
           new == [tmp |-> "final", final |-> "gone"]
<1>1. /\ r \in CallType /\ r.id \in Id /\ r.pc = "rename" /\ call \in [Call -> CallType]
      /\ r.op \in {"reserve", "markReady"}
      /\ sidecar \in [Id -> OnDisk] /\ tmp \in [Id -> OnDisk]
      /\ UNCHANGED <<stored, cache, marked>>
  BY DEF StorageInv, Sound, Rename, Writing
<1>2. /\ \A d \in Call \ {c} : SameCall(call[d], call'[d])
      /\ call'[c].id = r.id /\ call'[c].op = r.op
      /\ \/ call'[c].pc = "failed" /\ call'[c].got = NoFile /\ UNCHANGED <<sidecar, tmp>>
         \/ /\ call'[c].pc = "commit" /\ call'[c].got = r.got
            /\ sidecar' = [sidecar EXCEPT ![r.id] = tmp[r.id]]
            /\ tmp' = [tmp EXCEPT ![r.id] = NoFile]
  <2>1. CASE call' = [call EXCEPT ![c] = Ended(r, "failed", NoFile)]
             /\ UNCHANGED <<sidecar, tmp>>
    BY <1>1, <2>1, SlotFacts DEF Ended, Idle
  <2>2. CASE /\ call' = Relink([call EXCEPT ![c] = moved], r.id, new)
             /\ sidecar' = [sidecar EXCEPT ![r.id] = tmp[r.id]]
             /\ tmp' = [tmp EXCEPT ![r.id] = NoFile]
    <3>1. /\ moved \in CallType /\ moved.id = r.id /\ moved.op = r.op
          /\ moved.pc = "commit" /\ moved.got = r.got
      BY <1>1 DEF CallType
    <3>2. "none" \notin DOMAIN new
      OBVIOUS
    <3> HIDE DEF moved, new
    <3>3. [call EXCEPT ![c] = moved] \in [Call -> CallType]
      BY <1>1, <3>1
    <3>4. /\ call'[c].id = moved.id /\ call'[c].op = moved.op /\ call'[c].pc = moved.pc
          /\ call'[c].got = moved.got
          /\ \A d \in Call \ {c} : SameCall(call[d], call'[d])
      BY <1>1, <2>2, <3>2, <3>3, RelinkFacts
    <3> QED BY <2>2, <3>1, <3>4
  <2> QED BY <2>1, <2>2 DEF Rename
<1>3. Fits(call'[c])
  BY <1>1, <1>2 DEF Fits, Deleting
<1> QED BY <1>1, <1>2, <1>3, ParsedFacts DEF Works, Unready

LEMMA CommitToCacheWorks ==
  ASSUME StorageInv, NEW c \in Call, Fits(call[c]), CommitToCache(c)
  PROVE  Works(c)
<1> DEFINE r == call[c]
           k == CacheSet(cache[procOf[c]], r.id, Content(r))
           s == Ended(r, "done", NoFile)
<1>1. /\ r \in CallType /\ r.id \in Id /\ r.pc = "commit" /\ r.op \in {"reserve", "markReady"}
      /\ Content(r) \in Parsed /\ SetCache(c, k)
      /\ UNCHANGED <<sidecar, tmp, stored, marked>>
  BY ContentIsHonest DEF StorageInv, Sound, CommitToCache, Writing
<1>2. /\ k \in CacheType /\ Takes(k, c, r.id, Content(r))
      /\ k.entry[r.id] \in {NoFile, Content(r)}
  BY <1>1, CacheIsHonest, CacheSetFacts, CacheSetReplaces DEF Takes
<1>3. cache'[procOf[c]] = k
  BY <1>1, ProcAssumption DEF StorageInv, SetCache
<1> HIDE DEF k
<1>4. \A d \in Call, j \in Id : cache'[procOf[d]].entry[j].state = "ready" =>
           \/ cache[procOf[d]].entry[j].state = "ready"
           \/ j = r.id /\ Content(r).state = "ready"
  BY <1>1, <1>2, CachedFacts
<1>5. Content(r).state = "ready" <=> r.op = "markReady"
  BY <1>1 DEF Content, File
<1>6. call'[c] = s /\ \A d \in Call \ {c} : SameCall(call[d], call'[d])
  BY SlotFacts DEF StorageInv, CommitToCache
<1>7. s.id = r.id /\ s.op = r.op /\ s.got = NoFile /\ s.pc = "done" /\ Fits(s)
  BY <1>1, ParsedFacts DEF Ended, Idle, Fits, Deleting
<1> HIDE DEF s
<1>8. r.op = "reserve" => cache'[procOf[c]].entry[r.id].state # "ready"
  BY <1>2, <1>3, <1>5, ParsedFacts
<1> QED BY <1>1, <1>4, <1>5, <1>6, <1>7, <1>8, ParsedFacts DEF Works, Unready

LEMMA StatWorks ==
  ASSUME StorageInv, NEW c \in Call, Fits(call[c]), Stat(c)
  PROVE  Works(c)
<1> DEFINE r == call[c]
           s == Ended(r, "done", IF "bytes" \in stored[r.id] THEN r.got ELSE NoFile)
<1>1. /\ r \in CallType /\ r.id \in Id /\ r.pc = "stat" /\ r.op = "resolve"
      /\ UNCHANGED <<sidecar, tmp, stored, cache, marked>>
  BY DEF StorageInv, Sound, Stat, Fits
<1>2. call'[c] = s /\ \A d \in Call \ {c} : SameCall(call[d], call'[d])
  BY SlotFacts DEF StorageInv, Stat
<1>3. /\ s.id = r.id /\ s.op = r.op /\ Fits(s)
      /\ s.got.state = "ready" => r.got.state = "ready"
  BY <1>1, ParsedFacts DEF Ended, Idle, Fits, Deleting
<1> HIDE DEF s
<1> QED BY <1>1, <1>2, <1>3 DEF Works

LEMMA RmWorks ==
  ASSUME StorageInv, NEW c \in Call, Fits(call[c]), Rm(c) \/ RmFails(c)
  PROVE  Works(c)
<1> DEFINE r == call[c]
           new == [final |-> "gone"]
<1>1. /\ r \in CallType /\ Sound(r, marked) /\ r.id \in Id /\ r.pc \in Deleting
      /\ r.op = "remove"
      /\ sidecar \in [Id -> OnDisk] /\ stored \in [Id -> SUBSET StoreFile]
      /\ call \in [Call -> CallType] /\ UNCHANGED <<tmp, cache, marked>>
  BY DEF StorageInv, Sound, Rm, RmFails, Fits, Deleting
<1>2. PICK f, pc :
        /\ pc \in Deleting /\ r.pc \in Deleting
        /\ RmLeaves(c, Settled(r, f, pc), f)
  BY RmLeavesSo
<1> DEFINE s == Settled(r, f, pc)
           after == [call EXCEPT ![c] = s]
<1>3. /\ s \in CallType /\ s.id = r.id /\ s.op = r.op /\ s.got = r.got
      /\ s.pc \in {"done", "failed"} \cup Deleting
  <2>1. Sound(s, marked)
    BY <1>1, <1>2, SettledIsSound
  <2>2. s.got = r.got
    BY <1>1 DEF Settled, CallType
  <2> QED BY <1>1, <1>2, <2>1, <2>2, SettledFacts DEF Sound
<1>4. /\ \/ call' = after
         \/ call' = Relink(after, r.id, new)
      /\ \A j \in Id \ {r.id} : sidecar'[j] = sidecar[j] /\ stored'[j] = stored[j]
      /\ stored'[r.id] \subseteq stored[r.id]
      /\ sidecar'[r.id].state = "ready" => sidecar[r.id].state = "ready"
  BY <1>1, <1>2, ParsedFacts DEF RmLeaves
<1> HIDE DEF s
<1>5. /\ \A d \in Call \ {c} : SameCall(call[d], call'[d])
      /\ call'[c].id = r.id /\ call'[c].op = r.op /\ call'[c].got = r.got
      /\ call'[c].pc \in {"done", "failed"} \cup Deleting
  <2>1. CASE call' = after
    BY <1>1, <1>3, <2>1, SlotFacts
  <2>2. CASE call' = Relink(after, r.id, new)
    <3>1. after \in [Call -> CallType] /\ "none" \notin DOMAIN new
      BY <1>1, <1>3
    <3> HIDE DEF new
    <3>2. /\ call'[c].id = s.id /\ call'[c].op = s.op /\ call'[c].pc = s.pc
          /\ call'[c].got = s.got
          /\ \A d \in Call \ {c} : SameCall(call[d], call'[d])
      BY <1>1, <2>2, <3>1, RelinkFacts
    <3> QED BY <1>3, <3>2
  <2> QED BY <1>4, <2>1, <2>2
<1>6. Fits(call'[c])
  BY <1>1, <1>5 DEF Fits, Deleting
<1> QED BY <1>1, <1>4, <1>5, <1>6 DEF Works

LEMMA IOErrorWorks ==
  ASSUME StorageInv, NEW c \in Call, Fits(call[c]), IOError(c)
  PROVE  Works(c)
<1> DEFINE r == call[c]
           s == Ended(r, "failed", NoFile)
<1>1. /\ r \in CallType /\ r.id \in Id /\ r.pc \in Awaitable
      /\ sidecar \in [Id -> OnDisk] /\ tmp \in [Id -> OnDisk]
      /\ sidecar' \in Spoilt(sidecar, r, "final") /\ tmp' \in Spoilt(tmp, r, "tmp")
      /\ UNCHANGED <<stored, cache, marked>>
  BY DEF StorageInv, Sound, IOError, Awaitable
<1>2. call'[c] = s /\ \A d \in Call \ {c} : SameCall(call[d], call'[d])
  BY SlotFacts DEF StorageInv, IOError
<1>3. s.id = r.id /\ s.op = r.op /\ s.pc = "failed" /\ s.got = NoFile
  BY DEF Ended, Idle
<1>4. Fits(s)
  BY <1>3, ParsedFacts DEF Fits, Deleting
<1>5. /\ \A j \in Id \ {r.id} : sidecar'[j] = sidecar[j] /\ tmp'[j] = tmp[j]
      /\ sidecar'[r.id] \in {sidecar[r.id], Torn}
  BY <1>1 DEF Spoilt
<1> HIDE DEF s
<1> QED BY <1>1, <1>2, <1>3, <1>4, <1>5, ParsedFacts DEF Works, Unready

LEMMA StorageStepWorks ==
  ASSUME StorageInv, NEW c \in Call, Fits(call[c]), StorageStep(c)
  PROVE  Works(c) /\ Running(c)
<1>1. Running(c)
  BY DEF StorageStep, Running, ReadSidecar, FillCache, CheckStatus, OpenExclusive,
     OpenTmp, Write, Rename, CommitToCache, Stat, Rm, RmFails, IOError, Deleting, Awaitable
<1> QED
  BY <1>1, ReadSidecarWorks, FillCacheWorks, CheckStatusWorks, OpenExclusiveWorks,
     OpenTmpWorks, WriteWorks, RenameWorks, CommitToCacheWorks, StatWorks, RmWorks,
     IOErrorWorks DEF StorageStep

-----------------------------------------------------------------------------
(* What a step of one request does to the others.                          *)

LEMMA AwaitedFacts ==
  /\ DOMAIN Awaited = {"reserving", "authorizing", "finishing", "rejecting",
                       "removing", "marking", "resolving"}
  /\ Awaited["reserving"] = "reserve" /\ Awaited["authorizing"] = "load"
  /\ Awaited["finishing"] = "load" /\ Awaited["rejecting"] = "remove"
  /\ Awaited["removing"] = "remove" /\ Awaited["marking"] = "markReady"
  /\ Awaited["resolving"] = "resolve"
BY DEF Awaited

\* A create on an artifact of which nothing ever was finds nothing ready.
EarlyCreatesAreUnready ==
  \A c \in Call :
    /\ Pending(c) /\ req[c].id \in Id /\ Virgin(req[c].id)
    /\ \A d \in Call \ {c} : On(d, req[c].id) => Early(d)
    => ReservesUnready(c)

LEMMA VirginIsUnready == StorageInv => EarlyCreatesAreUnready
<1> SUFFICES ASSUME StorageInv, NEW c \in Call, Pending(c), req[c].id \in Id,
                    Virgin(req[c].id),
                    \A d \in Call \ {c} : On(d, req[c].id) => Early(d)
             PROVE  ReservesUnready(c)
  BY DEF EarlyCreatesAreUnready
<1> DEFINE i == req[c].id
<1>1. /\ sidecar[i].state # "ready" /\ tmp[i].state # "ready"
      /\ \A p \in Proc : cache[p].entry[i].state # "ready"
      /\ \A d \in Call : call[d].id = i => call[d].got.state # "ready"
  BY InvImplies DEF ReadyIsMarked, Virgin
<1>2. ASSUME NEW d \in Call PROVE ~SaysReady(d, i)
  BY <1>1 DEF SaysReady, Pending, Early, On, InFlight
<1>3. ~Ready(i)
  BY <1>1, <1>2, ProcAssumption DEF Ready
<1> QED BY <1>1, <1>3 DEF ReservesUnready, Unready

\* A step of request c on artifact i: the other requests stand where they stood, the
\* other artifacts have what they had.
Acts(c, i) ==
  /\ \A d \in Call \ {c} : req'[d] = req[d] /\ SameCall(call[d], call'[d])
  /\ \A j \in Id \ {i} :
       /\ sidecar'[j] = sidecar[j] /\ tmp'[j] = tmp[j] /\ stored'[j] = stored[j]
       /\ content'[j] = content[j] /\ promise'[j] = promise[j]
       /\ j \in marked' <=> j \in marked
       /\ \A d \in Call : cache'[procOf[d]].entry[j].state = "ready"
                            => cache[procOf[d]].entry[j].state = "ready"
  /\ InFlight(c) => req[c].id = i
  /\ InFlight(c)' => req'[c].id = i

\* What the step owes to its request, to its artifact and to the other requests on it.
Owes(c, i) ==
  /\ Linked(c)' /\ CreateInTime(c)' /\ ReservesUnready(c)'
  /\ \A d \in Call : On(d, i)' => FinishesWhole(d)'
  /\ FreshIsVirgin(i)' /\ ReadyIsPresentable(i)'
  /\ req'[c].out = "served" => Presentable(req'[c].body)
  /\ \A d \in Call \ {c} : Pending(d) /\ req[d].id = i
       => Virgin(i)' /\ (On(c, i)' => Early(c)')

LEMMA StepServes ==
  ASSUME ServiceInv, ServiceInv', ServingInv, NEW c \in Call, NEW i \in Id,
         Acts(c, i), Owes(c, i)
  PROVE  ServingInv'
<1>1. ASSUME NEW d \in Call PROVE Linked(d)'
  <2>1. CASE d = c
    BY <2>1 DEF Owes
  <2>2. CASE d # c
    <3>1. Linked(d) /\ req'[d] = req[d] /\ SameCall(call[d], call'[d])
      BY <2>2 DEF ServingInv, Acts
    <3> QED BY <3>1 DEF Linked, SameCall, Fits, InFlight, Running
  <2> QED BY <2>1, <2>2
<1>2. ASSUME NEW d \in Call PROVE CreateInTime(d)'
  <2>1. CASE d = c
    BY <2>1 DEF Owes
  <2>2. CASE d # c /\ req[d].id = i
    <3>1. CreateInTime(d) /\ req'[d] = req[d]
      BY <2>2 DEF ServingInv, Acts
    <3>2. SUFFICES ASSUME Pending(d) PROVE CreateInTime(d)'
      BY <3>1 DEF CreateInTime, Pending
    <3>3. Virgin(i)' /\ (On(c, i)' => Early(c)')
      BY <2>2, <3>2 DEF Owes
    <3>4. \A e \in Call \ {d} : On(e, i)' => Early(e)'
      BY <2>2, <3>1, <3>2, <3>3 DEF CreateInTime, Acts, On, InFlight, Early
    <3> QED BY <2>2, <3>1, <3>3, <3>4 DEF CreateInTime
  <2>3. CASE d # c /\ req[d].id # i
    <3>1. CreateInTime(d) /\ req'[d] = req[d]
      BY <2>3 DEF ServingInv, Acts
    <3>2. SUFFICES ASSUME Pending(d) PROVE CreateInTime(d)'
      BY <3>1 DEF CreateInTime, Pending
    <3>3. req[d].id \in Id \ {i}
      BY <2>3, <3>2 DEF ServiceInv, ReqsOK, ReqOK, Pending
    <3>4. Virgin(req[d].id)' <=> Virgin(req[d].id)
      BY <3>1, <3>3 DEF Acts, Virgin
    <3>5. \A e \in Call \ {d} : On(e, req[d].id)' => On(e, req[d].id) /\ e # c
      BY <3>1, <3>3 DEF Acts, On, InFlight
    <3>6. \A e \in Call \ {d} : On(e, req[d].id)' /\ Early(e) => Early(e)'
      BY <3>5 DEF Acts, Early
    <3> QED BY <3>1, <3>2, <3>4, <3>5, <3>6 DEF CreateInTime
  <2> QED BY <2>1, <2>2, <2>3
<1>3. ASSUME NEW j \in Id \ {i}, Ready(j)' PROVE Ready(j)
  <2>1. CASE sidecar'[j].state = "ready"
    BY <2>1 DEF Acts, Ready
  <2>2. CASE \E d \in Call : cache'[procOf[d]].entry[j].state = "ready"
    BY <2>2 DEF Acts, Ready
  <2>3. ASSUME NEW d \in Call, SaysReady(d, j)' PROVE Ready(j)
    <3>1. d # c
      <4>1. SUFFICES ASSUME d = c PROVE FALSE
        OBVIOUS
      <4>2. Linked(c)' /\ (InFlight(c)' => req'[c].id = i)
        BY DEF Owes, Acts
      <4> QED BY <2>3, <4>1, <4>2, ParsedFacts DEF Linked, SaysReady, InFlight, Idle
    <3>2. req'[d] = req[d] /\ SameCall(call[d], call'[d])
      BY <3>1 DEF Acts
    <3> QED BY <2>3, <3>2 DEF SaysReady, SameCall, Ready
  <2> QED BY <1>3, <2>1, <2>2, <2>3 DEF Ready
<1>4. ASSUME NEW d \in Call PROVE ReservesUnready(d)'
  <2>1. CASE d = c
    BY <2>1 DEF Owes
  <2>2. CASE d # c
    <3>1. ReservesUnready(d) /\ req'[d] = req[d] /\ SameCall(call[d], call'[d])
      BY <2>2 DEF ServingInv, Acts
    <3>2. SUFFICES ASSUME Pending(d) PROVE ReservesUnready(d)'
      BY <3>1 DEF ReservesUnready, Pending, ServiceInv, ReqsOK, ReqOK
    <3>3. req[d].id \in Id
      BY <3>2 DEF ServiceInv, ReqsOK, ReqOK, Pending
    <3>4. CASE req[d].id = i
      <4>1. EarlyCreatesAreUnready'
        BY VirginIsUnready, PTL DEF ServiceInv
      <4>2. Pending(d)' /\ Virgin(i)'
        BY <2>2, <3>1, <3>2, <3>4 DEF Owes, Pending
      <4>3. \A e \in Call \ {d} : On(e, i)' => Early(e)'
        BY <1>2, <3>1, <3>4, <4>2 DEF CreateInTime
      <4> QED BY <3>1, <3>3, <3>4, <4>1, <4>2, <4>3 DEF EarlyCreatesAreUnready
    <3>5. CASE req[d].id # i
      <4>1. /\ sidecar'[req[d].id] = sidecar[req[d].id] /\ tmp'[req[d].id] = tmp[req[d].id]
            /\ Ready(req[d].id)' => Ready(req[d].id)
        BY <1>3, <3>1, <3>3, <3>5 DEF Acts
      <4> QED BY <3>1, <4>1 DEF ReservesUnready, Unready, Pending, SameCall
    <3> QED BY <3>4, <3>5
  <2> QED BY <2>1, <2>2
<1>5. ASSUME NEW d \in Call PROVE FinishesWhole(d)'
  <2>1. CASE On(d, i)'
    BY <2>1 DEF Owes
  <2>2. CASE ~On(d, i)' /\ req'[d].stage = "finishing"
    <3>1. InFlight(d)' /\ d # c /\ req'[d] = req[d] /\ FinishesWhole(d)
      BY <2>2 DEF On, InFlight, Acts, ServingInv
    <3>2. req[d].id \in Id \ {i}
      BY <2>2, <3>1 DEF On, InFlight, ServiceInv, ReqsOK, ReqOK
    <3> QED BY <3>1, <3>2 DEF FinishesWhole, Acts
  <2> QED BY <2>1, <2>2 DEF FinishesWhole
<1>6. ASSUME NEW j \in Id PROVE FreshIsVirgin(j)' /\ ReadyIsPresentable(j)'
  <2>1. CASE j = i
    BY <2>1 DEF Owes
  <2>2. CASE j # i
    <3>1. FreshIsVirgin(j) /\ ReadyIsPresentable(j)
      BY DEF ServingInv
    <3>2. /\ promise'[j] = promise[j] /\ stored'[j] = stored[j] /\ content'[j] = content[j]
          /\ Virgin(j)' <=> Virgin(j)
      BY <2>2 DEF Acts, Virgin
    <3>3. \A d \in Call : On(d, j)' => On(d, j) /\ req'[d] = req[d]
      BY <2>2 DEF Acts, On, InFlight
    <3>4. FreshIsVirgin(j)'
      BY <3>1, <3>2, <3>3 DEF FreshIsVirgin, Early
    <3>5. ReadyIsPresentable(j)'
      BY <1>3, <2>2, <3>1, <3>2 DEF ReadyIsPresentable
    <3> QED BY <3>4, <3>5
  <2> QED BY <2>1, <2>2
<1>7. NoPartialServed'
  BY DEF ServingInv, NoPartialServed, Acts, Owes
<1> QED BY <1>1, <1>2, <1>4, <1>5, <1>6, <1>7 DEF ServingInv

\* A step of a request in flight that makes no byte file.
Tame(i) ==
  "bytes" \in stored'[i] =>
    "bytes" \in stored[i] /\ (content[i].len = Size => content'[i] = content[i])
Calm(c, i) ==
  /\ InFlight(c) /\ Tame(i)
  /\ Linked(c)' /\ ReservesUnready(c)' /\ ReadyIsPresentable(i)'
  /\ req[c].stage # "finishing" /\ req'[c].stage = "finishing" => FinishesWhole(c)'
  /\ req'[c].out = "served" => Presentable(req'[c].body)
  /\ Pending(c)' => Pending(c)
  /\ Early(c) \/ Pending(c) => stored'[i] \subseteq stored[i] /\ marked' = marked
  /\ Early(c) /\ Virgin(i) /\ InFlight(c)' => Early(c)'
  /\ promise'[i] = "fresh" =>
       /\ promise[i] = "fresh"
       /\ req[c].stage = "reserving" /\ InFlight(c)' => req'[c].stage = "reserving"

LEMMA CalmServes ==
  ASSUME ServiceInv, ServiceInv', ServingInv, NEW c \in Call, NEW i \in Id,
         Acts(c, i), Calm(c, i)
  PROVE  ServingInv'
<1>1. On(c, i) /\ req[c].id = i
  BY DEF Acts, Calm, On
<1>2. Virgin(i) /\ (Early(c) \/ Pending(c)) => Virgin(i)'
  BY DEF Calm, Virgin
<1>3. ASSUME NEW d \in Call \ {c}, Pending(d), req[d].id = i
      PROVE  Virgin(i) /\ Early(c)
  BY <1>1, <1>3 DEF ServingInv, CreateInTime
<1>4. CreateInTime(c)'
  <2>1. SUFFICES ASSUME Pending(c)' PROVE CreateInTime(c)'
    BY DEF CreateInTime
  <2>2. CreateInTime(c) /\ Pending(c) /\ req'[c].id = i
    BY <2>1 DEF Calm, ServingInv, Acts, Pending, InFlight
  <2>3. \A d \in Call \ {c} : req'[d] = req[d]
    BY DEF Acts
  <2> QED BY <1>1, <1>2, <2>2, <2>3 DEF CreateInTime, On, InFlight, Early
<1>5. ASSUME NEW d \in Call, On(d, i)' PROVE FinishesWhole(d)'
  <2>1. CASE req[d].stage = "finishing" /\ req'[d].stage = "finishing"
    <3>1. FinishesWhole(d) /\ req[d].id = i /\ req'[d].id = i
      BY <1>1, <1>5, <2>1 DEF ServingInv, On, Acts
    <3> QED BY <2>1, <3>1 DEF FinishesWhole, Calm, Tame
  <2>2. CASE req[d].stage # "finishing" /\ req'[d].stage = "finishing"
    BY <2>2 DEF Calm, Acts
  <2> QED BY <2>1, <2>2 DEF FinishesWhole
<1>6. FreshIsVirgin(i)'
  <2>1. SUFFICES ASSUME promise'[i] = "fresh" PROVE FreshIsVirgin(i)'
    BY DEF FreshIsVirgin
  <2>2. /\ Virgin(i)
        /\ \A d \in Call : On(d, i) => Early(d) \/ req[d].stage = "reserving"
    BY <2>1 DEF Calm, ServingInv, FreshIsVirgin
  <2>3. Virgin(i)'
    BY <1>1, <1>2, <2>2 DEF Pending, ServiceInv, ReqsOK, ReqOK
  <2>4. On(c, i)' => Early(c)' \/ req'[c].stage = "reserving"
    BY <1>1, <2>1, <2>2 DEF Calm, On
  <2>5. \A d \in Call \ {c} : On(d, i)' => Early(d)' \/ req'[d].stage = "reserving"
    BY <2>2 DEF Acts, On, InFlight, Early
  <2> QED BY <2>3, <2>4, <2>5 DEF FreshIsVirgin
<1>7. ASSUME NEW d \in Call \ {c}, Pending(d), req[d].id = i
      PROVE  Virgin(i)' /\ (On(c, i)' => Early(c)')
  BY <1>2, <1>3, <1>7 DEF Calm, On
<1>8. Owes(c, i)
  BY <1>4, <1>5, <1>6, <1>7 DEF Owes, Calm
<1> QED BY <1>8, StepServes

\* Nothing new is ready, and the bytes there are stay: they are presentable still.
LEMMA TameIsPresentable ==
  ASSUME ServingInv, NEW i \in Id, Tame(i), Ready(i)' => Ready(i)
  PROVE  ReadyIsPresentable(i)'
BY DEF ServingInv, ReadyIsPresentable, Tame, Presentable

-----------------------------------------------------------------------------
(* The adapter's steps.                                                    *)

LEMMA AdapterServes ==
  ASSUME Sticky, Routed, Routed', ServiceInv, ServiceInv', ServingInv, NEW c \in Call,
         NEW i, i = req[c].id, Adapter(c)
  PROVE  ServingInv'
<1> DEFINE r == call[c]
<1>1. UNCHANGED <<req, content, promise>> /\ StorageInv /\ StorageStep(c)
  BY DEF Adapter, ServiceInv
<1>2. Linked(c) /\ ReservesUnready(c) /\ Fits(r)
  BY DEF ServingInv, Linked
<1>3. Works(c) /\ Running(c)
  BY <1>1, <1>2, StorageStepWorks
<1>4. /\ InFlight(c) /\ r.id = i /\ i \in Id
      /\ req[c].stage \in DOMAIN Awaited /\ r.op = Awaited[req[c].stage]
  BY <1>2, <1>3 DEF Linked, Works, Running, Idle
<1>5. /\ r.op = "markReady" => req[c].stage = "marking"
      /\ r.op = "reserve" <=> req[c].stage = "reserving"
  BY <1>4, AwaitedFacts
<1>6. Acts(c, i)
  BY <1>1, <1>3, <1>4 DEF Acts, Works, InFlight
<1>7. Linked(c)'
  BY <1>1, <1>3, <1>4 DEF Linked, Works, InFlight, Awaited
<1>8. Ready(i)' => Ready(i)
  <2>1. r.op = "markReady" => Ready(i)
    BY <1>4, <1>5 DEF Ready, SaysReady
  <2>2. r.got.state = "ready" => Ready(i)
    BY <1>4 DEF Ready, SaysReady
  <2>3. sidecar'[i].state = "ready" => Ready(i)
    <3>1. SUFFICES ASSUME r.pc = "rename", tmp[i].state = "ready", r.op # "markReady"
                   PROVE  FALSE
      BY <1>3, <1>4, <2>1 DEF Works, Ready
    <3>2. r.op = "reserve"
      BY <1>1, <3>1 DEF StorageInv, Sound, Writing
    <3> QED BY <1>2, <1>5, <3>1, <3>2 DEF ReservesUnready, Unready
  <2>4. ASSUME NEW d \in Call, cache'[procOf[d]].entry[i].state = "ready" PROVE Ready(i)
    BY <1>3, <1>4, <2>1, <2>2, <2>4 DEF Works, Ready
  <2>5. ASSUME NEW d \in Call, SaysReady(d, i)' PROVE Ready(i)
    <3>1. CASE d = c
      BY <1>1, <1>3, <1>4, <2>2, <2>5, <3>1 DEF SaysReady, Works, Ready
    <3>2. CASE d # c
      BY <1>1, <1>3, <2>5, <3>2 DEF SaysReady, Works, SameCall, Ready
    <3> QED BY <3>1, <3>2
  <2> QED BY <1>1, <2>3, <2>4, <2>5 DEF Ready
<1>9. Tame(i)
  BY <1>1, <1>3, <1>4 DEF Tame, Works
<1>10. ReservesUnready(c)'
  <2>1. CASE req[c].stage = "reserving" /\ call'[c].pc = "done"
    <3>1. /\ r.op = "reserve" /\ r.pc = "commit" /\ sidecar' = sidecar
          /\ call'[c].got = NoFile /\ cache'[procOf[c]].entry[i].state # "ready"
          /\ Unready(call'[c], sidecar'[i], tmp'[i])
      BY <1>2, <1>3, <1>4, <1>5, <2>1 DEF Works, ReservesUnready
    <3>2. sidecar'[i].state # "ready"
      BY <1>2, <2>1, <3>1 DEF ReservesUnready, Unready
    <3>3. Pending(c) /\ CreateInTime(c)
      BY <1>1, <2>1 DEF Pending, ServiceInv, ReqsOK, ReqOK, ServingInv
    <3>4. ASSUME NEW d \in Call PROVE ~SaysReady(d, i)'
      <4>1. CASE d = c
        BY <1>1, <2>1, <3>1, <4>1, ParsedFacts DEF SaysReady
      <4>2. CASE d # c
        <5>1. /\ req'[d] = req[d] /\ call'[d].id = call[d].id
              /\ call'[d].got = call[d].got
          BY <1>1, <1>3, <4>2 DEF Works, SameCall
        <5>2. CASE On(d, i)
          <6>1. i \notin marked /\ Early(d)
            BY <3>3, <4>2, <5>2 DEF CreateInTime, Virgin
          <6>2. call[d].id = i => call[d].got.state # "ready"
            BY <1>1, <1>4, <6>1 DEF StorageInv, Sound
          <6> QED BY <5>1, <6>1, <6>2 DEF SaysReady, Early
        <5>3. CASE ~On(d, i)
          <6>1. Linked(d)
            BY DEF ServingInv
          <6>2. call[d].id = i => call[d].got.state # "ready"
            BY <5>3, <6>1, ParsedFacts DEF Linked, On, Idle
          <6> QED BY <5>1, <5>3, <6>2 DEF SaysReady, On, InFlight
        <5> QED BY <5>2, <5>3
      <4> QED BY <4>1, <4>2
    <3>5. \A d \in Call : cache'[procOf[d]].entry[i].state # "ready"
      BY <1>4, <3>1, OneHome, ParsedFacts DEF On, Cached
    <3>6. ~Ready(i)'
      BY <1>1, <3>2, <3>4, <3>5 DEF Ready
    <3> QED BY <1>1, <3>1, <3>6 DEF ReservesUnready
  <2>2. CASE req[c].stage = "reserving" /\ call'[c].pc # "done"
    <3>1. Unready(call'[c], sidecar'[i], tmp'[i])
      BY <1>2, <1>3, <1>4, <1>5, <2>2 DEF Works, ReservesUnready
    <3> QED BY <1>1, <2>2, <3>1 DEF ReservesUnready
  <2>3. CASE req[c].stage # "reserving"
    <3>1. ~Pending(c)
      BY <1>4, <2>3, AwaitedFacts DEF Pending
    <3> QED BY <1>1, <2>3, <3>1 DEF ReservesUnready, Pending
  <2> QED BY <2>1, <2>2, <2>3
<1>11. Calm(c, i)
  <2>1. stored'[i] \subseteq stored[i] /\ marked' = marked
    BY <1>3, <1>4 DEF Works
  <2>2. req'[c].out = "served" => Presentable(req'[c].body)
    BY <1>1 DEF ServingInv, NoPartialServed
  <2>3. ReadyIsPresentable(i)'
    BY <1>4, <1>8, <1>9, TameIsPresentable
  <2> QED
    BY <1>1, <1>4, <1>7, <1>9, <1>10, <2>1, <2>2, <2>3 DEF Calm, Pending, Early, InFlight
<1> QED BY <1>4, <1>6, <1>11, CalmServes

-----------------------------------------------------------------------------
(* The kinds of steps of the handlers.                                     *)

\* What such a step does to the store, to the bytes and to what was promised.
Around(i) ==
  /\ \A j \in Id \ {i} :
       stored'[j] = stored[j] /\ content'[j] = content[j] /\ promise'[j] = promise[j]
  /\ Tame(i)
  /\ promise'[i] = "fresh" => promise[i] = "fresh"

LEMMA UnchangedIsAround ==
  ASSUME NEW i, UNCHANGED <<stored, content>>,
         promise' = promise \/ promise' = [promise EXCEPT ![i] = "withdrawn"],
         promise \in PromiseType
  PROVE  Around(i)
BY DEF Around, Tame, PromiseType

\* The request is answered.
LEMMA EndServes ==
  ASSUME ServiceInv, ServiceInv', ServingInv, NEW c \in Call, InFlight(c),
         NEW i, i = req[c].id, NEW out, NEW body,
         Respond(c, out, body), out = "served" => Presentable(body),
         call' = [call EXCEPT ![c] = Idle], UNCHANGED <<sidecar, tmp, cache, marked>>,
         Around(i), Early(c) \/ Pending(c) => stored'[i] \subseteq stored[i]
  PROVE  ServingInv'
<1>1. i \in Id /\ call \in [Call -> CallType] /\ req \in [Call -> ReqType]
  BY DEF ServiceInv, ReqsOK, ReqOK, InFlight, StorageInv
<1>2. call'[c] = Idle /\ \A d \in Call \ {c} : SameCall(call[d], call'[d])
  BY <1>1, SlotFacts
<1>3. /\ req'[c].stage \in {"idle", "answered"} /\ req'[c].out \in {"none", out}
      /\ req'[c].out = "served" => out = "served" /\ req'[c].body = body
      /\ \A d \in Call \ {c} : req'[d] = req[d]
  BY <1>1 DEF Respond, NoReq
<1>4. ~InFlight(c)' /\ ~Pending(c)'
  BY <1>3 DEF InFlight, Pending
<1>5. Acts(c, i)
  BY <1>1, <1>2, <1>3, <1>4 DEF Acts, Around
<1>6. Linked(c)'
  BY <1>2, <1>3, <1>4, AwaitedFacts DEF Linked, Running, Fits, Deleting, Idle
<1>7. ReservesUnready(c)'
  BY <1>3, <1>4 DEF ReservesUnready
<1>8. Ready(i)' => Ready(i)
  <2>1. ~SaysReady(c, i)'
    BY <1>2, <1>3, ParsedFacts DEF SaysReady, Idle
  <2>2. \A d \in Call \ {c} : SaysReady(d, i)' => SaysReady(d, i)
    BY <1>2, <1>3 DEF SaysReady, SameCall
  <2> QED BY <2>1, <2>2 DEF Ready
<1>9. ReadyIsPresentable(i)'
  BY <1>1, <1>8, TameIsPresentable DEF Around
<1>10. Calm(c, i)
  BY <1>3, <1>4, <1>6, <1>7, <1>9 DEF Calm, Around
<1> QED BY <1>1, <1>5, <1>10, CalmServes

\* The handler goes on without the adapter.
LEMMA GotoServes ==
  ASSUME ServiceInv, ServiceInv', ServingInv, NEW c \in Call, InFlight(c),
         NEW i, i = req[c].id, NEW stage, Goto(c, stage),
         stage \in {"locking", "creating", "writing", "unlinking", "unregistering",
                    "notifying", "sending"},
         UNCHANGED <<sidecar, tmp, cache, call, marked>>, ~Running(c), Around(i),
         stage = "sending" => Ready(i), stage = "creating" => req[c].op = "post",
         req[c].op = "post" /\ stage \in {"locking", "creating"} =>
           Pending(c) /\ (req[c].stage = "reserving" => call[c].pc = "done"),
         Early(c) \/ Pending(c) => stored'[i] \subseteq stored[i],
         Early(c) /\ Virgin(i) => stage = "locking",
         req[c].stage = "reserving" => promise'[i] # "fresh"
  PROVE  ServingInv'
<1>1. i \in Id /\ req \in [Call -> ReqType]
  BY DEF ServiceInv, ReqsOK, ReqOK, InFlight
<1>2. /\ req'[c] = [req[c] EXCEPT !.stage = stage]
      /\ \A d \in Call \ {c} : req'[d] = req[d]
  BY <1>1 DEF Goto
<1>3. /\ req'[c].stage = stage /\ req'[c].id = i /\ req'[c].op = req[c].op
      /\ req'[c].out = req[c].out /\ req'[c].body = req[c].body
  BY <1>1, <1>2 DEF ReqType
<1>4. InFlight(c)'
  BY <1>3 DEF InFlight
<1>5. Acts(c, i)
  BY <1>2, <1>3 DEF Acts, Around, SameCall
<1>6. Linked(c)'
  <2>1. Linked(c)
    BY DEF ServingInv
  <2> QED BY <1>3, <1>4, <2>1, AwaitedFacts DEF Linked, Running
<1>7. Ready(i)' => Ready(i)
  <2>1. SaysReady(c, i)' => Ready(i)
    BY <1>3 DEF SaysReady, Ready
  <2>2. \A d \in Call \ {c} : SaysReady(d, i)' => SaysReady(d, i)
    BY <1>2 DEF SaysReady
  <2> QED BY <2>1, <2>2 DEF Ready
<1>8. Pending(c)' => Pending(c) /\ ~Ready(i)
  BY <1>3 DEF Pending, ServingInv, ReservesUnready
<1>9. ReservesUnready(c)'
  BY <1>3, <1>7, <1>8 DEF ReservesUnready
<1>10. ReadyIsPresentable(i)'
  BY <1>1, <1>7, TameIsPresentable DEF Around
<1>11. req'[c].out = "served" => Presentable(req'[c].body)
  BY <1>3 DEF ServingInv, NoPartialServed
<1>12. Calm(c, i)
  BY <1>3, <1>4, <1>6, <1>8, <1>9, <1>10, <1>11 DEF Calm, Around, Early
<1> QED BY <1>1, <1>5, <1>12, CalmServes

\* What a method's first turn does.
LEMMA BeginFacts ==
  ASSUME StorageInv, NEW c \in Call, NEW i \in Id, NEW m, NEW op \in Op,
         m \in Meta \cup {Null}, Begin(c, op, i, m)
  PROVE  /\ call'[c].id = i /\ call'[c].op = op /\ Fits(call'[c])
         /\ \A d \in Call \ {c} : SameCall(call[d], call'[d])
         /\ op = "reserve" => call'[c].pc = "open"
         /\ call'[c].got.state = "ready" => Cached(c, i).state = "ready"
         /\ \A d \in Call, j \in Id : cache'[procOf[d]].entry[j].state = "ready"
              => cache[procOf[d]].entry[j].state = "ready"
         /\ marked' = IF op = "markReady" THEN marked \cup {i} ELSE marked
         /\ UNCHANGED <<sidecar, tmp, stored>>
<1> DEFINE r == [Idle EXCEPT !.op = op, !.id = i, !.meta = m, !.got = Cached(c, i)]
           k == CacheAfterLoad(r, cache[procOf[c]])
           writes == [r EXCEPT !.got = NoFile,
                               !.pc = IF op = "reserve" THEN "open" ELSE "read"]
           reads == [r EXCEPT !.pc = "read"]
<1>1. /\ cache[procOf[c]] \in CacheType /\ Cached(c, i) \in Parsed
      /\ call \in [Call -> CallType]
  BY CacheIsHonest DEF StorageInv, Cached, CacheType
<1>2. r.id = i /\ r.op = op /\ r.got = Cached(c, i)
  BY DEF Idle
<1>3. /\ writes.id = i /\ writes.op = op /\ writes.got = NoFile
      /\ writes.pc \in {"open", "read"} /\ (op = "reserve" => writes.pc = "open")
      /\ reads.id = i /\ reads.op = op /\ reads.got = Cached(c, i) /\ reads.pc = "read"
  BY DEF Idle
<1>4. k \in CacheType /\ \A j \in Id : k.entry[j] \in {NoFile, cache[procOf[c]].entry[j]}
  BY <1>1, <1>2, CacheDeleteFacts DEF CacheAfterLoad
<1> HIDE DEF r, k, writes, reads
<1>5. \A d \in Call, j \in Id : cache'[procOf[d]].entry[j].state = "ready"
        => cache[procOf[d]].entry[j].state = "ready"
  <2>1. CASE UNCHANGED cache
    BY <2>1
  <2>2. CASE SetCache(c, k)
    <3>1. Takes(k, c, i, NoFile)
      BY <1>4 DEF Takes
    <3> QED BY <1>4, <2>2, <3>1, CachedFacts, ParsedFacts
  <2> QED BY <2>1, <2>2 DEF Begin, r, k
<1>6. \/ /\ op \in {"reserve", "markReady"} /\ call' = [call EXCEPT ![c] = writes]
      \/ /\ op \notin {"reserve", "markReady"} /\ Cached(c, i) = NoFile
         /\ call' = [call EXCEPT ![c] = reads]
      \/ /\ op \notin {"reserve", "markReady"} /\ call' = [call EXCEPT ![c] = Loaded(r)]
  BY DEF Begin, r, writes, reads
<1>7. CASE op \in {"reserve", "markReady"} /\ call' = [call EXCEPT ![c] = writes]
  <2>1. call'[c] = writes /\ \A d \in Call \ {c} : SameCall(call[d], call'[d])
    BY <1>1, <1>7, SlotFacts
  <2>2. Fits(writes)
    BY <1>3, <1>7 DEF Fits, Deleting
  <2> QED BY <1>3, <1>5, <2>1, <2>2, ParsedFacts DEF Begin
<1>8. CASE /\ op \notin {"reserve", "markReady"} /\ Cached(c, i) = NoFile
           /\ call' = [call EXCEPT ![c] = reads]
  <2>1. call'[c] = reads /\ \A d \in Call \ {c} : SameCall(call[d], call'[d])
    BY <1>1, <1>8, SlotFacts
  <2>2. Fits(reads)
    BY <1>3, <1>8, ParsedFacts DEF Fits, Deleting
  <2> QED BY <1>3, <1>5, <1>8, <2>1, <2>2 DEF Begin
<1>9. CASE op \notin {"reserve", "markReady"} /\ call' = [call EXCEPT ![c] = Loaded(r)]
  <2>1. call'[c] = Loaded(r) /\ \A d \in Call \ {c} : SameCall(call[d], call'[d])
    BY <1>1, <1>9, SlotFacts
  <2>2. /\ Fits(Loaded(r)) /\ Loaded(r).id = i /\ Loaded(r).op = op
        /\ Loaded(r).got \in {NoFile, Cached(c, i)}
    BY <1>1, <1>2, <1>9, LoadedFits
  <2> QED BY <1>5, <1>9, <2>1, <2>2, ParsedFacts DEF Begin
<1> QED BY <1>6, <1>7, <1>8, <1>9

\* The handler awaits the adapter's next method.
LEMMA AwaitServes ==
  ASSUME ServiceInv, ServiceInv', ServingInv, NEW c \in Call, InFlight(c),
         NEW i, i = req[c].id, NEW op, NEW stage, Begin(c, op, i, Null), Goto(c, stage),
         stage \in {"finishing", "rejecting", "removing", "marking", "resolving"},
         op = Awaited[stage], Around(i), ~Pending(c),
         op = "markReady" =>
           ~Early(c) /\ ("bytes" \in stored[i] => Presentable(content[i])),
         stage = "finishing" => ("bytes" \in stored[i] => content'[i].len = Size),
         Early(c) => stage \in {"resolving", "removing"}
  PROVE  ServingInv'
<1>1. i \in Id /\ req \in [Call -> ReqType] /\ StorageInv
  BY DEF ServiceInv, ReqsOK, ReqOK, InFlight
<1>2. /\ req'[c] = [req[c] EXCEPT !.stage = stage]
      /\ \A d \in Call \ {c} : req'[d] = req[d]
  BY <1>1 DEF Goto
<1>3. /\ req'[c].stage = stage /\ req'[c].id = i /\ req'[c].op = req[c].op
      /\ req'[c].out = req[c].out /\ req'[c].body = req[c].body
  BY <1>1, <1>2 DEF ReqType
<1>4. InFlight(c)' /\ ~Pending(c)'
  BY <1>3 DEF InFlight, Pending
<1>5. op \in {"load", "remove", "markReady", "resolve"} /\ op \in Op
      /\ (op = "markReady" <=> stage = "marking")
  BY AwaitedFacts DEF Op, Mutator
<1>6. /\ call'[c].id = i /\ call'[c].op = op /\ Fits(call'[c])
      /\ \A d \in Call \ {c} : SameCall(call[d], call'[d])
      /\ call'[c].got.state = "ready" => Cached(c, i).state = "ready"
      /\ \A d \in Call, j \in Id : cache'[procOf[d]].entry[j].state = "ready"
           => cache[procOf[d]].entry[j].state = "ready"
      /\ marked' = IF op = "markReady" THEN marked \cup {i} ELSE marked
      /\ UNCHANGED <<sidecar, tmp, stored>>
  BY <1>1, <1>5, BeginFacts
<1>7. Acts(c, i)
  BY <1>2, <1>3, <1>6 DEF Acts, Around
<1>8. Linked(c)'
  BY <1>3, <1>4, <1>6, AwaitedFacts DEF Linked
<1>9. ReservesUnready(c)'
  BY <1>3, <1>4 DEF ReservesUnready
<1>10. ReadyIsPresentable(i)'
  <2>1. CASE op = "markReady"
    BY <1>6, <2>1 DEF ReadyIsPresentable, Around, Tame, Presentable
  <2>2. CASE op # "markReady"
    <3>1. SaysReady(c, i)' => Ready(i)
      BY <1>3, <1>5, <1>6, <2>2 DEF SaysReady, Ready, Cached
    <3>2. \A d \in Call \ {c} : SaysReady(d, i)' => SaysReady(d, i)
      BY <1>2, <1>6 DEF SaysReady, SameCall
    <3>3. Ready(i)' => Ready(i)
      BY <1>1, <1>6, <3>1, <3>2 DEF Ready
    <3> QED BY <1>1, <3>3, TameIsPresentable DEF Around
  <2> QED BY <2>1, <2>2
<1>11. req'[c].out = "served" => Presentable(req'[c].body)
  BY <1>3 DEF ServingInv, NoPartialServed
<1>12. stage = "finishing" => FinishesWhole(c)'
  BY <1>3, <1>6 DEF FinishesWhole
<1>13. Early(c) => Early(c)' /\ marked' = marked
  BY <1>3, <1>6 DEF Early
<1>14. promise'[i] = "fresh" => req[c].stage # "reserving"
  BY DEF Pending, ServiceInv, ReqsOK, ReqOK
<1>15. Calm(c, i)
  BY <1>3, <1>4, <1>6, <1>8, <1>9, <1>10, <1>11, <1>12, <1>13, <1>14 DEF Calm, Around
<1> QED BY <1>1, <1>7, <1>15, CalmServes

-----------------------------------------------------------------------------
(* Every step of the service.                                              *)

\* An artifactId is created while nothing else is asked of it, but for the first time.
LEMMA ArriveServes ==
  ASSUME "create" \notin Races, ServiceInv, ServiceInv', ServingInv, NEW c \in Call,
         NEW i \in Id, NEW m \in Meta \cup {Null}, NEW offset,
         NEW op \in {"post", "patch", "get", "delete", "cancel"},
         Arrive(c, op, i, m, offset)
  PROVE  ServingInv'
<1> DEFINE stage == IF op = "post" THEN "reserving" ELSE "authorizing"
           method == IF op = "post" THEN "reserve" ELSE "load"
           r == [NoReq EXCEPT !.op = op, !.id = i, !.meta = m, !.offset = offset,
                              !.stage = stage]
<1>1. /\ StorageInv /\ ~InFlight(c) /\ CreatesAlone(op, i) /\ Begin(c, method, i, m)
      /\ UNCHANGED <<content, promise>> /\ req' = [req EXCEPT ![c] = r]
      /\ req \in [Call -> ReqType] /\ method \in Op
  BY DEF Arrive, ServiceInv, ReqsOK, Op, Mutator
<1>2. r.op = op /\ r.id = i /\ r.stage = stage /\ r.out = "none"
  BY DEF NoReq
<1> HIDE DEF r
<1>3. req'[c] = r /\ \A d \in Call \ {c} : req'[d] = req[d]
  BY <1>1
<1>4. /\ call'[c].id = i /\ call'[c].op = method /\ Fits(call'[c])
      /\ \A d \in Call \ {c} : SameCall(call[d], call'[d])
      /\ method = "reserve" => call'[c].pc = "open"
      /\ call'[c].got.state = "ready" => Cached(c, i).state = "ready"
      /\ \A d \in Call, j \in Id : cache'[procOf[d]].entry[j].state = "ready"
           => cache[procOf[d]].entry[j].state = "ready"
      /\ marked' = IF method = "markReady" THEN marked \cup {i} ELSE marked
      /\ UNCHANGED <<sidecar, tmp, stored>>
  <2> HIDE DEF method
  <2> QED BY <1>1, BeginFacts
<1>5. marked' = marked /\ InFlight(c)'
  BY <1>2, <1>3, <1>4 DEF InFlight
<1>6. Acts(c, i)
  BY <1>1, <1>2, <1>3, <1>4, <1>5 DEF Acts
<1>7. Linked(c)'
  BY <1>2, <1>3, <1>4, <1>5, AwaitedFacts DEF Linked
<1>8. op = "post" => \A d \in Call : ~On(d, i)
  BY <1>1 DEF CreatesAlone
<1>9. CreateInTime(c)'
  BY <1>2, <1>3, <1>8 DEF CreateInTime, Pending, On, InFlight
<1>10. ReservesUnready(c)'
  BY <1>2, <1>3, <1>4 DEF ReservesUnready, Pending, Unready
<1>11. ASSUME NEW d \in Call, On(d, i)' PROVE FinishesWhole(d)'
  <2>1. CASE d = c
    BY <1>2, <1>3, <2>1 DEF FinishesWhole
  <2>2. CASE d # c
    BY <1>1, <1>3, <1>4, <2>2 DEF FinishesWhole, ServingInv
  <2> QED BY <2>1, <2>2
<1>12. promise[i] = "fresh" => Virgin(i)' /\ FreshIsVirgin(i)'
  <2>1. SUFFICES ASSUME promise[i] = "fresh" PROVE Virgin(i)' /\ FreshIsVirgin(i)'
    OBVIOUS
  <2>2. FreshIsVirgin(i)
    BY DEF ServingInv
  <2>3. Virgin(i)'
    BY <1>4, <1>5, <2>1, <2>2 DEF FreshIsVirgin, Virgin
  <2>4. Early(c)' \/ req'[c].stage = "reserving"
    BY <1>2, <1>3 DEF Early
  <2>5. \A d \in Call \ {c} : On(d, i)' => Early(d)' \/ req'[d].stage = "reserving"
    BY <1>3, <2>1, <2>2 DEF FreshIsVirgin, On, InFlight, Early
  <2> QED BY <2>3, <2>4, <2>5 DEF FreshIsVirgin
<1>13. FreshIsVirgin(i)'
  BY <1>1, <1>12 DEF FreshIsVirgin
<1>14. Ready(i)' => Ready(i)
  <2>1. SaysReady(c, i)' => Ready(i)
    BY <1>2, <1>3, <1>4 DEF SaysReady, Ready, Cached
  <2>2. \A d \in Call \ {c} : SaysReady(d, i)' => SaysReady(d, i)
    BY <1>3, <1>4 DEF SaysReady, SameCall
  <2> QED BY <1>4, <2>1, <2>2 DEF Ready
<1>15. ReadyIsPresentable(i)'
  BY <1>1, <1>4, <1>14, TameIsPresentable DEF Tame
<1>16. ASSUME NEW d \in Call \ {c}, Pending(d), req[d].id = i
       PROVE  Virgin(i)' /\ (On(c, i)' => Early(c)')
  <2>1. On(d, i) /\ req[d].op = "post"
    BY <1>16 DEF Pending, On, InFlight
  <2>2. op # "post" /\ promise[i] = "fresh"
    BY <1>1, <1>8, <2>1 DEF CreatesAlone
  <2>3. Early(c)'
    BY <1>2, <1>3, <2>2 DEF Early
  <2> QED BY <1>12, <2>2, <2>3
<1>17. Owes(c, i)
  BY <1>2, <1>3, <1>7, <1>9, <1>10, <1>11, <1>13, <1>15, <1>16 DEF Owes
<1> QED BY <1>6, <1>17, StepServes

LEMMA ClientServes ==
  ASSUME "create" \notin Races, ServiceInv, ServiceInv', ServingInv, NEW c \in Call,
         Client(c)
  PROVE  ServingInv'
<1>1. PICK i \in Id : \/ \E m \in Meta : Post(c, i, m)
                      \/ Patch(c, i) \/ Get(c, i) \/ Delete(c, i) \/ Cancel(c, i)
  BY DEF Client
<1>2. PICK op \in {"post", "patch", "get", "delete", "cancel"}, m \in Meta \cup {Null} :
        \E offset : Arrive(c, op, i, m, offset)
  <2>1. CASE \E m \in Meta : Post(c, i, m)
    BY <2>1 DEF Post
  <2>2. CASE Patch(c, i)
    BY <2>2 DEF Patch
  <2>3. CASE Get(c, i)
    BY <2>3 DEF Get
  <2>4. CASE Delete(c, i)
    BY <2>4 DEF Delete
  <2>5. CASE Cancel(c, i)
    BY <2>5 DEF Cancel
  <2> QED BY <1>1, <2>1, <2>2, <2>3, <2>4, <2>5
<1> QED BY <1>2, ArriveServes

\* The byte file of a create replaces no file that anything calls ready.
LEMMA CreateFileServes ==
  ASSUME ServiceInv, ServiceInv', ServingInv, NEW c \in Call, NEW i, i = req[c].id,
         CreateFile(c)
  PROVE  ServingInv'
<1>1. /\ i \in Id /\ req \in [Call -> ReqType] /\ stored \in [Id -> SUBSET StoreFile]
      /\ content \in [Id -> Body] /\ req[c].stage = "creating" /\ On(c, i)
      /\ UNCHANGED <<sidecar, tmp, cache, call, marked, promise>>
  BY DEF ServiceInv, StorageInv, ReqsOK, ReqOK, InFlight, On, CreateFile
<1>2. /\ req'[c] = [req[c] EXCEPT !.stage = "registering"]
      /\ \A d \in Call \ {c} : req'[d] = req[d]
      /\ \A j \in Id \ {i} : stored'[j] = stored[j] /\ content'[j] = content[j]
  BY <1>1 DEF CreateFile, Goto
<1>3. /\ req'[c].stage = "registering" /\ req'[c].id = i
      /\ req'[c].out = req[c].out /\ req'[c].body = req[c].body
  BY <1>1, <1>2 DEF ReqType
<1>4. Acts(c, i)
  BY <1>1, <1>2, <1>3 DEF Acts, SameCall
<1>5. Linked(c)'
  BY <1>1, <1>3, AwaitedFacts DEF ServingInv, Linked, InFlight, Running
<1>6. /\ Pending(c) /\ CreateInTime(c) /\ ReservesUnready(c) /\ FreshIsVirgin(i)
      /\ ~Early(c) /\ ~Pending(c)'
  BY <1>1, <1>3 DEF Early, Pending, ServingInv, Linked
<1>7. ~Ready(i)'
  <2>1. ~Ready(i)
    BY <1>1, <1>6 DEF ReservesUnready
  <2>2. \A d \in Call : SaysReady(d, i)' => SaysReady(d, i)
    BY <1>1, <1>2, <1>3 DEF SaysReady
  <2> QED BY <1>1, <2>1, <2>2 DEF Ready
<1>8. \A d \in Call \ {c} : On(d, i) => Early(d)
  BY <1>1, <1>6 DEF CreateInTime
<1>9. ASSUME NEW d \in Call, On(d, i)' PROVE FinishesWhole(d)'
  <2>1. CASE d = c
    BY <1>3, <2>1 DEF FinishesWhole
  <2>2. CASE d # c
    BY <1>2, <1>8, <1>9, <2>2 DEF FinishesWhole, On, InFlight, Early
  <2> QED BY <2>1, <2>2
<1>10. FreshIsVirgin(i)'
  BY <1>1, <1>6 DEF FreshIsVirgin
<1>11. ASSUME NEW d \in Call \ {c}, Pending(d), req[d].id = i PROVE FALSE
  BY <1>1, <1>6, <1>8, <1>11 DEF Pending, Early, On, InFlight
<1>12. req'[c].out = "served" => Presentable(req'[c].body)
  BY <1>3 DEF ServingInv, NoPartialServed
<1>13. Owes(c, i)
  <2>1. CreateInTime(c)' /\ ReservesUnready(c)' /\ ReadyIsPresentable(i)'
    BY <1>3, <1>6, <1>7 DEF CreateInTime, ReservesUnready, ReadyIsPresentable
  <2> QED BY <1>5, <1>9, <1>10, <1>11, <1>12, <2>1 DEF Owes
<1> QED BY <1>1, <1>4, <1>13, StepServes

\* A request that awaits no method has none running.
LEMMA NotAwaiting ==
  ASSUME ServingInv, NEW c \in Call, req[c].stage \notin DOMAIN Awaited
  PROVE  ~Running(c)
BY DEF ServingInv, Linked

LEMMA AnswerServes ==
  ASSUME ServiceInv, ServiceInv', ServingInv, NEW c \in Call, InFlight(c),
         NEW i, i = req[c].id, NEW out, out # "served", Answer(c, out),
         \/ promise' = promise
         \/ promise' = [promise EXCEPT ![i] = IF @ = "open" THEN "acked" ELSE @]
         \/ promise' = [promise EXCEPT ![i] = IF @ = "fresh" THEN "withdrawn" ELSE @]
  PROVE  ServingInv'
<1>1. promise \in PromiseType
  BY DEF ServiceInv
<1>2. Around(i)
  BY <1>1 DEF Around, Tame, Answer, PromiseType
<1>3. Respond(c, out, NoBody) /\ call' = [call EXCEPT ![c] = Idle]
      /\ UNCHANGED <<sidecar, tmp, cache, marked>> /\ stored'[i] \subseteq stored[i]
  BY DEF Answer
<1> QED BY <1>2, <1>3, EndServes

\* The steps that do nothing but answer.
LEMMA RefusalsServe ==
  ASSUME ServiceInv, ServiceInv', ServingInv, NEW c \in Call,
         NEW i, i = req[c].id,
         \/ Refused(c) \/ LockTimeout(c) \/ FileGone(c) \/ Rejected(c)
         \/ HookDone(c) \/ HookFailed(c) \/ Removed(c) \/ FailClosed(c) \/ StoreFails(c)
  PROVE  ServingInv'
<1>1. InFlight(c)
  BY DEF Refused, LockTimeout, FileGone, Rejected, HookDone, HookFailed, Removed,
     FailClosed, StoreFails, Returned, Succeeded, InFlight
<1>2. PICK out : out # "served" /\ Answer(c, out)
  BY DEF Refused, LockTimeout, FileGone, Rejected, HookDone, HookFailed, Removed,
     FailClosed, StoreFails
<1>3. \/ promise' = promise
      \/ promise' = [promise EXCEPT ![i] = IF @ = "open" THEN "acked" ELSE @]
  BY DEF Refused, LockTimeout, FileGone, Rejected, HookDone, HookFailed, Removed,
     FailClosed, StoreFails
<1> QED BY <1>1, <1>2, <1>3, AnswerServes

LEMMA AuthorizedServes ==
  ASSUME ServiceInv, ServiceInv', ServingInv, NEW c \in Call, NEW i, i = req[c].id,
         Authorized(c)
  PROVE  ServingInv'
<1>1. /\ InFlight(c) /\ ~Running(c) /\ req[c].stage = "authorizing"
      /\ ~Pending(c) /\ promise \in PromiseType
  BY DEF Authorized, Returned, Succeeded, InFlight, Pending, ServiceInv
<1>2. CASE req[c].op = "get" /\ Await(c, "resolve", "resolving") /\ UNCHANGED promise
  <2>1. /\ Begin(c, "resolve", i, Null) /\ Goto(c, "resolving") /\ UNCHANGED content
        /\ UNCHANGED stored
    BY <1>2 DEF Await, Begin
  <2>2. Around(i)
    BY <1>1, <1>2, <2>1, UnchangedIsAround
  <2> QED BY <1>1, <2>1, <2>2, AwaitedFacts, AwaitServes
<1>3. CASE /\ req[c].op = "delete" /\ Await(c, "remove", "removing")
           /\ Withdraw(req[c].id)
  <2>1. /\ Begin(c, "remove", i, Null) /\ Goto(c, "removing") /\ UNCHANGED content
        /\ UNCHANGED stored /\ promise' = [promise EXCEPT ![i] = "withdrawn"]
    BY <1>3 DEF Await, Begin, Withdraw
  <2>2. Around(i)
    BY <1>1, <2>1, UnchangedIsAround
  <2> QED BY <1>1, <2>1, <2>2, AwaitedFacts, AwaitServes
<1>4. CASE /\ req[c].op \in {"patch", "cancel"} /\ Goto(c, "locking")
           /\ UNCHANGED <<storageVars, content, promise>>
  <2>1. UNCHANGED <<sidecar, tmp, stored, cache, call, marked>>
    BY <1>4 DEF storageVars
  <2>2. Around(i)
    BY <1>1, <1>4, <2>1, UnchangedIsAround
  <2> QED BY <1>1, <1>4, <2>1, <2>2, GotoServes
<1> QED BY <1>2, <1>3, <1>4 DEF Authorized

LEMMA ReservedServes ==
  ASSUME ServiceInv, ServiceInv', ServingInv, NEW c \in Call, NEW i, i = req[c].id,
         Reserved(c)
  PROVE  ServingInv'
<1>1. /\ InFlight(c) /\ ~Running(c) /\ req[c].stage = "reserving"
      /\ req[c].op = "post" /\ Pending(c) /\ ~Early(c) /\ i \in Id
      /\ promise \in PromiseType /\ call[c] \in CallType
  BY DEF Reserved, Returned, InFlight, Pending, Early, ServiceInv, ReqsOK, ReqOK,
     StorageInv
<1>2. CASE call[c].pc = "done"
  <2>1. /\ Goto(c, "locking") /\ UNCHANGED <<sidecar, tmp, stored, cache, call, marked>>
        /\ UNCHANGED content
        /\ \/ promise' = [promise EXCEPT ![i] = "withdrawn"]
           \/ promise' = [promise EXCEPT ![i] = "open"]
    BY <1>2 DEF Reserved, storageVars
  <2>2. Around(i) /\ promise'[i] # "fresh"
    BY <1>1, <2>1 DEF Around, Tame, PromiseType
  <2> QED BY <1>1, <1>2, <2>1, <2>2, GotoServes
<1>3. CASE call[c].pc # "done"
  <2>1. /\ Answer(c, call[c].pc) /\ call[c].pc # "served"
        /\ promise' = [promise EXCEPT ![i] = IF @ = "fresh" THEN "withdrawn" ELSE @]
    BY <1>1, <1>3 DEF Reserved, CallType
  <2> QED BY <1>1, <2>1, AnswerServes
<1> QED BY <1>2, <1>3

LEMMA AcquireLockServes ==
  ASSUME ServiceInv, ServiceInv', ServingInv, NEW c \in Call, NEW i, i = req[c].id,
         AcquireLock(c)
  PROVE  ServingInv'
<1>1. /\ InFlight(c) /\ ~Running(c) /\ req[c].stage = "locking" /\ i \in Id
      /\ promise \in PromiseType
  BY NotAwaiting, AwaitedFacts DEF AcquireLock, InFlight, ServiceInv, ReqsOK, ReqOK
<1>2. CASE Answer(c, "absent") /\ UNCHANGED promise
  BY <1>1, <1>2, AnswerServes
<1>3. CASE /\ req[c].op = "post" /\ Goto(c, "creating")
           /\ UNCHANGED <<storageVars, content, promise>>
  <2>1. UNCHANGED <<sidecar, tmp, stored, cache, call, marked>>
    BY <1>3 DEF storageVars
  <2>2. Around(i) /\ Pending(c) /\ ~Early(c)
    BY <1>1, <1>3, <2>1, UnchangedIsAround DEF Pending, Early
  <2> QED BY <1>1, <1>3, <2>1, <2>2, GotoServes
<1>4. CASE /\ req[c].op = "patch" /\ stored[i] = StoreFile /\ Goto(c, "writing")
           /\ UNCHANGED <<storageVars, content, promise>>
  <2>1. UNCHANGED <<sidecar, tmp, stored, cache, call, marked>> /\ ~Virgin(i)
    BY <1>4 DEF storageVars, Virgin, StoreFile
  <2>2. Around(i)
    BY <1>1, <1>4, <2>1, UnchangedIsAround
  <2> QED BY <1>1, <1>4, <2>1, <2>2, GotoServes
<1>5. CASE /\ req[c].op = "cancel" /\ stored[i] = StoreFile /\ Goto(c, "unlinking")
           /\ Withdraw(i) /\ UNCHANGED <<storageVars, content>>
  <2>1. UNCHANGED <<sidecar, tmp, stored, cache, call, marked>> /\ ~Virgin(i)
    BY <1>5 DEF storageVars, Virgin, StoreFile
  <2>2. Around(i)
    BY <1>1, <1>5, <2>1, UnchangedIsAround DEF Withdraw
  <2> QED BY <1>1, <1>5, <2>1, <2>2, GotoServes
<1> QED BY <1>2, <1>3, <1>4, <1>5 DEF AcquireLock

LEMMA CreateInfoServes ==
  ASSUME ServiceInv, ServiceInv', ServingInv, NEW c \in Call, NEW i, i = req[c].id,
         CreateInfo(c)
  PROVE  ServingInv'
<1>1. /\ InFlight(c) /\ ~Running(c) /\ req[c].stage = "registering" /\ i \in Id
      /\ ~Early(c) /\ ~Pending(c) /\ stored \in [Id -> SUBSET StoreFile]
      /\ UNCHANGED <<sidecar, tmp, cache, marked, content, promise>>
  BY NotAwaiting, AwaitedFacts
     DEF CreateInfo, InFlight, Early, Pending, ServiceInv, StorageInv, ReqsOK, ReqOK
<1>2. Around(i)
  BY <1>1 DEF CreateInfo, Around, Tame
<1>3. CASE Respond(c, "created", NoBody) /\ call' = [call EXCEPT ![c] = Idle]
  BY <1>1, <1>2, <1>3, EndServes
<1>4. CASE Goto(c, "writing") /\ UNCHANGED call
  BY <1>1, <1>2, <1>4, GotoServes
<1> QED BY <1>3, <1>4 DEF CreateInfo

\* Bytes are appended; a file that was whole stays what it is.
LEMMA ReceiveServes ==
  ASSUME ServiceInv, ServiceInv', ServingInv, NEW c \in Call, NEW i, i = req[c].id,
         Receive(c)
  PROVE  ServingInv'
<1>1. /\ InFlight(c) /\ req[c].stage = "writing" /\ i \in Id
      /\ ~Early(c) /\ ~Pending(c) /\ content \in [Id -> Body]
      /\ UNCHANGED <<stored, promise>>
  BY DEF Receive, Begin, InFlight, Early, Pending, ServiceInv, ReqsOK, ReqOK
<1>2. PICK n \in 0..Size :
        /\ n >= content[i].len
        /\ content' = IF "bytes" \in stored[i]
                      THEN [content EXCEPT ![i].len = n] ELSE content
        /\ \/ /\ n = Size /\ Begin(c, "load", i, Null) /\ Goto(c, "finishing")
           \/ /\ Respond(c, "partial", NoBody) /\ call' = [call EXCEPT ![c] = Idle]
              /\ UNCHANGED <<sidecar, tmp, cache, marked>>
  BY DEF Receive
<1>3. Around(i)
  <2>1. \A j \in Id \ {i} : content'[j] = content[j]
    BY <1>1, <1>2
  <2>2. content[i].len = Size => content'[i] = content[i]
    BY <1>1, <1>2, SizeAssumption DEF Body
  <2> QED BY <1>1, <2>1, <2>2 DEF Around, Tame
<1>4. CASE n = Size /\ Begin(c, "load", i, Null) /\ Goto(c, "finishing")
  <2>1. "bytes" \in stored[i] => content'[i].len = Size
    BY <1>1, <1>2, <1>4 DEF Body
  <2> QED BY <1>1, <1>3, <1>4, <2>1, AwaitedFacts, AwaitServes
<1>5. CASE /\ Respond(c, "partial", NoBody) /\ call' = [call EXCEPT ![c] = Idle]
           /\ UNCHANGED <<sidecar, tmp, cache, marked>>
  BY <1>1, <1>3, <1>5, EndServes
<1> QED BY <1>2, <1>4, <1>5

LEMMA UnlinkServes ==
  ASSUME ServiceInv, ServiceInv', ServingInv, NEW c \in Call, NEW i, i = req[c].id,
         Unlink(c) \/ Unregister(c)
  PROVE  ServingInv'
<1>1. /\ InFlight(c) /\ ~Running(c) /\ req[c].stage \in {"unlinking", "unregistering"}
      /\ ~Early(c) /\ ~Pending(c) /\ i \in Id /\ stored \in [Id -> SUBSET StoreFile]
      /\ UNCHANGED <<sidecar, tmp, cache, marked, content, promise>>
  BY NotAwaiting, AwaitedFacts
     DEF Unlink, Unregister, InFlight, Early, Pending, ServiceInv, StorageInv, ReqsOK, ReqOK
<1>2. Around(i)
  BY <1>1 DEF Unlink, Unregister, Around, Tame
<1>3. CASE Unlink(c)
  BY <1>1, <1>2, <1>3, GotoServes DEF Unlink
<1>4. CASE Unregister(c)
  BY <1>1, <1>2, <1>4, EndServes DEF Unregister
<1> QED BY <1>3, <1>4

\* What the validators passed is presentable, and nobody starts it over meanwhile.
LEMMA AcceptServes ==
  ASSUME ServiceInv, ServiceInv', ServingInv, NEW c \in Call, NEW i, i = req[c].id,
         Accept(c)
  PROVE  ServingInv'
<1>1. /\ InFlight(c) /\ req[c].stage = "finishing" /\ ~Early(c) /\ ~Pending(c)
      /\ Begin(c, "markReady", i, Null) /\ Goto(c, "marking")
      /\ UNCHANGED <<stored, content, promise>> /\ promise \in PromiseType
      /\ Validated(c)
  BY DEF Accept, Returned, Succeeded, Await, Begin, InFlight, Early, Pending, ServiceInv
<1>2. "bytes" \in stored[i] => Presentable(content[i])
  <2>1. FinishesWhole(c)
    BY DEF ServingInv
  <2> QED BY <1>1, <2>1 DEF FinishesWhole, Validated, Passes, SnifferPasses, HasFtypBox,
                         Bytes, Presentable
<1>3. Around(i)
  BY <1>1, UnchangedIsAround
<1> QED BY <1>1, <1>2, <1>3, AwaitedFacts, AwaitServes

LEMMA RejectServes ==
  ASSUME ServiceInv, ServiceInv', ServingInv, NEW c \in Call, NEW i, i = req[c].id,
         Reject(c)
  PROVE  ServingInv'
<1>1. /\ InFlight(c) /\ ~Early(c) /\ ~Pending(c)
      /\ Begin(c, "remove", i, Null) /\ Goto(c, "rejecting")
      /\ UNCHANGED <<stored, content>> /\ promise \in PromiseType
      /\ promise' = [promise EXCEPT ![i] = "withdrawn"]
  BY DEF Reject, Returned, Await, Begin, Withdraw, InFlight, Early, Pending, ServiceInv
<1>2. Around(i)
  BY <1>1, UnchangedIsAround
<1> QED BY <1>1, <1>2, AwaitedFacts, AwaitServes

LEMMA MarkedReadyServes ==
  ASSUME ServiceInv, ServiceInv', ServingInv, NEW c \in Call, NEW i, i = req[c].id,
         MarkedReady(c)
  PROVE  ServingInv'
<1>1. /\ InFlight(c) /\ ~Running(c) /\ req[c].stage = "marking" /\ ~Early(c)
      /\ ~Pending(c) /\ promise \in PromiseType
  BY DEF MarkedReady, Returned, InFlight, Early, Pending, ServiceInv
<1>2. CASE Goto(c, "notifying") /\ UNCHANGED <<storageVars, content, promise>>
  <2>1. UNCHANGED <<sidecar, tmp, stored, cache, call, marked>>
    BY <1>2 DEF storageVars
  <2>2. Around(i)
    BY <1>1, <1>2, <2>1, UnchangedIsAround
  <2> QED BY <1>1, <1>2, <2>1, <2>2, GotoServes
<1>3. CASE Answer(c, "failed") /\ UNCHANGED promise
  BY <1>1, <1>3, AnswerServes
<1> QED BY <1>2, <1>3 DEF MarkedReady

\* Only an artifact that was ready when it was looked up is sent.
LEMMA ResolvedServes ==
  ASSUME ServiceInv, ServiceInv', ServingInv, NEW c \in Call, NEW i, i = req[c].id,
         Resolved(c)
  PROVE  ServingInv'
<1>1. /\ InFlight(c) /\ ~Running(c) /\ req[c].stage = "resolving" /\ i \in Id
      /\ ~Pending(c) /\ promise \in PromiseType
  BY DEF Resolved, Returned, Succeeded, InFlight, Pending, ServiceInv, ReqsOK, ReqOK
<1>2. CASE Answer(c, "absent") /\ UNCHANGED promise
  BY <1>1, <1>2, AnswerServes
<1>3. CASE /\ call[c].got # NoFile /\ Goto(c, "sending")
           /\ UNCHANGED <<storageVars, content, promise>>
  <2>1. UNCHANGED <<sidecar, tmp, stored, cache, call, marked>>
    BY <1>3 DEF storageVars
  <2>2. Around(i)
    BY <1>1, <1>3, <2>1, UnchangedIsAround
  <2>3. Linked(c) /\ Sound(call[c], marked)
    BY DEF ServingInv, ServiceInv, StorageInv
  <2>4. call[c].id = i /\ call[c].got.state = "ready"
    <3>1. call[c].id = i /\ call[c].op = "resolve" /\ Fits(call[c])
      BY <1>1, <2>3, AwaitedFacts DEF Linked
    <3>2. call[c].pc # "resume" /\ call[c].got \in Parsed
      BY <1>1, <2>3 DEF Running, Sound, CallType
    <3> QED BY <1>3, <3>1, <3>2, ParsedFacts DEF Fits
  <2>5. Ready(i) /\ ~Virgin(i)
    BY <1>1, <2>3, <2>4 DEF Ready, SaysReady, Virgin, Sound
  <2> QED BY <1>1, <1>3, <2>1, <2>2, <2>5, GotoServes
<1> QED BY <1>2, <1>3 DEF Resolved

LEMMA SendServes ==
  ASSUME ServiceInv, ServiceInv', ServingInv, NEW c \in Call, NEW i, i = req[c].id,
         Send(c)
  PROVE  ServingInv'
<1>1. /\ InFlight(c) /\ req[c].stage = "sending" /\ i \in Id
      /\ ~Early(c) /\ ~Pending(c) /\ promise \in PromiseType
      /\ call' = [call EXCEPT ![c] = Idle]
      /\ UNCHANGED <<sidecar, tmp, stored, cache, marked, content, promise>>
  BY DEF Send, InFlight, Early, Pending, ServiceInv, ReqsOK, ReqOK
<1>2. Around(i)
  BY <1>1, UnchangedIsAround
<1>3. "bytes" \in stored[i] => Presentable(content[i])
  BY <1>1 DEF ServingInv, ReadyIsPresentable, Ready, SaysReady
<1>4. CASE "bytes" \in stored[i] /\ Respond(c, "served", content[i])
  <2>1. PICK body : body = content[i]
    OBVIOUS
  <2>2. Respond(c, "served", body) /\ Presentable(body)
    BY <1>3, <1>4, <2>1
  <2> QED BY <1>1, <1>2, <2>2, EndServes
<1>5. CASE Respond(c, "absent", NoBody)
  BY <1>1, <1>2, <1>5, EndServes
<1> QED BY <1>4, <1>5 DEF Send

LEMMA HandlerServes ==
  ASSUME ServiceInv, ServiceInv', ServingInv, NEW c \in Call, Handler(c)
  PROVE  ServingInv'
<1>1. PICK i : i = req[c].id
  OBVIOUS
<1> QED
  BY <1>1, RefusalsServe, AuthorizedServes, ReservedServes, AcquireLockServes,
     CreateFileServes, CreateInfoServes, ReceiveServes, UnlinkServes, AcceptServes,
     RejectServes, MarkedReadyServes, ResolvedServes, SendServes
     DEF Handler

\* What a crash leaves is ready, pending or early only if it was before.
LEMMA CrashKeepsServing ==
  ASSUME ServingInv, NEW p \in Proc, Crash(p), ServiceInv
  PROVE  ServingInv'
<1>1. /\ \A d \in Call : \/ req'[d] = NoReq /\ call'[d] = Idle
                         \/ req'[d] = req[d] /\ call'[d] = call[d]
      /\ UNCHANGED <<sidecar, tmp, stored, marked, content>>
      /\ \A j \in Id : promise'[j] = "fresh" => promise[j] = "fresh"
  BY DEF Crash, CrashStorage
<1>2. \A d \in Call, j \in Id : cache'[procOf[d]].entry[j].state = "ready"
        => cache[procOf[d]].entry[j].state = "ready"
  BY ProcAssumption, ParsedFacts DEF Crash, CrashStorage, EmptyCache, ServiceInv, StorageInv
<1>3. ASSUME NEW j \in Id, Ready(j)' PROVE Ready(j)
  <2>1. ASSUME NEW d \in Call, SaysReady(d, j)' PROVE SaysReady(d, j)
    <3>1. ~(req'[d] = NoReq /\ call'[d] = Idle)
      BY <2>1, ParsedFacts DEF SaysReady, NoReq, Idle
    <3> QED BY <1>1, <2>1, <3>1 DEF SaysReady
  <2> QED BY <1>1, <1>2, <1>3, <2>1 DEF Ready
<1>4. ASSUME NEW d \in Call, NEW j PROVE On(d, j)' => On(d, j) /\ req'[d] = req[d]
  BY <1>1 DEF On, InFlight, NoReq
<1>5. ASSUME NEW d \in Call
      PROVE  (Linked(d) /\ CreateInTime(d) /\ ReservesUnready(d) /\ FinishesWhole(d))'
  <2>1. CASE req'[d] = NoReq /\ call'[d] = Idle
    BY <2>1, AwaitedFacts DEF NoReq, Idle, Linked, CreateInTime, ReservesUnready,
       FinishesWhole, Pending, InFlight, Running, Fits, Deleting
  <2>2. CASE req'[d] = req[d] /\ call'[d] = call[d]
    <3>1. Linked(d) /\ CreateInTime(d) /\ ReservesUnready(d) /\ FinishesWhole(d)
      BY DEF ServingInv
    <3>2. Linked(d)' /\ FinishesWhole(d)'
      BY <1>1, <2>2, <3>1 DEF Linked, FinishesWhole, InFlight, Running
    <3>3. CreateInTime(d)'
      BY <1>1, <1>4, <2>2, <3>1 DEF CreateInTime, Pending, Virgin, Early
    <3>4. ReservesUnready(d)'
      <4>1. Pending(d) \/ req[d].stage = "reserving" => req[d].id \in Id
        BY DEF ServiceInv, ReqsOK, ReqOK, Pending
      <4> QED BY <1>1, <1>3, <2>2, <3>1, <4>1 DEF ReservesUnready, Pending
    <3> QED BY <3>2, <3>3, <3>4
  <2> QED BY <1>1, <2>1, <2>2
<1>6. ASSUME NEW j \in Id PROVE (FreshIsVirgin(j) /\ ReadyIsPresentable(j))'
  <2>1. FreshIsVirgin(j) /\ ReadyIsPresentable(j)
    BY DEF ServingInv
  <2>2. FreshIsVirgin(j)'
    BY <1>1, <1>4, <2>1 DEF FreshIsVirgin, Virgin, Early
  <2> QED BY <1>1, <1>3, <2>1, <2>2 DEF ReadyIsPresentable
<1>7. NoPartialServed'
  BY <1>1 DEF ServingInv, NoPartialServed, NoReq
<1> QED BY <1>5, <1>6, <1>7 DEF ServingInv

LEMMA InitServes == Init => ServingInv
<1> SUFFICES ASSUME Init PROVE ServingInv
  OBVIOUS
<1>1. /\ \A c \in Call : req[c] = NoReq /\ call[c] = Idle /\ ~InFlight(c) /\ ~Pending(c)
      /\ \A i \in Id : sidecar[i] = NoFile /\ stored[i] = {}
      /\ \A p \in Proc, i \in Id : cache[p].entry[i] = NoFile
      /\ marked = {}
  BY DEF Init, InitStorage, EmptyCache, InFlight, Pending, NoReq
<1>2. ASSUME NEW c \in Call, NEW i \in Id PROVE ~SaysReady(c, i)
  <2>1. req[c].stage = "idle" /\ call[c].got = NoFile
    BY <1>1 DEF NoReq, Idle
  <2> QED BY <2>1, ParsedFacts DEF SaysReady
<1>3. \A i \in Id : ~Ready(i)
  BY <1>1, <1>2, ParsedFacts, ProcAssumption DEF Ready
<1>4. \A i \in Id : FreshIsVirgin(i) /\ ReadyIsPresentable(i)
  BY <1>1, <1>3 DEF FreshIsVirgin, ReadyIsPresentable, Virgin, On
<1>5. ASSUME NEW c \in Call
      PROVE  Linked(c) /\ CreateInTime(c) /\ ReservesUnready(c) /\ FinishesWhole(c)
  <2>1. /\ req[c].stage = "idle" /\ call[c].pc = "idle" /\ call[c].op = "none"
        /\ req[c].op = "none" /\ call[c] = Idle
    BY <1>1 DEF NoReq, Idle
  <2>2. Fits(call[c]) /\ ~Running(c)
    BY <2>1 DEF Fits, Deleting, Running
  <2> QED BY <1>1, <2>1, <2>2, AwaitedFacts
          DEF Linked, CreateInTime, ReservesUnready, FinishesWhole
<1>6. NoPartialServed
  BY <1>1 DEF NoPartialServed, NoReq
<1> QED BY <1>4, <1>5, <1>6 DEF ServingInv

LEMMA NextKeepsServing ==
  ASSUME Sticky, "create" \notin Races
  PROVE  ServiceInv /\ ServiceInv' /\ Routed /\ Routed' /\ ServingInv /\ [Next]_vars
           => ServingInv'
<1> SUFFICES ASSUME ServiceInv, ServiceInv', Routed, Routed', ServingInv, [Next]_vars
             PROVE  ServingInv'
  OBVIOUS
<1>1. CASE \E c \in Call : Client(c)
  BY <1>1, ClientServes
<1>2. CASE \E c \in Call : Adapter(c)
  BY <1>2, AdapterServes
<1>3. CASE \E c \in Call : Handler(c)
  BY <1>3, HandlerServes
<1>4. CASE \E p \in Proc : Crash(p)
  BY <1>4, CrashKeepsServing
<1>5. CASE UNCHANGED vars
  BY <1>5 DEF vars, storageVars, ServingInv, NoPartialServed, Linked, CreateInTime,
     ReservesUnready, FinishesWhole, FreshIsVirgin, ReadyIsPresentable, Ready, SaysReady,
     Virgin, Early, Pending, On, InFlight, Running
<1> QED BY <1>1, <1>2, <1>3, <1>4, <1>5 DEF Next, Work

\* What says that an artifact is ready is right about the bytes that are there, whatever
\* interleaves: the inductive invariant behind NoPartialServed.
THEOREM ServingInvariant ==
  ASSUME Sticky, "create" \notin Races
  PROVE  Spec => []ServingInv
<1>1. ServiceInv /\ ServiceInv' /\ Routed /\ Routed' /\ ServingInv /\ [Next]_vars => ServingInv'
  BY NextKeepsServing
<1> QED BY <1>1, InitServiceHolds, NextKeeps, RoutedAlways, InitServes, PTL DEF Spec

\* A GET never serves a part of a file, or a file the sniffer would refuse, for any
\* number of artifacts, processes, requests and crashes, as long as the requests of an
\* artifact are routed to one process and no client creates an artifactId anew while
\* something else is asked of it.
THEOREM NoPartialServedHolds ==
  ASSUME Sticky, "create" \notin Races
  PROVE  Spec => []NoPartialServed
<1>1. ServingInv => NoPartialServed
  BY DEF ServingInv
<1> QED BY <1>1, ServingInvariant, PTL

-----------------------------------------------------------------------------
(* What was acknowledged stays on disk, and what is ready was checked: for  *)
(* sticky routing and no races.                                             *)

\* The clauses of DurableInv about one artifact.
Upholds(c) ==
  /\ Uploads(c) /\ AsksAgainAlone(c) /\ CompletesWhole(c) /\ RemovesWithdrawn(c)
  /\ KeepsBytes(c) /\ Reserves(c) /\ FindsWhatThereIs(c) /\ Marks(c) /\ Notifies(c)
Durable(i) ==
  /\ \A c \in Call : On(c, i) => Upholds(c)
  /\ OneUpload(i) /\ FreshIsUnheardOf(i) /\ OneUploader(i)
  /\ ReadyIsChecked(i) /\ AckedIsReady(i)

LEMMA IdleUpholds ==
  ASSUME NEW c \in Call, ~InFlight(c)
  PROVE  Upholds(c)
BY DEF InFlight, Upholds, Uploads, AsksAgainAlone, CompletesWhole, RemovesWithdrawn,
   KeepsBytes, Reserves, FindsWhatThereIs, Marks, Notifies, Completing, Uploading, Removal

DurableSplit == DurableInv <=> \A i \in Id : Durable(i)
LEMMA DurableIs == ServiceInv => DurableSplit
<1> SUFFICES ASSUME ServiceInv PROVE DurableInv <=> \A i \in Id : Durable(i)
  BY DEF DurableSplit
<1>1. \A c \in Call : ~InFlight(c) \/ (req[c].id \in Id /\ On(c, req[c].id))
  BY DEF ServiceInv, ReqsOK, ReqOK, InFlight, On
<1>2. (\A c \in Call : Upholds(c)) <=> \A i \in Id, c \in Call : On(c, i) => Upholds(c)
  BY <1>1, IdleUpholds
<1> QED BY <1>2 DEF DurableInv, Durable, Upholds

LEMMA MetaFacts ==
  /\ NoFile.meta = Null /\ Torn.meta = Null /\ Null \notin Meta
  /\ \A f \in OnDisk : f.meta \in Meta \cup {Null}
  /\ \A f \in OnDisk : f.state \in {"uploading", "ready"} <=> f.meta \in Meta
  /\ \A f \in OnDisk : Parse(f).meta = f.meta
BY NullAssumption DEF NoFile, Torn, File, OnDisk, Parsed, Parse

\* An artifact to which nothing happens, but that cache entries of it may be dropped.
SameAt(i) ==
  /\ sidecar'[i] = sidecar[i] /\ tmp'[i] = tmp[i] /\ stored'[i] = stored[i]
  /\ content'[i] = content[i] /\ promise'[i] = promise[i]
  /\ \A c \in Call : /\ On(c, i)' <=> On(c, i)
                     /\ On(c, i) => req'[c] = req[c] /\ call'[c] = call[c]
                     /\ Cached(c, i)' \in {NoFile, Cached(c, i)}

LEMMA SameEndures ==
  ASSUME NEW i \in Id, Durable(i), SameAt(i)
  PROVE  Durable(i)'
<1>1. \A m \in Meta : /\ Told(i, m)' <=> Told(i, m)
                      /\ Claimed(i, m)' => Claimed(i, m)
  <2>1. \A m : Told(i, m)' <=> Told(i, m)
    BY DEF Told, SameAt
  <2>2. \A m \in Meta, c \in Call : Cached(c, i)'.meta = m => Cached(c, i).meta = m
    BY MetaFacts DEF SameAt
  <2> QED BY <2>1, <2>2 DEF Claimed
<1>2. ASSUME NEW c \in Call, On(c, i)' PROVE Upholds(c)'
  <2>1. /\ On(c, i) /\ Upholds(c) /\ req'[c] = req[c] /\ call'[c] = call[c]
        /\ req[c].id = i
    BY <1>2 DEF Durable, SameAt, On
  <2>2. AsksAgainAlone(c)' /\ Uploads(c)'
    BY <2>1 DEF Upholds, AsksAgainAlone, Uploads, SameAt, InFlight
  <2>3. /\ CompletesWhole(c)' /\ RemovesWithdrawn(c)' /\ KeepsBytes(c)'
        /\ FindsWhatThereIs(c)' /\ Notifies(c)'
    BY <2>1 DEF Upholds, CompletesWhole, RemovesWithdrawn, KeepsBytes, FindsWhatThereIs,
       Notifies, SameAt, Live
  <2>4. Marks(c)'
    BY <2>1 DEF Upholds, Marks, Drafts, Checked, Live, SameAt
  <2>5. Reserves(c)'
    BY <1>1, <2>1 DEF Upholds, Reserves, Drafts, SameAt, Running
  <2> QED BY <2>2, <2>3, <2>4, <2>5 DEF Upholds
<1>3. OneUpload(i)'
  <2>1. CASE \E c \in Call : Committing(c, i)
    BY <2>1 DEF OneUpload, Committing, SameAt
  <2>2. CASE \A m, n \in Meta : Claimed(i, m) /\ Claimed(i, n) => m = n
    BY <1>1, <2>2 DEF OneUpload
  <2> QED BY <2>1, <2>2 DEF Durable, OneUpload
<1>4. FreshIsUnheardOf(i)' /\ OneUploader(i)'
  <2>1. FreshIsUnheardOf(i)'
    BY <1>1 DEF Durable, FreshIsUnheardOf, SameAt
  <2>2. OneUploader(i)'
    BY DEF Durable, OneUploader, SameAt
  <2> QED BY <2>1, <2>2
<1>5. ReadyIsChecked(i)' /\ AckedIsReady(i)'
  BY DEF Durable, ReadyIsChecked, AckedIsReady, Checked, SameAt
<1> QED BY <1>2, <1>3, <1>4, <1>5 DEF Durable

\* What a step of request c on artifact i leaves alone.
Elsewhere(c, i) ==
  /\ \A d \in Call \ {c} :
       /\ req'[d] = req[d] /\ SameCall(call[d], call'[d]) /\ call'[d].meta = call[d].meta
       /\ ~On(d, i) => call'[d] = call[d]
  /\ \A j \in Id \ {i} :
       /\ sidecar'[j] = sidecar[j] /\ tmp'[j] = tmp[j] /\ stored'[j] = stored[j]
       /\ content'[j] = content[j] /\ promise'[j] = promise[j]
       /\ \A d \in Call : Cached(d, j)' \in {NoFile, Cached(d, j)}
  /\ InFlight(c) => req[c].id = i
  /\ InFlight(c)' => req'[c].id = i

LEMMA ElsewhereEndures ==
  ASSUME ServiceInv, ServiceInv', DurableInv, NEW c \in Call, NEW i \in Id,
         Elsewhere(c, i), Durable(i)'
  PROVE  DurableInv'
<1>1. ASSUME NEW j \in Id \ {i} PROVE Durable(j)'
  <2>1. Durable(j)
    BY DurableIs DEF DurableSplit
  <2>2. SameAt(j)
    <3>1. ASSUME NEW d \in Call
          PROVE  /\ On(d, j)' <=> On(d, j)
                 /\ On(d, j) => req'[d] = req[d] /\ call'[d] = call[d]
      BY DEF Elsewhere, On, InFlight
    <3> QED BY <3>1 DEF SameAt, Elsewhere
  <2> QED BY <2>1, <2>2, SameEndures
<1>2. DurableSplit'
  BY DurableIs, PTL
<1> QED BY <1>1, <1>2 DEF DurableSplit

\* What a step of request c on artifact i may do to what the others there count on.
Leaves(c, i) ==
  LET stage == req[c].stage
  IN  /\ On(c, i)
      /\ \/ /\ sidecar'[i] = sidecar[i] /\ tmp'[i] = tmp[i]
            /\ \A d \in Call \ {c} : call'[d].fd = call[d].fd
         \/ stage \in {"reserving", "marking"}
         \/ /\ stage \in Removal /\ sidecar'[i] = NoFile /\ tmp'[i] = tmp[i]
            /\ \A d \in Call \ {c} : On(d, i) =>
                 call'[d].fd = IF call[d].fd = "final" THEN "gone" ELSE call[d].fd
      /\ "bytes" \in stored'[i] => "bytes" \in stored[i] \/ stage = "creating"
      /\ "bytes" \in stored[i] => "bytes" \in stored'[i] \/ stage \in Removal
      /\ content[i].len = Size => content'[i] = content[i] \/ stage = "creating"
      /\ \/ promise'[i] \in {promise[i], "withdrawn"}
         \/ stage = "notifying" /\ promise[i] = "open" /\ promise'[i] = "acked"
         \/ /\ stage = "reserving" /\ promise'[i] = "open"
            /\ \A d \in Call : On(d, i) => req[d].stage \notin Removal
      /\ stage # "reserving" => \A m \in Meta : Claimed(i, m)' => Claimed(i, m)
      /\ InFlight(c)' => /\ req'[c].op = req[c].op /\ req'[c].meta = req[c].meta
                         /\ req'[c].offset = req[c].offset

\* A create that has not made its byte file meets only early requests, and they only it.
LEMMA EarlyFacts ==
  ASSUME ServiceInv, ServingInv, NEW c \in Call, NEW d \in Call \ {c}, NEW i,
         On(c, i), On(d, i)
  PROVE  /\ req[c].stage \in {"reserving", "creating"} => Early(d)
         /\ req[d].stage \in {"reserving", "creating"} => Early(c)
BY DEF ServingInv, CreateInTime, Pending, Linked, ServiceInv, ReqsOK, ReqOK, On

LEMMA OthersUphold ==
  ASSUME ServiceInv, ServingInv, NEW c \in Call, NEW i \in Id, Durable(i),
         Elsewhere(c, i), Leaves(c, i), NEW d \in Call \ {c}, On(d, i)
  PROVE  Upholds(d)'
<1>1. /\ req'[d] = req[d] /\ req[d].id = i /\ Upholds(d) /\ req[c].id = i
      /\ SameCall(call[d], call'[d]) /\ call'[d].meta = call[d].meta
      /\ On(c, i) /\ Upholds(c) /\ InFlight(d) /\ InFlight(c)
  BY DEF Elsewhere, Durable, On, Leaves
<1>2. \A e \in Call : On(e, i)' => On(e, i) /\ req'[e].op = req[e].op
  BY <1>1 DEF Leaves, Elsewhere, On, InFlight
<1>3. /\ req[c].stage \in {"reserving", "creating"} => Early(d)
      /\ req[d].stage \in {"reserving", "creating"} => Early(c)
  BY <1>1, EarlyFacts
<1>4. ~(req[c].stage \in Uploading /\ req[d].stage \in Uploading)
  BY <1>1 DEF Durable, OneUploader
<1>5. Uploads(d)'
  BY <1>1 DEF Upholds, Uploads, InFlight
<1>6. AsksAgainAlone(d)'
  <2>1. SUFFICES ASSUME req[d].op = "patch", req[d].offset = Size
                 PROVE  AsksAgainAlone(d)'
    BY <1>1 DEF AsksAgainAlone
  <2>2. /\ content[i].len = Size
        /\ \A e \in Call \ {d} : On(e, i) => req[e].op \notin {"post", "patch"}
    BY <1>1, <2>1 DEF Upholds, AsksAgainAlone
  <2>3. req[c].stage # "creating"
    BY <1>1, <2>2 DEF ServingInv, Linked
  <2> QED BY <1>1, <1>2, <2>2, <2>3 DEF AsksAgainAlone, Leaves
<1>7. req[d].stage \in Completing => req[c].stage \notin Completing \cup {"reserving", "creating"}
  BY <1>3, <1>4 DEF Early, Uploading, Completing
<1>8. ASSUME req[d].stage \in Completing, "bytes" \in stored'[i]
      PROVE  "bytes" \in stored[i] /\ content'[i] = content[i] /\ content[i].len = Size
  BY <1>1, <1>7, <1>8 DEF Leaves, Upholds, CompletesWhole
<1>9. CompletesWhole(d)'
  BY <1>1, <1>8 DEF CompletesWhole
<1>10. req[d].stage \in Removal => promise'[i] = "withdrawn"
  BY <1>1 DEF Leaves, Upholds, RemovesWithdrawn
<1>11. RemovesWithdrawn(d)'
  BY <1>1, <1>10 DEF RemovesWithdrawn
<1>12. /\ req[c].stage \in Removal => promise'[i] = "withdrawn"
       /\ Live(i)' => req[c].stage \notin Removal /\ (req[c].stage = "reserving" \/ Live(i))
  <2>1. req[c].stage \in Removal => promise[i] = "withdrawn"
    BY <1>1 DEF Upholds, RemovesWithdrawn
  <2>2. req[c].stage \in Removal => req[c].stage \notin {"notifying", "reserving"}
    BY DEF Removal
  <2> QED BY <2>1, <2>2 DEF Leaves, Live
<1>13. KeepsBytes(d)'
  <2>1. SUFFICES ASSUME req[d].stage \in {"registering", "writing"} \cup Completing, Live(i)'
                 PROVE  "bytes" \in stored'[i]
    BY <1>1 DEF KeepsBytes
  <2>2. ~Early(d)
    BY <2>1 DEF Early, Completing
  <2> QED BY <1>1, <1>3, <1>12, <2>1, <2>2 DEF Leaves, Upholds, KeepsBytes
<1>14. FindsWhatThereIs(d)'
  <2>1. SUFFICES ASSUME req[d].stage = "finishing", FindsWhatThereIs(d)
                 PROVE  FindsWhatThereIs(d)'
    BY <1>1 DEF FindsWhatThereIs, Upholds
  <2>2. sidecar'[i] \in {sidecar[i], NoFile}
    BY <1>7, <2>1 DEF Leaves, Completing
  <2> QED BY <1>1, <2>1, <2>2, MetaFacts DEF FindsWhatThereIs, SameCall
<1>15. Notifies(d)'
  <2>1. SUFFICES ASSUME req[d].stage = "notifying", Live(i)'
                 PROVE  sidecar'[i].state = "ready"
    BY <1>1 DEF Notifies
  <2>2. Live(i) /\ sidecar'[i] = sidecar[i]
    BY <1>7, <1>12, <2>1 DEF Leaves, Completing
  <2> QED BY <1>1, <2>1, <2>2 DEF Upholds, Notifies
<1>16. Marks(d)'
  <2>1. SUFFICES ASSUME req[d].stage = "marking", Marks(d)
                 PROVE  Marks(d)'
    BY <1>1 DEF Marks, Upholds
  <2>2. /\ sidecar'[i] \in {sidecar[i], NoFile} /\ tmp'[i] = tmp[i]
        /\ call'[d].fd = call[d].fd \/ call[d].fd = "final"
        /\ Live(i)' => Live(i) /\ sidecar'[i] = sidecar[i]
        /\ promise'[i] = "acked" => promise[i] = "acked"
    BY <1>7, <1>12, <2>1 DEF Leaves, Completing
  <2>3. \A m : Checked(i, m) => Checked(i, m)'
    BY <1>8, <2>1 DEF Checked, Completing
  <2>4. Drafts(call'[d], tmp'[i])
    BY <1>1, <2>1, <2>2 DEF Marks, Drafts, SameCall, Content
  <2>5. \A m \in {sidecar'[i].meta, call'[d].got.meta, call'[d].meta} \ {Null} : Checked(i, m)'
    BY <1>1, <2>1, <2>2, <2>3, MetaFacts DEF Marks, SameCall
  <2> QED BY <1>1, <2>1, <2>2, <2>4, <2>5 DEF Marks, SameCall
<1>17. Reserves(d)'
  <2>1. SUFFICES ASSUME req[d].stage = "reserving", Reserves(d)
                 PROVE  Reserves(d)'
    BY <1>1 DEF Reserves, Upholds
  <2>2. Early(c)
    BY <1>3, <2>1
  <2>3. \A m \in Meta : Claimed(i, m)' => m = req[d].meta
    BY <1>1, <2>1, <2>2 DEF Reserves, Leaves, Early
  <2>4. \A m \in Meta : Told(i, m)' => m = req[d].meta
    BY <2>3 DEF Claimed
  <2>5. /\ tmp'[i] = tmp[i]
        /\ \/ sidecar'[i] = sidecar[i] /\ call'[d].fd = call[d].fd
           \/ /\ sidecar'[i] = NoFile /\ promise'[i] = "withdrawn"
              /\ call'[d].fd = IF call[d].fd = "final" THEN "gone" ELSE call[d].fd
        /\ promise'[i] = "fresh" => promise[i] = "fresh"
    BY <1>12, <2>2 DEF Leaves, Early
  <2> QED BY <1>1, <2>1, <2>3, <2>4, <2>5, MetaFacts
          DEF Reserves, Drafts, SameCall, Running, Content
<1> QED BY <1>5, <1>6, <1>9, <1>11, <1>13, <1>14, <1>15, <1>16, <1>17 DEF Upholds

\* What a step owes to its own request.
Stores == {"registering", "writing"} \cup Completing
Carries(c, i) ==
  LET before == req[c].stage
      after == req'[c].stage
  IN  On(c, i)' =>
        /\ Uploads(c)' /\ Reserves(c)' /\ FindsWhatThereIs(c)' /\ Marks(c)' /\ Notifies(c)'
        /\ after \in Removal => before \in Removal \/ promise'[i] = "withdrawn"
        /\ after \in Completing =>
             before \in Completing \/ ("bytes" \in stored'[i] => content'[i].len = Size)
        /\ after \in Stores => before \in Stores \/ "bytes" \in stored'[i]
        /\ after \in Uploading =>
             \/ before \in Uploading
             \/ \A d \in Call \ {c} : On(d, i) => req[d].stage \notin Uploading

LEMMA OwnUpholds ==
  ASSUME ServiceInv, ServingInv, NEW c \in Call, NEW i \in Id, Durable(i),
         Elsewhere(c, i), Leaves(c, i), Carries(c, i), On(c, i)'
  PROVE  Upholds(c)'
<1>1. /\ On(c, i) /\ Upholds(c) /\ InFlight(c) /\ req[c].id = i
      /\ InFlight(c)' /\ req'[c].id = i
  BY DEF Leaves, On, Durable
<1>2. /\ req'[c].op = req[c].op /\ req'[c].meta = req[c].meta
      /\ req'[c].offset = req[c].offset
  BY <1>1 DEF Leaves
<1>3. AsksAgainAlone(c)'
  <2>1. SUFFICES ASSUME req[c].op = "patch", req[c].offset = Size
                 PROVE  AsksAgainAlone(c)'
    BY <1>2 DEF AsksAgainAlone
  <2>2. /\ content[i].len = Size /\ req[c].stage # "creating"
        /\ \A e \in Call \ {c} : On(e, i) => req[e].op \notin {"post", "patch"}
    BY <1>1, <2>1 DEF Upholds, AsksAgainAlone, ServingInv, Linked
  <2>3. \A e \in Call \ {c} : On(e, i)' => On(e, i) /\ req'[e] = req[e]
    BY DEF Elsewhere, On, InFlight
  <2> QED BY <1>1, <2>2, <2>3 DEF AsksAgainAlone, Leaves
<1>4. CompletesWhole(c)'
  <2>1. SUFFICES ASSUME req[c].stage \in Completing, "bytes" \in stored'[i]
                 PROVE  content'[i].len = Size
    BY <1>1 DEF CompletesWhole, Carries
  <2>2. req[c].stage # "creating"
    BY <2>1 DEF Completing
  <2> QED BY <1>1, <2>1, <2>2 DEF Leaves, Upholds, CompletesWhole
<1>5. RemovesWithdrawn(c)'
  <2>1. req[c].stage \in Removal => promise[i] = "withdrawn" /\ req[c].stage # "reserving"
    BY <1>1 DEF Upholds, RemovesWithdrawn, Removal
  <2> QED BY <1>1, <2>1 DEF RemovesWithdrawn, Carries, Leaves
<1>6. KeepsBytes(c)'
  <2>1. SUFFICES ASSUME req[c].stage \in Stores, Live(i)'
                 PROVE  "bytes" \in stored'[i]
    BY <1>1 DEF KeepsBytes, Carries, Stores
  <2>2. req[c].stage \notin Removal \cup {"reserving"}
    BY <2>1 DEF Stores, Completing, Removal
  <2>3. Live(i)
    BY <2>1, <2>2 DEF Leaves, Live
  <2> QED BY <1>1, <2>1, <2>2, <2>3 DEF Leaves, Upholds, KeepsBytes, Stores
<1> QED BY <1>3, <1>4, <1>5, <1>6 DEF Carries, Upholds

\* What a step owes to its artifact; one that does not write the sidecar owes nothing.
Settles(i) ==
  OneUpload(i)' /\ FreshIsUnheardOf(i)' /\ ReadyIsChecked(i)' /\ AckedIsReady(i)'

LEMMA CalmSettles ==
  ASSUME ServiceInv, ServingInv, NEW c \in Call, NEW i \in Id, Durable(i),
         Elsewhere(c, i), Leaves(c, i), req[c].stage # "reserving"
  PROVE  /\ OneUpload(i)' /\ FreshIsUnheardOf(i)'
         /\ req[c].stage # "marking" \/ sidecar'[i] = sidecar[i]
              => ReadyIsChecked(i)' /\ AckedIsReady(i)'
<1>1. /\ On(c, i) /\ Upholds(c) /\ InFlight(c) /\ req[c].id = i
      /\ \A m \in Meta : Claimed(i, m)' => Claimed(i, m)
      /\ \A d \in Call \ {c} : req'[d] = req[d] /\ call'[d].pc = call[d].pc
  BY DEF Leaves, On, Durable, Elsewhere, SameCall
<1>2. OneUpload(i)'
  <2>1. CASE \E d \in Call : Committing(d, i)
    <3>1. PICK d \in Call : Committing(d, i)
      BY <2>1
    <3>2. d # c
      BY <3>1 DEF Committing
    <3> QED BY <1>1, <3>1, <3>2 DEF Committing, OneUpload, On, InFlight
  <2>2. CASE \A m, n \in Meta : Claimed(i, m) /\ Claimed(i, n) => m = n
    BY <1>1, <2>2 DEF OneUpload
  <2> QED BY <2>1, <2>2 DEF Durable, OneUpload
<1>3. FreshIsUnheardOf(i)'
  <2>1. SUFFICES ASSUME promise'[i] = "fresh",
                        \A d \in Call : On(d, i)' => req'[d].op # "post"
                 PROVE  sidecar'[i] = NoFile /\ \A m \in Meta : ~Claimed(i, m)'
    BY DEF FreshIsUnheardOf
  <2>2. promise[i] = "fresh"
    BY <2>1 DEF Leaves
  <2>3. Early(c)
    BY <1>1, <2>2 DEF ServingInv, FreshIsVirgin
  <2>4. \A d \in Call : On(d, i) => req[d].op # "post"
    BY <1>1, <2>1, <2>3 DEF Early, On, InFlight
  <2>5. sidecar[i] = NoFile /\ \A m \in Meta : ~Claimed(i, m)
    BY <2>2, <2>4 DEF Durable, FreshIsUnheardOf
  <2>6. sidecar'[i] = NoFile
    BY <2>3, <2>5 DEF Leaves, Early
  <2> QED BY <1>1, <2>5, <2>6
<1>4. req[c].stage # "marking" \/ sidecar'[i] = sidecar[i]
        => ReadyIsChecked(i)' /\ AckedIsReady(i)'
  <2>1. SUFFICES ASSUME req[c].stage # "marking" \/ sidecar'[i] = sidecar[i]
                 PROVE  ReadyIsChecked(i)' /\ AckedIsReady(i)'
    OBVIOUS
  <2>2. sidecar'[i] = sidecar[i] \/ (req[c].stage \in Removal /\ sidecar'[i] = NoFile)
    BY <2>1 DEF Leaves
  <2>3. req[c].stage = "creating" => sidecar[i].state # "ready"
    BY <1>1 DEF ServingInv, Linked, ReservesUnready, Pending, Ready
  <2>4. NoFile.state # "ready"
    BY ParsedFacts
  <2>5. ReadyIsChecked(i)'
    <3>1. SUFFICES ASSUME sidecar'[i].state = "ready" PROVE Checked(i, sidecar[i].meta)'
      BY DEF ReadyIsChecked
    <3>2. sidecar'[i] = sidecar[i] /\ req[c].stage # "creating"
      BY <2>2, <2>3, <2>4, <3>1
    <3>3. "bytes" \in stored'[i] =>
            "bytes" \in stored[i] /\ content[i].len = Size /\ content'[i] = content[i]
      BY <3>1, <3>2 DEF Leaves, ServingInv, ReadyIsPresentable, Ready, Presentable
    <3> QED BY <3>1, <3>2, <3>3 DEF Durable, ReadyIsChecked, Checked
  <2>6. AckedIsReady(i)'
    <3>1. SUFFICES ASSUME promise'[i] = "acked"
                   PROVE  sidecar'[i].state = "ready" /\ "bytes" \in stored'[i]
      BY DEF AckedIsReady
    <3>2. /\ req[c].stage \notin Removal
          /\ \/ promise[i] = "acked"
             \/ req[c].stage = "notifying" /\ promise[i] = "open"
      <4>1. req[c].stage \in Removal => promise[i] = "withdrawn" /\ req[c].stage # "notifying"
        BY <1>1 DEF Upholds, RemovesWithdrawn, Removal
      <4> QED BY <3>1, <4>1 DEF Leaves
    <3>3. sidecar[i].state = "ready" /\ "bytes" \in stored[i]
      BY <1>1, <3>2 DEF Durable, AckedIsReady, Upholds, Notifies, KeepsBytes, Live, Completing
    <3> QED BY <2>2, <3>2, <3>3 DEF Leaves
  <2> QED BY <2>5, <2>6
<1> QED BY <1>2, <1>3, <1>4

LEMMA StepEndures ==
  ASSUME ServiceInv, ServiceInv', ServingInv, DurableInv, NEW c \in Call, NEW i \in Id,
         Elsewhere(c, i), Leaves(c, i), Carries(c, i),
         req[c].stage = "reserving" => Settles(i),
         req[c].stage = "marking" =>
           sidecar'[i] = sidecar[i] \/ (ReadyIsChecked(i)' /\ AckedIsReady(i)')
  PROVE  DurableInv'
<1>1. Durable(i)
  BY DurableIs DEF DurableSplit
<1>2. ASSUME NEW d \in Call, On(d, i)' PROVE Upholds(d)'
  <2>1. CASE d = c
    BY <1>1, <1>2, <2>1, OwnUpholds
  <2>2. CASE d # c
    <3>1. On(d, i)
      BY <1>2, <2>2 DEF Elsewhere, On, InFlight
    <3> QED BY <1>1, <2>2, <3>1, OthersUphold
  <2> QED BY <2>1, <2>2
<1>3. OneUploader(i)'
  <2>1. \A d \in Call : On(d, i)' => On(d, i)
    BY DEF Elsewhere, Leaves, On, InFlight
  <2>2. \A d \in Call \ {c} : req'[d] = req[d]
    BY DEF Elsewhere
  <2>3. OneUploader(i) /\ On(c, i)
    BY <1>1 DEF Durable, Leaves
  <2>4. ASSUME NEW d \in Call \ {c}, On(d, i)', req'[d].stage \in Uploading,
               On(c, i)', req'[c].stage \in Uploading
        PROVE  FALSE
    BY <2>1, <2>2, <2>3, <2>4 DEF OneUploader, Carries
  <2> QED BY <2>1, <2>2, <2>3, <2>4 DEF OneUploader
<1>4. Settles(i)
  BY <1>1, CalmSettles DEF Settles
<1>5. Durable(i)'
  BY <1>2, <1>3, <1>4 DEF Durable, Settles
<1> QED BY <1>5, ElsewhereEndures

-----------------------------------------------------------------------------
(* The handlers' steps that leave the sidecar alone.                       *)

LEMMA EntryFacts ==
  ASSUME StorageInv, NEW c \in Call, NEW k \in CacheType, SetCache(c, k), NEW i \in Id,
         NEW new, Takes(k, c, i, new)
  PROVE  \A d \in Call, j \in Id :
           \/ Cached(d, j)' \in {NoFile, Cached(d, j)}
           \/ j = i /\ Cached(d, j)' = new
<1>1. cache'[procOf[c]] = k
  BY ProcAssumption DEF StorageInv, SetCache
<1>2. \A p \in Proc \ {procOf[c]} : cache'[p] = cache[p]
  BY DEF StorageInv, SetCache
<1> QED BY <1>1, <1>2, ProcAssumption DEF Takes, Cached

\* What a getter's or a removal's first turn knows.
LEMMA BeginSays ==
  ASSUME StorageInv, NEW c \in Call, NEW i \in Id, NEW op \in {"load", "resolve", "remove"},
         NEW m \in Meta \cup {Null}, Begin(c, op, i, m)
  PROVE  /\ UNCHANGED <<sidecar, tmp, stored>>
         /\ \A d \in Call \ {c} : call'[d] = call[d]
         /\ \A d \in Call, j \in Id : Cached(d, j)' \in {NoFile, Cached(d, j)}
         /\ call'[c].got \in {NoFile, Cached(c, i)}
         /\ op = "load" /\ call'[c].pc # "read" => call'[c].got # NoFile
<1> DEFINE r == [Idle EXCEPT !.op = op, !.id = i, !.meta = m, !.got = Cached(c, i)]
           k == CacheAfterLoad(r, cache[procOf[c]])
<1>1. /\ cache[procOf[c]] \in CacheType /\ Cached(c, i) \in Parsed
      /\ call \in [Call -> CallType]
  BY CacheIsHonest DEF StorageInv, Cached, CacheType
<1>2. r.id = i /\ r.op = op /\ r.got = Cached(c, i)
  BY DEF Idle
<1>3. k \in CacheType /\ \A j \in Id : k.entry[j] \in {NoFile, cache[procOf[c]].entry[j]}
  BY <1>1, <1>2, CacheDeleteFacts DEF CacheAfterLoad
<1>4. \/ /\ Cached(c, i) = NoFile /\ UNCHANGED cache
         /\ call' = [call EXCEPT ![c] = [r EXCEPT !.pc = "read"]]
      \/ /\ Cached(c, i) # NoFile /\ SetCache(c, k)
         /\ call' = [call EXCEPT ![c] = Loaded(r)]
  BY DEF Begin
<1>5. [r EXCEPT !.pc = "read"].got = Cached(c, i) /\ [r EXCEPT !.pc = "read"].pc = "read"
  BY DEF Idle
<1>6. /\ Loaded(r).got \in {NoFile, Cached(c, i)}
      /\ op = "load" => Loaded(r).got = Cached(c, i)
  <2>1. Loaded(r).got \in {NoFile, r.got}
    BY <1>1, <1>2, LoadedFits
  <2>2. op = "load" => Loaded(r).got = r.got
    BY <1>2 DEF Loaded, Ended, Idle
  <2> QED BY <1>2, <2>1, <2>2
<1>7. UNCHANGED <<sidecar, tmp, stored>>
  BY DEF Begin
<1> HIDE DEF r, k
<1>8. \A d \in Call, j \in Id : Cached(d, j)' \in {NoFile, Cached(d, j)}
  <2>1. CASE UNCHANGED cache
    BY <2>1 DEF Cached
  <2>2. CASE SetCache(c, k)
    <3>1. Takes(k, c, i, NoFile)
      BY <1>3 DEF Takes
    <3> QED BY <1>3, <2>2, <3>1, EntryFacts
  <2> QED BY <1>4, <2>1, <2>2
<1> QED BY <1>1, <1>4, <1>5, <1>6, <1>7, <1>8

\* What may happen to the bytes of an artifact and to what was promised.
Handles(c, i) ==
  LET stage == req[c].stage
  IN  /\ \A j \in Id \ {i} :
           stored'[j] = stored[j] /\ content'[j] = content[j] /\ promise'[j] = promise[j]
      /\ "bytes" \in stored'[i] => "bytes" \in stored[i] \/ stage = "creating"
      /\ "bytes" \in stored[i] => "bytes" \in stored'[i] \/ stage \in Removal
      /\ content[i].len = Size => content'[i] = content[i] \/ stage = "creating"
      /\ \/ promise'[i] \in {promise[i], "withdrawn"}
         \/ stage = "notifying" /\ promise[i] = "open" /\ promise'[i] = "acked"

LEMMA HandlerEndures ==
  ASSUME ServiceInv, ServiceInv', ServingInv, DurableInv, NEW c \in Call, InFlight(c),
         NEW i, i = req[c].id, req[c].stage # "reserving",
         UNCHANGED <<sidecar, tmp>>,
         \A d \in Call \ {c} : req'[d] = req[d] /\ call'[d] = call[d],
         \A d \in Call, j \in Id : Cached(d, j)' \in {NoFile, Cached(d, j)},
         Handles(c, i),
         InFlight(c)' =>
           /\ req'[c].id = i /\ req'[c].op = req[c].op /\ req'[c].meta = req[c].meta
           /\ req'[c].offset = req[c].offset
           /\ call'[c].got \in {NoFile, call[c].got, Cached(c, i)}
           /\ req'[c].stage = "marking" => call'[c].meta = Null,
         Carries(c, i)
  PROVE  DurableInv'
<1>1. i \in Id /\ On(c, i)
  BY DEF ServiceInv, ReqsOK, ReqOK, InFlight, On
<1>2. Elsewhere(c, i)
  BY DEF Elsewhere, Handles, SameCall
<1>3. ASSUME NEW m \in Meta, Claimed(i, m)' PROVE Claimed(i, m)
  <2>1. m # Null /\ NoFile.meta # m
    BY MetaFacts
  <2>2. \A d \in Call : Cached(d, i)'.meta = m => Cached(d, i).meta = m
    BY <1>1, <2>1
  <2>3. Told(i, m)' => Claimed(i, m)
    <3>1. SUFFICES ASSUME Told(i, m)', sidecar[i].meta # m PROVE Claimed(i, m)
      BY DEF Claimed, Told
    <3>2. PICK d \in Call :
            /\ On(d, i)'
            /\ \/ call'[d].got.meta = m
               \/ req'[d].stage = "marking" /\ call'[d].meta = m
               \/ /\ req'[d].op = "post" /\ req'[d].stage # "reserving"
                  /\ req'[d].meta = m
      BY <3>1 DEF Told
    <3>3. CASE d # c
      BY <3>2, <3>3 DEF Claimed, Told, On, InFlight
    <3>4. CASE d = c
      BY <1>1, <2>1, <3>2, <3>4 DEF Claimed, Told, On
    <3> QED BY <3>3, <3>4
  <2> QED BY <1>3, <2>2, <2>3 DEF Claimed
<1>4. Leaves(c, i)
  BY <1>1, <1>3 DEF Leaves, Handles
<1> QED BY <1>1, <1>2, <1>4, StepEndures

\* A request that is answered.
LEMMA EndEndures ==
  ASSUME ServiceInv, ServiceInv', ServingInv, DurableInv, NEW c \in Call, InFlight(c),
         NEW i, i = req[c].id, req[c].stage # "reserving", NEW out, NEW body,
         Respond(c, out, body), call' = [call EXCEPT ![c] = Idle],
         UNCHANGED <<sidecar, tmp, cache>>, Handles(c, i)
  PROVE  DurableInv'
<1>1. call \in [Call -> CallType] /\ req \in [Call -> ReqType]
  BY DEF ServiceInv, StorageInv, ReqsOK
<1>2. /\ \A d \in Call \ {c} : req'[d] = req[d] /\ call'[d] = call[d]
      /\ req'[c].stage \in {"idle", "answered"}
  BY <1>1 DEF Respond, NoReq
<1>3. ~InFlight(c)' /\ ~On(c, i)'
  BY <1>2 DEF InFlight, On
<1>4. Carries(c, i)
  BY <1>3 DEF Carries
<1>5. \A d \in Call, j \in Id : Cached(d, j)' = Cached(d, j)
  BY DEF Cached
<1> QED BY <1>2, <1>3, <1>4, <1>5, HandlerEndures

\* A request that goes on to another stage.
LEMMA MoveEndures ==
  ASSUME ServiceInv, ServiceInv', ServingInv, DurableInv, NEW c \in Call, InFlight(c),
         NEW i, i = req[c].id, req[c].stage # "reserving",
         NEW stage, Goto(c, stage), stage \notin {"idle", "answered", "reserving"},
         UNCHANGED <<sidecar, tmp>>,
         \A d \in Call \ {c} : call'[d] = call[d],
         \A d \in Call, j \in Id : Cached(d, j)' \in {NoFile, Cached(d, j)},
         call'[c].got \in {NoFile, call[c].got, Cached(c, i)},
         Handles(c, i),
         stage \in Removal => req[c].stage \in Removal \/ promise'[i] = "withdrawn",
         stage \in Stores => req[c].stage \in Stores \/ "bytes" \in stored'[i],
         stage \in Completing =>
           req[c].stage \in Completing \/ ("bytes" \in stored'[i] => content'[i].len = Size),
         stage \in Uploading =>
           \/ req[c].stage \in Uploading
           \/ /\ req[c].op \in {"post", "patch"}
              /\ \A d \in Call \ {c} : On(d, i) => req[d].stage \notin Uploading,
         stage = "finishing" => FindsWhatThereIs(c)',
         stage = "marking" => call'[c].meta = Null /\ Marks(c)',
         stage = "notifying" => Notifies(c)'
  PROVE  DurableInv'
<1>1. call \in [Call -> CallType] /\ req \in [Call -> ReqType]
  BY DEF ServiceInv, StorageInv, ReqsOK
<1>2. /\ \A d \in Call \ {c} : req'[d] = req[d]
      /\ req'[c].stage = stage /\ req'[c].op = req[c].op /\ req'[c].meta = req[c].meta
      /\ req'[c].offset = req[c].offset /\ req'[c].id = i
  BY <1>1 DEF Goto, ReqType
<1>3. Uploads(c)
  BY DEF DurableInv
<1>4. Uploads(c)' /\ Reserves(c)'
  BY <1>2, <1>3 DEF Uploads, Reserves, InFlight
<1>5. FindsWhatThereIs(c)' /\ Marks(c)' /\ Notifies(c)'
  BY <1>2 DEF FindsWhatThereIs, Marks, Notifies
<1>6. Carries(c, i)
  BY <1>2, <1>4, <1>5 DEF Carries
<1> QED BY <1>2, <1>6, HandlerEndures

\* Steps that change neither the bytes nor what is promised, or withdraw it.
LEMMA UnchangedHandles ==
  ASSUME ServiceInv, NEW c, NEW i, UNCHANGED <<stored, content>>,
         promise' = promise \/ promise' = [promise EXCEPT ![i] = "withdrawn"]
  PROVE  Handles(c, i) /\ \A j \in Id : promise'[j] \in {promise[j], "withdrawn"}
BY DEF Handles, ServiceInv, PromiseType

LEMMA AnswerEndures ==
  ASSUME ServiceInv, ServiceInv', ServingInv, DurableInv, NEW c \in Call, InFlight(c),
         req[c].stage # "reserving", NEW out, Answer(c, out), UNCHANGED promise
  PROVE  DurableInv'
<1>1. Handles(c, req[c].id)
  BY UnchangedHandles DEF Answer
<1> QED BY <1>1, EndEndures DEF Answer

LEMMA RefusalsEndure ==
  ASSUME ServiceInv, ServiceInv', ServingInv, DurableInv, NEW c \in Call,
         \/ Refused(c) \/ LockTimeout(c) \/ FileGone(c) \/ Rejected(c) \/ Removed(c)
         \/ HookFailed(c) \/ FailClosed(c) \/ StoreFails(c)
  PROVE  DurableInv'
<1>1. InFlight(c) /\ req[c].stage # "reserving"
  BY DEF Refused, LockTimeout, FileGone, Rejected, Removed, HookFailed, FailClosed,
     StoreFails, Returned, Succeeded, InFlight
<1> QED BY <1>1, AnswerEndures
        DEF Refused, LockTimeout, FileGone, Rejected, Removed, HookFailed, FailClosed,
            StoreFails

LEMMA StageSets ==
  /\ \A s \in {"locking", "sending", "resolving", "removing", "rejecting"} :
       s \notin Stores \cup Completing \cup Uploading
  /\ \A s \in {"unlinking", "unregistering"} : s \notin Stores \cup Completing \cup Uploading
  /\ \A s \in {"registering", "writing"} : s \in Stores /\ s \in Uploading /\ s \notin Completing
  /\ \A s \in Completing : s \in Stores /\ s \in Uploading /\ s \notin Removal
  /\ \A s \in {"locking", "creating", "registering", "writing", "sending", "resolving"} :
       s \notin Removal
  /\ "creating" \in Uploading /\ "creating" \notin Stores \cup Completing
BY DEF Stores, Completing, Uploading, Removal

LEMMA AuthorizedEndures ==
  ASSUME ServiceInv, ServiceInv', ServingInv, DurableInv, NEW c \in Call, NEW i,
         i = req[c].id, Authorized(c)
  PROVE  DurableInv'
<1>1. /\ InFlight(c) /\ req[c].stage = "authorizing" /\ i \in Id /\ StorageInv
      /\ promise \in PromiseType
  BY DEF Authorized, Returned, Succeeded, InFlight, ServiceInv, ReqsOK, ReqOK
<1>2. CASE req[c].op = "get" /\ Await(c, "resolve", "resolving") /\ UNCHANGED promise
  <2>1. /\ Begin(c, "resolve", i, Null) /\ Goto(c, "resolving") /\ UNCHANGED <<stored, content>>
    BY <1>2 DEF Await, Begin
  <2>2. Handles(c, i)
    BY <1>2, <2>1, UnchangedHandles
  <2> QED BY <1>1, <2>1, <2>2, BeginSays, StageSets, MoveEndures
<1>3. CASE /\ req[c].op = "delete" /\ Await(c, "remove", "removing")
           /\ Withdraw(req[c].id)
  <2>1. /\ Begin(c, "remove", i, Null) /\ Goto(c, "removing") /\ UNCHANGED <<stored, content>>
        /\ promise' = [promise EXCEPT ![i] = "withdrawn"]
    BY <1>3 DEF Await, Begin, Withdraw
  <2>2. Handles(c, i) /\ promise'[i] = "withdrawn"
    BY <1>1, <2>1, UnchangedHandles DEF PromiseType
  <2> QED BY <1>1, <2>1, <2>2, BeginSays, StageSets, MoveEndures
<1>4. CASE /\ req[c].op \in {"patch", "cancel"} /\ Goto(c, "locking")
           /\ UNCHANGED <<storageVars, content, promise>>
  <2>1. UNCHANGED <<sidecar, tmp, stored, cache, call, content, promise>>
    BY <1>4 DEF storageVars
  <2>2. Handles(c, i) /\ \A d \in Call, j \in Id : Cached(d, j)' = Cached(d, j)
    BY <2>1, UnchangedHandles DEF Cached
  <2> QED BY <1>1, <1>4, <2>1, <2>2, StageSets, MoveEndures
<1> QED BY <1>2, <1>3, <1>4 DEF Authorized

\* A PATCH that gets the lock finds nobody else uploading: who writes holds the lock,
\* who completes has all the bytes, and to ask for that again it must be alone.
LEMMA AcquireLockEndures ==
  ASSUME Sticky, Routed, Routed', ServiceInv, ServiceInv', ServingInv, DurableInv, NEW c \in Call,
         NEW i, i = req[c].id, AcquireLock(c)
  PROVE  DurableInv'
<1>1. /\ InFlight(c) /\ req[c].stage = "locking" /\ i \in Id /\ On(c, i) /\ LockFree(c)
      /\ promise \in PromiseType
  BY DEF AcquireLock, InFlight, ServiceInv, ReqsOK, ReqOK, On
<1>2. CASE Answer(c, "absent") /\ UNCHANGED promise
  BY <1>1, <1>2, AnswerEndures
<1>3. UNCHANGED <<storageVars, content>> =>
        /\ UNCHANGED <<sidecar, tmp, stored, cache, call, content>>
        /\ \A d \in Call, j \in Id : Cached(d, j)' = Cached(d, j)
  BY DEF storageVars, Cached
<1>4. CASE /\ req[c].op = "post" /\ Goto(c, "creating")
           /\ UNCHANGED <<storageVars, content, promise>>
  <2>1. Handles(c, i)
    BY <1>3, <1>4, UnchangedHandles
  <2>2. \A d \in Call \ {c} : On(d, i) => req[d].stage \notin Uploading
    <3>1. CreateInTime(c) /\ Pending(c)
      BY <1>1, <1>4 DEF Pending, ServingInv
    <3> QED BY <3>1 DEF CreateInTime, Early, Uploading, Completing
  <2> QED BY <1>1, <1>3, <1>4, <2>1, <2>2, StageSets, MoveEndures
<1>5. CASE /\ req[c].op = "patch" /\ stored[i] = StoreFile /\ content[i].len = req[c].offset
           /\ Goto(c, "writing") /\ UNCHANGED <<storageVars, content, promise>>
  <2>1. Handles(c, i) /\ "bytes" \in stored'[i]
    BY <1>3, <1>5, UnchangedHandles DEF StoreFile
  <2>2. ASSUME NEW d \in Call \ {c}, On(d, i), req[d].stage \in Uploading PROVE FALSE
    <3>1. req[d].stage \notin Holder /\ req[d].id = i
      BY <1>1, <2>2, OneHome DEF LockFree, On
    <3>2. req[d].stage \in Completing
      BY <2>2, <3>1 DEF Uploading, Holder
    <3>3. content[i].len = Size
      BY <1>5, <3>1, <3>2 DEF DurableInv, CompletesWhole, StoreFile
    <3>4. req[d].op \notin {"post", "patch"}
      BY <1>1, <1>5, <2>2, <3>3 DEF DurableInv, AsksAgainAlone
    <3> QED BY <2>2, <3>4 DEF DurableInv, Uploads
  <2> QED BY <1>1, <1>3, <1>5, <2>1, <2>2, StageSets, MoveEndures
<1>6. CASE /\ req[c].op = "cancel" /\ Goto(c, "unlinking")
           /\ Withdraw(i) /\ UNCHANGED <<storageVars, content>>
  <2>1. Handles(c, i) /\ promise'[i] = "withdrawn"
    BY <1>1, <1>3, <1>6, UnchangedHandles DEF Withdraw, PromiseType
  <2> QED BY <1>1, <1>3, <1>6, <2>1, StageSets, MoveEndures
<1> QED BY <1>2, <1>4, <1>5, <1>6 DEF AcquireLock

LEMMA CreateFileEndures ==
  ASSUME ServiceInv, ServiceInv', ServingInv, DurableInv, NEW c \in Call, NEW i,
         i = req[c].id, CreateFile(c)
  PROVE  DurableInv'
<1>1. /\ InFlight(c) /\ req[c].stage = "creating" /\ i \in Id /\ Goto(c, "registering")
      /\ stored \in [Id -> SUBSET StoreFile] /\ content \in [Id -> Body]
      /\ UNCHANGED <<sidecar, tmp, cache, call, promise>>
  BY DEF CreateFile, InFlight, ServiceInv, ReqsOK, ReqOK, StorageInv
<1>2. /\ \A j \in Id \ {i} : stored'[j] = stored[j] /\ content'[j] = content[j]
      /\ "bytes" \in stored'[i]
  BY <1>1 DEF CreateFile
<1>3. Handles(c, i) /\ \A d \in Call, j \in Id : Cached(d, j)' = Cached(d, j)
  BY <1>1, <1>2 DEF Handles, Cached
<1> QED BY <1>1, <1>2, <1>3, StageSets, MoveEndures

LEMMA CreateInfoEndures ==
  ASSUME ServiceInv, ServiceInv', ServingInv, DurableInv, NEW c \in Call, NEW i,
         i = req[c].id, CreateInfo(c)
  PROVE  DurableInv'
<1>1. /\ InFlight(c) /\ req[c].stage = "registering" /\ i \in Id
      /\ stored \in [Id -> SUBSET StoreFile]
      /\ UNCHANGED <<sidecar, tmp, cache, content, promise>>
  BY DEF CreateInfo, InFlight, ServiceInv, ReqsOK, ReqOK, StorageInv
<1>2. Handles(c, i) /\ \A d \in Call, j \in Id : Cached(d, j)' = Cached(d, j)
  BY <1>1 DEF CreateInfo, Handles, Cached
<1>3. CASE Respond(c, "created", NoBody) /\ call' = [call EXCEPT ![c] = Idle]
  BY <1>1, <1>2, <1>3, EndEndures
<1>4. CASE Goto(c, "writing") /\ UNCHANGED call
  BY <1>1, <1>2, <1>4, StageSets, MoveEndures
<1> QED BY <1>3, <1>4 DEF CreateInfo

LEMMA ReceiveEndures ==
  ASSUME ServiceInv, ServiceInv', ServingInv, DurableInv, NEW c \in Call, NEW i,
         i = req[c].id, Receive(c)
  PROVE  DurableInv'
<1>1. /\ InFlight(c) /\ req[c].stage = "writing" /\ i \in Id /\ content \in [Id -> Body]
      /\ StorageInv /\ UNCHANGED <<stored, promise>>
  BY DEF Receive, Begin, InFlight, ServiceInv, ReqsOK, ReqOK
<1>2. PICK n \in 0..Size :
        /\ n >= content[i].len
        /\ content' = IF "bytes" \in stored[i]
                      THEN [content EXCEPT ![i].len = n] ELSE content
        /\ \/ /\ n = Size /\ Begin(c, "load", i, Null) /\ Goto(c, "finishing")
           \/ /\ Respond(c, "partial", NoBody) /\ call' = [call EXCEPT ![c] = Idle]
              /\ UNCHANGED <<sidecar, tmp, cache>>
  BY DEF Receive
<1>3. Handles(c, i)
  <2>1. \A j \in Id \ {i} : content'[j] = content[j]
    BY <1>1, <1>2
  <2>2. content[i].len = Size => content'[i] = content[i]
    BY <1>1, <1>2, SizeAssumption DEF Body
  <2> QED BY <1>1, <2>1, <2>2 DEF Handles
<1>4. CASE n = Size /\ Begin(c, "load", i, Null) /\ Goto(c, "finishing")
  <2>1. "bytes" \in stored[i] => content'[i].len = Size
    BY <1>1, <1>2, <1>4 DEF Body
  <2>2. /\ \A d \in Call \ {c} : call'[d] = call[d]
        /\ \A d \in Call, j \in Id : Cached(d, j)' \in {NoFile, Cached(d, j)}
        /\ call'[c].got \in {NoFile, Cached(c, i)} /\ UNCHANGED <<sidecar, tmp>>
        /\ call'[c].pc # "read" => call'[c].got # NoFile
    BY <1>1, <1>4, BeginSays
  <2>3. FindsWhatThereIs(c)'
    BY <2>2 DEF FindsWhatThereIs
  <2> QED BY <1>1, <1>3, <1>4, <2>1, <2>2, <2>3, StageSets, MoveEndures
          DEF Removal
<1>5. CASE /\ Respond(c, "partial", NoBody) /\ call' = [call EXCEPT ![c] = Idle]
           /\ UNCHANGED <<sidecar, tmp, cache>>
  BY <1>1, <1>3, <1>5, EndEndures
<1> QED BY <1>2, <1>4, <1>5

LEMMA UnlinkEndures ==
  ASSUME ServiceInv, ServiceInv', ServingInv, DurableInv, NEW c \in Call, NEW i,
         i = req[c].id, Unlink(c) \/ Unregister(c)
  PROVE  DurableInv'
<1>1. /\ InFlight(c) /\ req[c].stage \in {"unlinking", "unregistering"} /\ i \in Id
      /\ req[c].stage \in Removal /\ stored \in [Id -> SUBSET StoreFile]
      /\ UNCHANGED <<sidecar, tmp, cache, content, promise>>
  BY DEF Unlink, Unregister, Removal, InFlight, ServiceInv, StorageInv, ReqsOK, ReqOK
<1>2. Handles(c, i) /\ \A d \in Call, j \in Id : Cached(d, j)' = Cached(d, j)
  BY <1>1 DEF Unlink, Unregister, Handles, Cached
<1>3. CASE Unlink(c)
  BY <1>1, <1>2, <1>3, StageSets, MoveEndures DEF Unlink
<1>4. CASE Unregister(c)
  BY <1>1, <1>2, <1>4, EndEndures DEF Unregister
<1> QED BY <1>3, <1>4

\* What the validators passed is what the sidecar says is there.
LEMMA AcceptChecks ==
  ASSUME ServiceInv, ServingInv, DurableInv, NEW c \in Call, NEW i, i = req[c].id,
         Accept(c), sidecar[i].meta # Null
  PROVE  Checked(i, sidecar[i].meta)
<1> DEFINE m == sidecar[i].meta
<1>1. /\ InFlight(c) /\ On(c, i) /\ i \in Id /\ req[c].stage = "finishing"
      /\ call[c].pc = "done" /\ Validated(c)
      /\ call[c].got \in Parsed /\ call[c].op = "load" /\ call[c] \in CallType
  BY AwaitedFacts
     DEF Accept, Returned, Succeeded, InFlight, On, Running, ServiceInv, ReqsOK, ReqOK, StorageInv,
         CallType, ServingInv, Linked
<1>2. m \in Meta
  BY <1>1, MetaFacts DEF ServiceInv, StorageInv
<1>3. SUFFICES ASSUME "bytes" \in stored[i], "checksum" \in Wired, Checkable(ChecksumOf(m))
               PROVE  DigestIs(content[i], m)
  BY DEF Checked
<1>4. /\ claim \in [Meta -> Claim] /\ ChecksumOf(m) = claim[m] /\ claim[m] # "none"
      /\ ChecksumOf(Null) = "none"
  BY <1>2, <1>3, UploadAssumption, MetaFacts DEF ChecksumOf, Checkable
<1>5. ASSUME NEW n \in Meta, Claimed(i, n) PROVE n = m
  <2>1. \A d \in Call : ~Committing(d, i)
    <3>1. SUFFICES ASSUME NEW d \in Call, Committing(d, i) PROVE FALSE
      OBVIOUS
    <3>2. d # c
      BY <1>1, <3>1 DEF Committing
    <3>3. Early(c)
      BY <1>1, <3>1, <3>2, EarlyFacts DEF Committing
    <3> QED BY <1>1, <3>3 DEF Early
  <2>2. Claimed(i, m)
    BY DEF Claimed, Told
  <2> QED BY <1>1, <1>2, <1>5, <2>1, <2>2 DEF DurableInv, OneUpload
<1>6. Sent(c) = m
  <2>1. CASE ChecksumOf(req[c].meta) # "none"
    <3>1. req[c].op = "post" /\ req[c].meta \in Meta
      <4>1. req[c].meta \in Meta \cup {Null}
        BY DEF ServiceInv, ReqsOK, ReqType
      <4> QED BY <1>1, <1>4, <2>1, <4>1 DEF DurableInv, Uploads
    <3>2. Claimed(i, req[c].meta)
      BY <1>1, <3>1 DEF Claimed, Told
    <3> QED BY <1>5, <2>1, <3>1, <3>2 DEF Sent
  <2>2. CASE ChecksumOf(req[c].meta) = "none"
    <3>1. Sent(c) = call[c].got.meta
      BY <2>2 DEF Sent
    <3>2. CASE call[c].got # NoFile
      <4>1. call[c].got.meta \in Meta
        BY <1>1, <3>2, ParsedFacts
      <4>2. Claimed(i, call[c].got.meta)
        BY <1>1 DEF Claimed, Told
      <4> QED BY <1>5, <3>1, <4>1, <4>2
    <3>3. CASE call[c].got = NoFile
      <4>1. CASE req[c].op = "patch"
        BY <1>1, <1>2, <3>3, <4>1, MetaFacts DEF DurableInv, FindsWhatThereIs
      <4>2. CASE req[c].op # "patch"
        <5>1. req[c].op = "post" /\ req[c].meta \in Meta
          BY <1>1, <4>2 DEF DurableInv, Uploads, Uploading, Completing
        <5>2. Claimed(i, req[c].meta)
          BY <1>1, <5>1 DEF Claimed, Told
        <5> QED BY <1>4, <1>5, <2>2, <5>1, <5>2
      <4> QED BY <4>1, <4>2
    <3> QED BY <3>2, <3>3
  <2> QED BY <2>1, <2>2
<1>7. ChecksumPasses(m, call[c].got # NoFile, Bytes(i))
  BY <1>1, <1>3, <1>6 DEF Validated, Passes
<1> QED BY <1>3, <1>7 DEF ChecksumPasses, Bytes

\* What a writer's first turn does.
LEMMA BeginWrites ==
  ASSUME StorageInv, NEW c \in Call, NEW i \in Id, NEW op \in {"reserve", "markReady"},
         NEW m, Begin(c, op, i, m)
  PROVE  /\ UNCHANGED <<sidecar, tmp, stored, cache>>
         /\ \A d \in Call \ {c} : call'[d] = call[d]
         /\ \A d \in Call, j \in Id : Cached(d, j)' = Cached(d, j)
         /\ call'[c].got = NoFile /\ call'[c].meta = m
         /\ call'[c].pc = IF op = "reserve" THEN "open" ELSE "read"
<1> DEFINE started == [Idle EXCEPT !.op = op, !.id = i, !.meta = m, !.got = Cached(c, i)]
           r == [started EXCEPT !.got = NoFile,
                   !.pc = IF op = "reserve" THEN "open" ELSE "read"]
<1>1. /\ UNCHANGED <<sidecar, tmp, stored, cache>> /\ call'[c] = r
      /\ \A d \in Call \ {c} : call'[d] = call[d]
  BY DEF Begin, StorageInv
<1>2. r.got = NoFile /\ r.meta = m /\ r.pc = IF op = "reserve" THEN "open" ELSE "read"
  BY DEF Idle
<1> QED BY <1>1, <1>2 DEF Cached

LEMMA AcceptEndures ==
  ASSUME ServiceInv, ServiceInv', ServingInv, DurableInv, NEW c \in Call, NEW i,
         i = req[c].id, Accept(c)
  PROVE  DurableInv'
<1>1. /\ InFlight(c) /\ req[c].stage = "finishing" /\ i \in Id /\ StorageInv
      /\ Begin(c, "markReady", i, Null) /\ Goto(c, "marking")
      /\ UNCHANGED <<stored, content, promise>>
  BY DEF Accept, Returned, Succeeded, Await, Begin, InFlight, ServiceInv, ReqsOK, ReqOK
<1>2. Handles(c, i)
  BY <1>1, UnchangedHandles
<1>3. /\ UNCHANGED <<sidecar, tmp, cache>> /\ \A d \in Call \ {c} : call'[d] = call[d]
      /\ \A d \in Call, j \in Id : Cached(d, j)' = Cached(d, j)
      /\ call'[c].got = NoFile /\ call'[c].meta = Null /\ call'[c].pc = "read"
  BY <1>1, BeginWrites
<1>4. req'[c].id = i
  BY <1>1 DEF Goto, ServiceInv, ReqsOK, ReqType
<1>5. sidecar[i].meta # Null => Checked(i, sidecar[i].meta)
  BY AcceptChecks
<1>6. NoFile.meta = Null /\ NoFile.state # "ready"
  BY MetaFacts, ParsedFacts
<1>7. ASSUME NEW m, Checked(i, m) PROVE Checked(i, m)'
  BY <1>1, <1>7 DEF Checked
<1>8. Marks(c)'
  BY <1>3, <1>4, <1>5, <1>6, <1>7 DEF Marks, Drafts
<1> QED BY <1>1, <1>2, <1>3, <1>8, StageSets, MoveEndures DEF Completing

LEMMA RejectEndures ==
  ASSUME ServiceInv, ServiceInv', ServingInv, DurableInv, NEW c \in Call, NEW i,
         i = req[c].id, Reject(c)
  PROVE  DurableInv'
<1>1. /\ InFlight(c) /\ req[c].stage = "finishing" /\ i \in Id /\ StorageInv
      /\ Begin(c, "remove", i, Null) /\ Goto(c, "rejecting")
      /\ UNCHANGED <<stored, content>> /\ promise \in PromiseType
      /\ promise' = [promise EXCEPT ![i] = "withdrawn"]
  BY DEF Reject, Returned, Await, Begin, Withdraw, InFlight, ServiceInv, ReqsOK, ReqOK
<1>2. Handles(c, i) /\ promise'[i] = "withdrawn"
  BY <1>1, UnchangedHandles DEF PromiseType
<1> QED BY <1>1, <1>2, BeginSays, StageSets, MoveEndures

LEMMA MarkedReadyEndures ==
  ASSUME ServiceInv, ServiceInv', ServingInv, DurableInv, NEW c \in Call, NEW i,
         i = req[c].id, MarkedReady(c)
  PROVE  DurableInv'
<1>1. InFlight(c) /\ req[c].stage = "marking" /\ i \in Id
  BY DEF MarkedReady, Returned, InFlight, ServiceInv, ReqsOK, ReqOK
<1>2. CASE /\ call[c].pc = "done" /\ Goto(c, "notifying")
           /\ UNCHANGED <<storageVars, content, promise>>
  <2>1. UNCHANGED <<sidecar, tmp, stored, cache, call, content, promise>>
    BY <1>2 DEF storageVars
  <2>2. Handles(c, i) /\ \A d \in Call, j \in Id : Cached(d, j)' = Cached(d, j)
    BY <2>1, UnchangedHandles DEF Cached
  <2>3. Live(i) => sidecar[i].state = "ready"
    BY <1>1, <1>2 DEF DurableInv, Marks
  <2>4. req'[c].id = i
    BY <1>2 DEF Goto, ServiceInv, ReqsOK, ReqType
  <2>5. Notifies(c)'
    BY <2>1, <2>3, <2>4 DEF Notifies, Live
  <2> QED BY <1>1, <1>2, <2>1, <2>2, <2>5, StageSets, MoveEndures DEF Completing
<1>3. CASE Answer(c, "failed") /\ UNCHANGED promise
  BY <1>1, <1>3, AnswerEndures
<1> QED BY <1>2, <1>3 DEF MarkedReady

LEMMA HookDoneEndures ==
  ASSUME ServiceInv, ServiceInv', ServingInv, DurableInv, NEW c \in Call, NEW i,
         i = req[c].id, HookDone(c)
  PROVE  DurableInv'
<1>1. /\ InFlight(c) /\ req[c].stage = "notifying" /\ i \in Id
      /\ Respond(c, "complete", NoBody) /\ call' = [call EXCEPT ![c] = Idle]
      /\ UNCHANGED <<sidecar, tmp, stored, cache, content>> /\ promise \in PromiseType
      /\ promise' = [promise EXCEPT ![i] = IF @ = "open" THEN "acked" ELSE @]
  BY DEF HookDone, Answer, InFlight, ServiceInv, ReqsOK, ReqOK
<1>2. Handles(c, i)
  BY <1>1 DEF Handles, PromiseType
<1> QED BY <1>1, <1>2, EndEndures

LEMMA ResolvedEndures ==
  ASSUME ServiceInv, ServiceInv', ServingInv, DurableInv, NEW c \in Call, NEW i,
         i = req[c].id, Resolved(c) \/ Send(c)
  PROVE  DurableInv'
<1>1. InFlight(c) /\ req[c].stage \in {"resolving", "sending"} /\ i \in Id
  BY DEF Resolved, Send, Returned, Succeeded, InFlight, ServiceInv, ReqsOK, ReqOK
<1>2. CASE Answer(c, "absent") /\ UNCHANGED promise
  BY <1>1, <1>2, AnswerEndures
<1>3. CASE Goto(c, "sending") /\ UNCHANGED <<storageVars, content, promise>>
  <2>1. UNCHANGED <<sidecar, tmp, stored, cache, call, content, promise>>
    BY <1>3 DEF storageVars
  <2>2. Handles(c, i) /\ \A d \in Call, j \in Id : Cached(d, j)' = Cached(d, j)
    BY <2>1, UnchangedHandles DEF Cached
  <2> QED BY <1>1, <1>3, <2>1, <2>2, StageSets, MoveEndures
<1>4. CASE Send(c)
  <2>1. UNCHANGED <<sidecar, tmp, stored, cache, content, promise>>
    BY <1>4 DEF Send
  <2>2. Handles(c, i)
    BY <2>1, UnchangedHandles
  <2> QED BY <1>1, <1>4, <2>1, <2>2, EndEndures DEF Send
<1> QED BY <1>2, <1>3, <1>4 DEF Resolved

\* The reservation is made: one upload is known, that of the create.
LEMMA ReservedEndures ==
  ASSUME ServiceInv, ServiceInv', ServingInv, DurableInv, NEW c \in Call, NEW i,
         i = req[c].id, Reserved(c)
  PROVE  DurableInv'
<1>1. /\ InFlight(c) /\ On(c, i) /\ req[c].stage = "reserving" /\ i \in Id
      /\ req[c].op = "post" /\ promise \in PromiseType /\ req \in [Call -> ReqType]
      /\ call \in [Call -> CallType] /\ ~Running(c)
  BY DEF Reserved, Returned, InFlight, On, ServiceInv, ReqsOK, ReqOK, StorageInv
<1>2. /\ UNCHANGED <<sidecar, tmp, stored, cache, content>>
      /\ \A d \in Call \ {c} : req'[d] = req[d] /\ call'[d] = call[d]
      /\ \A d \in Call, j \in Id : Cached(d, j)' = Cached(d, j)
      /\ \A j \in Id \ {i} : promise'[j] = promise[j]
      /\ \/ /\ call[c].pc = "done" /\ call'[c] = call[c]
            /\ req'[c] = [req[c] EXCEPT !.stage = "locking"]
            /\ promise'[i] = IF \E d \in Call : On(d, i) /\ req[d].stage \in Removal
                             THEN "withdrawn" ELSE "open"
         \/ /\ call[c].pc # "done" /\ req'[c].stage \in {"idle", "answered"}
            /\ promise'[i] = IF promise[i] = "fresh" THEN "withdrawn" ELSE promise[i]
  <2>1. CASE call[c].pc = "done"
    BY <1>1, <2>1 DEF Reserved, Goto, storageVars, PromiseType, Cached
  <2>2. CASE call[c].pc # "done"
    <3>1. /\ Answer(c, call[c].pc)
          /\ promise' = [promise EXCEPT ![i] = IF @ = "fresh" THEN "withdrawn" ELSE @]
      BY <2>2 DEF Reserved
    <3>2. req'[c].stage \in {"idle", "answered"} /\ \A d \in Call \ {c} : req'[d] = req[d]
      BY <1>1, <3>1 DEF Answer, Respond, NoReq
    <3> QED BY <1>1, <2>2, <3>1, <3>2 DEF Answer, PromiseType, Cached
  <2> QED BY <2>1, <2>2
<1>3. InFlight(c)' =>
        /\ call[c].pc = "done" /\ req'[c].stage = "locking" /\ req'[c].id = i
        /\ req'[c].op = req[c].op /\ req'[c].meta = req[c].meta
        /\ req'[c].offset = req[c].offset /\ call'[c] = call[c]
  <2>1. [req[c] EXCEPT !.stage = "locking"].stage = "locking"
    BY <1>1 DEF ReqType
  <2> QED BY <1>1, <1>2, <2>1 DEF InFlight, ReqType
<1>4. Elsewhere(c, i)
  BY <1>1, <1>2, <1>3 DEF Elsewhere, SameCall
<1>5. Leaves(c, i)
  BY <1>1, <1>2, <1>3 DEF Leaves
<1>6. Carries(c, i)
  <2>1. SUFFICES ASSUME InFlight(c)' PROVE Carries(c, i)
    BY DEF Carries, On
  <2>2. Uploads(c)'
    BY <1>1, <1>3, <2>1 DEF DurableInv, Uploads, InFlight, Uploading, Completing
  <2> QED BY <1>3, <2>1, <2>2, StageSets
      DEF Carries, Reserves, FindsWhatThereIs, Marks, Notifies, Completing
<1>7. Reserves(c) /\ Durable(i)
  BY <1>1, DurableIs DEF DurableInv, DurableSplit
<1>8. Settles(i)
  <2>1. ASSUME NEW m \in Meta, Claimed(i, m)'
        PROVE  \/ Claimed(i, m)
               \/ m = req[c].meta /\ InFlight(c)'
    BY <1>1, <1>2, <1>3, <2>1 DEF Claimed, Told, On, InFlight
  <2>2. ReadyIsChecked(i)'
    BY <1>2, <1>7 DEF ReadyIsChecked, Checked, Durable
  <2>3. AckedIsReady(i)'
    BY <1>2, <1>7 DEF AckedIsReady, Durable
  <2>4. CASE InFlight(c)'
    <3>1. \A m \in Meta : Claimed(i, m)' => m = req[c].meta
      BY <1>1, <1>3, <1>7, <2>1, <2>4 DEF Reserves
    <3>2. promise'[i] # "fresh"
      BY <1>2, <1>3, <2>4 DEF InFlight
    <3> QED BY <2>2, <2>3, <3>1, <3>2 DEF Settles, OneUpload, FreshIsUnheardOf
  <2>5. CASE ~InFlight(c)'
    <3>1. promise'[i] # "fresh" /\ call[c].pc # "done"
      <4>1. [req[c] EXCEPT !.stage = "locking"].stage = "locking"
        BY <1>1 DEF ReqType
      <4> QED BY <1>2, <2>5, <4>1 DEF InFlight
    <3>2. ~Committing(c, i)
      BY <1>1 DEF Running, Committing
    <3>3. OneUpload(i)'
      BY <1>2, <1>7, <2>1, <2>5, <3>2 DEF Durable, OneUpload, Committing, On, InFlight
    <3> QED BY <2>2, <2>3, <3>1, <3>2, <3>3 DEF Settles, FreshIsUnheardOf
  <2> QED BY <2>4, <2>5
<1> QED BY <1>1, <1>4, <1>5, <1>6, <1>8, StepEndures

LEMMA HandlerKeepsDurable ==
  ASSUME Sticky, Routed, Routed', ServiceInv, ServiceInv', ServingInv, DurableInv, NEW c \in Call,
         Handler(c)
  PROVE  DurableInv'
<1>1. PICK i : i = req[c].id
  OBVIOUS
<1> QED
  BY <1>1, RefusalsEndure, AuthorizedEndures, ReservedEndures, AcquireLockEndures,
     CreateFileEndures, CreateInfoEndures, ReceiveEndures, UnlinkEndures, AcceptEndures,
     RejectEndures, MarkedReadyEndures, HookDoneEndures, ResolvedEndures
     DEF Handler

-----------------------------------------------------------------------------
(* A request arrives.                                                      *)

\* What the rules for clients say of a request, when they are to run no race.
Admitted(op, i, m, offset) ==
  /\ IF op = "post" THEN m \in Meta /\ \A d \in Call : ~On(d, i)
     ELSE /\ m = Null
          /\ promise[i] = "fresh" \/ \A d \in Call : On(d, i) => req[d].op # "post"
  /\ op = "patch" =>
       /\ offset = content[i].len
       /\ \/ content[i].len # Size
          \/ \A d \in Call : On(d, i) => req[d].op \notin {"post", "patch"}

\* What an arrival does to its artifact.
LEMMA ArriveSays ==
  ASSUME ServiceInv, NEW c \in Call, NEW i \in Id, NEW m \in Meta \cup {Null}, NEW offset,
         NEW op \in {"post", "patch", "get", "delete", "cancel"},
         Arrive(c, op, i, m, offset)
  PROVE  /\ UNCHANGED <<sidecar, tmp, stored, content, promise>> /\ ~InFlight(c)
         /\ \A d \in Call \ {c} : req'[d] = req[d] /\ call'[d] = call[d]
         /\ \A d \in Call, j \in Id : Cached(d, j)' \in {NoFile, Cached(d, j)}
         /\ req'[c].id = i /\ req'[c].op = op /\ req'[c].meta = m
         /\ req'[c].offset = offset
         /\ req'[c].stage = IF op = "post" THEN "reserving" ELSE "authorizing"
         /\ call'[c].got \in {NoFile, Cached(c, i)}
         /\ op = "post" => /\ call'[c].got = NoFile /\ call'[c].meta = m
                           /\ call'[c].pc = "open"
<1> DEFINE stage == IF op = "post" THEN "reserving" ELSE "authorizing"
           method == IF op = "post" THEN "reserve" ELSE "load"
           r == [NoReq EXCEPT !.op = op, !.id = i, !.meta = m, !.offset = offset,
                              !.stage = stage]
<1>1. /\ StorageInv /\ ~InFlight(c) /\ Begin(c, method, i, m)
      /\ UNCHANGED <<content, promise>> /\ req' = [req EXCEPT ![c] = r]
      /\ req \in [Call -> ReqType]
  BY DEF Arrive, ServiceInv, ReqsOK
<1>2. /\ r.op = op /\ r.id = i /\ r.stage = stage /\ r.meta = m /\ r.offset = offset
  BY DEF NoReq
<1> HIDE DEF r
<1>3. req'[c] = r /\ \A d \in Call \ {c} : req'[d] = req[d]
  BY <1>1
<1>4. CASE op = "post"
  BY <1>1, <1>2, <1>3, <1>4, BeginWrites
<1>5. CASE op # "post"
  BY <1>1, <1>2, <1>3, <1>5, BeginSays
<1> QED BY <1>4, <1>5

LEMMA ArriveEndures ==
  ASSUME ServiceInv, ServiceInv', ServingInv, DurableInv, NEW c \in Call,
         NEW i \in Id, NEW m \in Meta \cup {Null}, NEW offset,
         NEW op \in {"post", "patch", "get", "delete", "cancel"},
         Arrive(c, op, i, m, offset), Admitted(op, i, m, offset)
  PROVE  DurableInv'
<1>1. /\ UNCHANGED <<sidecar, tmp, stored, content, promise>> /\ ~InFlight(c)
      /\ \A d \in Call \ {c} : req'[d] = req[d] /\ call'[d] = call[d]
      /\ \A d \in Call, j \in Id : Cached(d, j)' \in {NoFile, Cached(d, j)}
      /\ req'[c].id = i /\ req'[c].op = op /\ req'[c].meta = m /\ req'[c].offset = offset
      /\ req'[c].stage = IF op = "post" THEN "reserving" ELSE "authorizing"
      /\ call'[c].got \in {NoFile, Cached(c, i)}
      /\ op = "post" => /\ call'[c].got = NoFile /\ call'[c].meta = m
                        /\ call'[c].pc = "open"
  BY ArriveSays
<1>2. Elsewhere(c, i)
  BY <1>1 DEF Elsewhere, SameCall
<1>3. Durable(i)
  BY DurableIs DEF DurableSplit
<1>4. ASSUME NEW n \in Meta, Claimed(i, n)' PROVE Claimed(i, n)
  <2>1. n # Null /\ NoFile.meta # n
    BY MetaFacts
  <2>2. \A d \in Call : Cached(d, i)'.meta = n => Cached(d, i).meta = n
    BY <1>1, <2>1
  <2>3. Told(i, n)' => Claimed(i, n)
    <3>1. SUFFICES ASSUME Told(i, n)', sidecar[i].meta # n PROVE Claimed(i, n)
      BY DEF Claimed, Told
    <3>2. PICK d \in Call :
            /\ On(d, i)'
            /\ \/ call'[d].got.meta = n
               \/ req'[d].stage = "marking" /\ call'[d].meta = n
               \/ /\ req'[d].op = "post" /\ req'[d].stage # "reserving"
                  /\ req'[d].meta = n
      BY <1>1, <3>1 DEF Told
    <3>3. CASE d # c
      BY <1>1, <3>2, <3>3 DEF Claimed, Told, On, InFlight
    <3>4. CASE d = c
      BY <1>1, <2>1, <3>2, <3>4 DEF Claimed
    <3> QED BY <3>3, <3>4
  <2> QED BY <1>4, <2>2, <2>3 DEF Claimed
<1>5. /\ \A n : Checked(i, n)' <=> Checked(i, n)
      /\ Live(i)' <=> Live(i)
  BY <1>1 DEF Checked, Live
<1>6. ASSUME NEW d \in Call \ {c}, On(d, i)' PROVE Upholds(d)'
  <2>1. /\ On(d, i) /\ req'[d] = req[d] /\ call'[d] = call[d] /\ Upholds(d)
        /\ req[d].id = i /\ InFlight(d)
    BY <1>1, <1>3, <1>6 DEF On, InFlight, Durable
  <2>2. /\ Uploads(d)' /\ CompletesWhole(d)' /\ RemovesWithdrawn(d)' /\ KeepsBytes(d)'
        /\ FindsWhatThereIs(d)' /\ Notifies(d)'
    BY <1>1, <1>5, <2>1 DEF Upholds, Uploads, CompletesWhole, RemovesWithdrawn, KeepsBytes,
       FindsWhatThereIs, Notifies, InFlight
  <2>3. Marks(d)'
    BY <1>1, <1>5, <2>1 DEF Upholds, Marks
  <2>4. AsksAgainAlone(d)'
    <3>1. SUFFICES ASSUME req[d].op = "patch", req[d].offset = Size
                   PROVE  AsksAgainAlone(d)'
      BY <2>1 DEF AsksAgainAlone
    <3>2. /\ content[i].len = Size
          /\ \A e \in Call \ {d} : On(e, i) => req[e].op \notin {"post", "patch"}
      BY <2>1, <3>1 DEF Upholds, AsksAgainAlone
    <3>3. op \notin {"post", "patch"}
      BY <2>1, <3>1, <3>2 DEF Admitted
    <3> QED BY <1>1, <2>1, <3>2, <3>3 DEF AsksAgainAlone, On, InFlight
  <2>5. Reserves(d)'
    <3>1. SUFFICES ASSUME req[d].stage = "reserving", Reserves(d)
                   PROVE  Reserves(d)'
      BY <2>1 DEF Reserves, Upholds
    <3>2. promise[i] = "fresh"
      BY <2>1, <3>1 DEF Admitted, ServiceInv, ReqsOK, ReqOK
    <3>3. \A n \in Meta : Claimed(i, n)' => n = req[d].meta
      BY <1>4, <2>1, <3>1, <3>2 DEF Reserves
    <3>4. \A n \in Meta : Told(i, n)' => n = req[d].meta
      BY <3>3 DEF Claimed
    <3> QED BY <1>1, <2>1, <3>1, <3>3, <3>4 DEF Reserves, Running
  <2> QED BY <2>2, <2>3, <2>4, <2>5 DEF Upholds
<1>7. Upholds(c)'
  <2>1. /\ Uploads(c)' /\ CompletesWhole(c)' /\ RemovesWithdrawn(c)' /\ KeepsBytes(c)'
        /\ FindsWhatThereIs(c)' /\ Marks(c)' /\ Notifies(c)'
    BY <1>1, MetaFacts DEF Admitted, Uploads, CompletesWhole, RemovesWithdrawn, KeepsBytes,
       FindsWhatThereIs, Marks, Notifies, Uploading, Completing, Removal, InFlight
  <2>2. AsksAgainAlone(c)'
    BY <1>1 DEF Admitted, AsksAgainAlone, On, InFlight
  <2>3. Reserves(c)'
    <3>1. SUFFICES ASSUME op = "post" PROVE Reserves(c)'
      BY <1>1 DEF Reserves
    <3>2. /\ \A d \in Call \ {c} : ~On(d, i)'
          /\ \A d \in Call : ~On(d, i)
      BY <1>1, <3>1 DEF Admitted, On, InFlight
    <3>3. promise[i] = "fresh" => sidecar[i] = NoFile /\ \A n \in Meta : ~Claimed(i, n)
      BY <1>3, <3>2 DEF Durable, FreshIsUnheardOf
    <3> QED BY <1>1, <1>4, <3>1, <3>2, <3>3 DEF Reserves, Drafts
  <2> QED BY <2>1, <2>2, <2>3 DEF Upholds
<1>8. OneUpload(i)'
  <2>1. \A d \in Call : Committing(d, i) => Committing(d, i)'
    BY <1>1 DEF Committing, On, InFlight
  <2> QED BY <1>3, <1>4, <2>1 DEF Durable, OneUpload
<1>9. FreshIsUnheardOf(i)'
  <2>1. (\A d \in Call : On(d, i)' => req'[d].op # "post")
          => \A d \in Call : On(d, i) => req[d].op # "post"
    BY <1>1 DEF On, InFlight
  <2> QED BY <1>1, <1>3, <1>4, <2>1 DEF Durable, FreshIsUnheardOf
<1>10. OneUploader(i)'
  BY <1>1, <1>3 DEF Durable, OneUploader, On, InFlight, Uploading, Completing
<1>11. ReadyIsChecked(i)' /\ AckedIsReady(i)'
  BY <1>1, <1>3, <1>5 DEF Durable, ReadyIsChecked, AckedIsReady, Checked
<1>12. Durable(i)'
  BY <1>6, <1>7, <1>8, <1>9, <1>10, <1>11 DEF Durable
<1> QED BY <1>2, <1>12, ElsewhereEndures

LEMMA ClientKeepsDurable ==
  ASSUME Races = {}, ServiceInv, ServiceInv', ServingInv, DurableInv, NEW c \in Call,
         Client(c)
  PROVE  DurableInv'
<1>1. PICK i \in Id : \/ \E m \in Meta : Post(c, i, m)
                      \/ Patch(c, i) \/ Get(c, i) \/ Delete(c, i) \/ Cancel(c, i)
  BY DEF Client
<1>2. \A op, d : CreatesAlone(op, i) =>
        IF op = "post" THEN \A e \in Call : ~On(e, i)
        ELSE promise[i] = "fresh" \/ \A e \in Call : On(e, i) => req[e].op # "post"
  BY DEF CreatesAlone
<1>3. CASE \E m \in Meta : Post(c, i, m)
  <2>1. PICK m \in Meta : Arrive(c, "post", i, m, 0)
    BY <1>3 DEF Post
  <2>2. Admitted("post", i, m, 0)
    BY <1>2, <2>1 DEF Admitted, Arrive
  <2> QED BY <2>1, <2>2, ArriveEndures
<1>4. CASE Patch(c, i)
  <2>1. Arrive(c, "patch", i, Null, content[i].len)
    BY <1>4 DEF Patch
  <2>2. \/ content[i].len # Size
        \/ \A d \in Call : On(d, i) => req[d].op \notin {"post", "patch"}
    BY <1>4, SizeAssumption DEF Patch, ServiceInv, Body
  <2>3. Admitted("patch", i, Null, content[i].len)
    BY <1>2, <2>1, <2>2 DEF Admitted, Arrive
  <2> QED BY <2>1, <2>3, ArriveEndures
<1>5. CASE Get(c, i) \/ Delete(c, i) \/ Cancel(c, i)
  <2>1. PICK op \in {"get", "delete", "cancel"} : Arrive(c, op, i, Null, 0)
    BY <1>5 DEF Get, Delete, Cancel
  <2>2. Admitted(op, i, Null, 0)
    BY <1>2, <2>1 DEF Admitted, Arrive
  <2> QED BY <2>1, <2>2, ArriveEndures
<1> QED BY <1>1, <1>3, <1>4, <1>5

-----------------------------------------------------------------------------
(* The adapter's steps.                                                    *)

\* A step of an adapter method tells nothing new.
LEMMA ClaimsStay ==
  ASSUME NEW c \in Call, NEW i \in Id, On(c, i), req' = req, NEW m \in Meta,
         \A d \in Call \ {c} : call'[d].got = call[d].got /\ call'[d].meta = call[d].meta,
         sidecar'[i].meta = m => Claimed(i, m),
         \A d \in Call : Cached(d, i)'.meta = m => Claimed(i, m),
         call'[c].got.meta = m => Claimed(i, m),
         req[c].stage = "marking" /\ call'[c].meta = m => Claimed(i, m),
         Claimed(i, m)'
  PROVE  Claimed(i, m)
<1>1. CASE Told(i, m)' /\ sidecar'[i].meta # m
  <2>1. PICK d \in Call :
          /\ On(d, i)
          /\ \/ call'[d].got.meta = m
             \/ req[d].stage = "marking" /\ call'[d].meta = m
             \/ req[d].op = "post" /\ req[d].stage # "reserving" /\ req[d].meta = m
    BY <1>1 DEF Told, On, InFlight
  <2>2. CASE d # c
    BY <2>1, <2>2 DEF Claimed, Told
  <2>3. CASE d = c
    BY <2>1, <2>3 DEF Claimed, Told
  <2> QED BY <2>2, <2>3
<1> QED BY <1>1 DEF Claimed, Told

\* What a step of a getter or of a removal does.
GetterDoes(c, i) ==
  LET r == call[c]
  IN  /\ tmp' = tmp
      /\ \A d \in Call \ {c} :
           /\ call'[d].meta = call[d].meta
           /\ call[d].id # i \/ call[d].fd = "none" => call'[d] = call[d]
      /\ \A d \in Call, j \in Id : \/ Cached(d, j)' \in {NoFile, Cached(d, j)}
                                   \/ j = i /\ Cached(d, j)' = r.got
      /\ call'[c].got \in {NoFile, r.got, Parse(sidecar[i])}
      /\ r.op = "load" /\ call'[c].got = NoFile /\ call'[c].pc # "failed" =>
           IF r.pc = "read" THEN Parse(sidecar[i]) = NoFile ELSE r.got = NoFile
      /\ \/ sidecar' = sidecar /\ \A d \in Call \ {c} : call'[d] = call[d]
         \/ /\ r.op = "remove" /\ sidecar'[i] = NoFile
            /\ \A d \in Call \ {c} : call[d].id = i =>
                 call'[d].fd = IF call[d].fd = "final" THEN "gone" ELSE call[d].fd
      /\ stored' = stored \/ r.op = "remove"

LEMMA FillCacheDoes ==
  ASSUME StorageInv, NEW c \in Call, NEW i \in Id, i = call[c].id, Fits(call[c]),
         FillCache(c), call[c].op \in {"load", "resolve", "remove"}
  PROVE  GetterDoes(c, i)
<1> DEFINE r == call[c]
           k == cache[procOf[c]]
           filled == IF r.got = NoFile THEN k ELSE CacheSet(k, r.id, r.got)
           after == CacheAfterLoad(r, filled)
<1>1. /\ r \in CallType /\ r.pc = "resume" /\ r.got \in Parsed
      /\ UNCHANGED <<sidecar, tmp, stored, marked>>
  BY DEF StorageInv, FillCache, CallType
<1>2. k \in CacheType
  BY CacheIsHonest
<1>3. /\ filled \in CacheType
      /\ \A j \in Id : \/ filled.entry[j] \in {NoFile, k.entry[j]}
                       \/ j = i /\ filled.entry[j] \in {NoFile, r.got}
  BY <1>1, <1>2, CacheSetFacts
<1>4. /\ after \in CacheType
      /\ \A j \in Id : after.entry[j] \in {NoFile, filled.entry[j]}
  BY <1>3, CacheDeleteFacts DEF CacheAfterLoad
<1>5. SetCache(c, after)
  BY DEF FillCache
<1> HIDE DEF after, filled
<1>6. Takes(after, c, i, r.got)
  BY <1>3, <1>4 DEF Takes
<1>7. \A d \in Call, j \in Id : \/ Cached(d, j)' \in {NoFile, Cached(d, j)}
                                \/ j = i /\ Cached(d, j)' = r.got
  BY <1>4, <1>5, <1>6, EntryFacts
<1>8. call'[c] = Loaded(r) /\ \A d \in Call \ {c} : call'[d] = call[d]
  BY DEF StorageInv, FillCache
<1>9. /\ Loaded(r).got \in {NoFile, r.got}
      /\ r.op = "load" => Loaded(r).got = r.got
  <2>1. Loaded(r).got \in {NoFile, r.got}
    BY <1>1, LoadedFits
  <2>2. r.op = "load" => Loaded(r).got = r.got
    BY DEF Loaded, Ended, Idle
  <2> QED BY <2>1, <2>2
<1> QED BY <1>1, <1>7, <1>8, <1>9 DEF GetterDoes

LEMMA ReadSidecarDoes ==
  ASSUME StorageInv, NEW c \in Call, NEW i \in Id, i = call[c].id,
         ReadSidecar(c), call[c].op # "reserve"
  PROVE  /\ UNCHANGED <<sidecar, tmp, stored, cache>>
         /\ \A d \in Call \ {c} : call'[d] = call[d]
         /\ \A d \in Call, j \in Id : Cached(d, j)' = Cached(d, j)
         /\ call'[c] = [call[c] EXCEPT !.got = Parse(sidecar[i]), !.pc = "resume"]
         /\ call'[c].got = Parse(sidecar[i]) /\ call'[c].pc = "resume"
         /\ call'[c].meta = call[c].meta /\ call[c].pc = "read"
<1>1. call'[c] = [call[c] EXCEPT !.got = Parse(sidecar[i]), !.pc = "resume"]
  BY DEF ReadSidecar, StorageInv
<1>2. call[c] \in CallType
  BY DEF StorageInv
<1> QED BY <1>1, <1>2 DEF ReadSidecar, StorageInv, CallType, Cached

LEMMA StatDoes ==
  ASSUME StorageInv, NEW c \in Call, NEW i \in Id, i = call[c].id, Fits(call[c]), Stat(c)
  PROVE  GetterDoes(c, i)
<1>1. /\ call'[c] = Ended(call[c], "done",
                          IF "bytes" \in stored[i] THEN call[c].got ELSE NoFile)
      /\ call[c].op = "resolve"
      /\ \A d \in Call \ {c} : call'[d] = call[d]
      /\ UNCHANGED <<sidecar, tmp, stored, cache>>
  BY DEF Stat, StorageInv, Fits
<1>2. call'[c].got \in {NoFile, call[c].got}
  BY <1>1 DEF Ended, Idle
<1> QED BY <1>1, <1>2 DEF GetterDoes, Cached

LEMMA RmDoes ==
  ASSUME StorageInv, NEW c \in Call, NEW i \in Id, i = call[c].id, Fits(call[c]),
         Rm(c) \/ RmFails(c)
  PROVE  GetterDoes(c, i)
<1> DEFINE r == call[c]
           new == [final |-> "gone"]
<1>1. /\ r \in CallType /\ r.pc \in Deleting /\ r.op = "remove" /\ Sound(r, marked)
      /\ sidecar \in [Id -> OnDisk] /\ call \in [Call -> CallType]
      /\ UNCHANGED <<tmp, cache>>
  BY DEF StorageInv, Rm, RmFails, Fits
<1>2. PICK f, pc :
        /\ pc \in Deleting
        /\ call[c].pc \in Deleting
        /\ RmLeaves(c, Settled(r, f, pc), f)
  BY RmLeavesSo
<1> DEFINE s == Settled(r, f, pc)
           after == [call EXCEPT ![c] = s]
<1>3. s \in CallType /\ s.got = r.got
  <2>1. s \in CallType
    BY <1>1, <1>2, SettledIsSound DEF Sound
  <2> QED BY <1>1, <2>1 DEF Settled, CallType
<1>4. \/ call' = after /\ UNCHANGED sidecar
      \/ call' = Relink(after, i, new) /\ sidecar'[i] = NoFile
  BY <1>1, <1>2 DEF RmLeaves
<1> HIDE DEF s
<1>5. after[c] = s /\ \A d \in Call \ {c} : after[d] = call[d]
  BY <1>1
<1>6. CASE call' = after /\ UNCHANGED sidecar
  BY <1>1, <1>3, <1>5, <1>6 DEF GetterDoes, Cached
<1>7. CASE call' = Relink(after, i, new) /\ sidecar'[i] = NoFile
  <2>1. \A d \in Call : call'[d] = IF after[d].id = i /\ after[d].fd = "final"
                                   THEN [after[d] EXCEPT !.fd = "gone"] ELSE after[d]
    BY <1>7 DEF Relink
  <2> HIDE DEF after
  <2>2. ASSUME NEW d \in Call \ {c}
        PROVE  /\ call'[d].meta = call[d].meta
               /\ call[d].id # i \/ call[d].fd = "none" => call'[d] = call[d]
               /\ call[d].id = i =>
                    call'[d].fd = IF call[d].fd = "final" THEN "gone" ELSE call[d].fd
    <3>1. call'[d] = IF call[d].id = i /\ call[d].fd = "final"
                     THEN [call[d] EXCEPT !.fd = "gone"] ELSE call[d]
      BY <1>5, <2>1
    <3>2. /\ [call[d] EXCEPT !.fd = "gone"].fd = "gone"
          /\ [call[d] EXCEPT !.fd = "gone"].meta = call[d].meta
      BY <1>1 DEF CallType
    <3> QED BY <3>1, <3>2
  <2>3. call'[c].got = r.got
    BY <1>3, <1>5, <2>1 DEF CallType
  <2> QED BY <1>1, <1>7, <2>2, <2>3 DEF GetterDoes, Cached
<1> QED BY <1>4, <1>6, <1>7

\* A getter whose read or stat fails gives up, and has changed nothing.
LEMMA GetterFailsSo ==
  ASSUME StorageInv, NEW c \in Call, NEW i \in Id, i = call[c].id, IOError(c),
         call[c].pc \notin Writing
  PROVE  GetterDoes(c, i)
<1>1. /\ call'[c] = Ended(call[c], "failed", NoFile)
      /\ \A d \in Call \ {c} : call'[d] = call[d]
      /\ UNCHANGED <<sidecar, tmp, stored, cache>>
  BY DEF IOError, Spoilt, StorageInv, Writing
<1>2. call'[c].got = NoFile /\ call'[c].pc = "failed"
  BY <1>1 DEF Ended, Idle
<1> QED BY <1>1, <1>2 DEF GetterDoes, Cached

LEMMA GetterSteps ==
  ASSUME StorageInv, NEW c \in Call, NEW i \in Id, i = call[c].id, Fits(call[c]),
         StorageStep(c), call[c].op \in {"load", "resolve", "remove"}
  PROVE  GetterDoes(c, i)
<1>1. call[c].pc \notin Writing
  BY DEF StorageInv, Sound
<1>2. ASSUME ReadSidecar(c) PROVE GetterDoes(c, i)
  <2>1. /\ UNCHANGED <<sidecar, tmp, stored, cache>>
        /\ \A d \in Call \ {c} : call'[d] = call[d]
        /\ \A d \in Call, j \in Id : Cached(d, j)' = Cached(d, j)
        /\ call'[c].got = Parse(sidecar[i]) /\ call[c].pc = "read"
    BY <1>2, ReadSidecarDoes
  <2> QED BY <2>1 DEF GetterDoes
<1>3. ReadSidecar(c) \/ FillCache(c) \/ Stat(c) \/ Rm(c) \/ RmFails(c) \/ IOError(c)
  BY <1>1 DEF StorageStep, CheckStatus, OpenExclusive, OpenTmp, Write, Rename, CommitToCache,
     Writing
<1> QED BY <1>1, <1>2, <1>3, FillCacheDoes, StatDoes, RmDoes, GetterFailsSo

\* Reading, caching and deleting undo nothing that was promised.
LEMMA GetterEndures ==
  ASSUME ServiceInv, ServiceInv', ServingInv, DurableInv, NEW c \in Call,
         NEW i, i = req[c].id, Adapter(c), call[c].op \in {"load", "resolve", "remove"}
  PROVE  DurableInv'
<1> DEFINE r == call[c]
<1>1. UNCHANGED <<req, content, promise>> /\ StorageInv /\ StorageStep(c)
  BY DEF Adapter, ServiceInv
<1>2. Linked(c) /\ Fits(r) /\ Uploads(c) /\ FindsWhatThereIs(c) /\ RemovesWithdrawn(c)
  BY DEF ServingInv, Linked, DurableInv
<1>3. Works(c) /\ Running(c)
  BY <1>1, <1>2, StorageStepWorks
<1>4. /\ InFlight(c) /\ r.id = i /\ i \in Id /\ On(c, i)
      /\ req[c].stage \in DOMAIN Awaited /\ r.op = Awaited[req[c].stage]
  BY <1>2, <1>3 DEF Linked, Works, Running, Idle, On
<1>5. /\ req[c].stage \in {"authorizing", "finishing", "resolving", "removing", "rejecting"}
      /\ r.op = "remove" => req[c].stage \in Removal
  BY <1>4, AwaitedFacts DEF Removal
<1>6. GetterDoes(c, i)
  BY <1>1, <1>2, <1>4, GetterSteps
<1>7. ASSUME NEW d \in Call, ~On(d, i) PROVE call[d].id # i \/ call[d].fd = "none"
  <2>1. Linked(d)
    BY DEF ServingInv
  <2> QED BY <1>7, <2>1 DEF Linked, On, Idle
<1>8. Elsewhere(c, i)
  BY <1>1, <1>3, <1>4, <1>6, <1>7 DEF Elsewhere, GetterDoes, Works, InFlight
<1>9. sidecar[i] \in OnDisk /\ r.got \in Parsed /\ call[c] \in CallType
  BY <1>1, <1>4 DEF StorageInv, CallType
<1>10. ASSUME NEW m \in Meta, Claimed(i, m)' PROVE Claimed(i, m)
  <2>1. m # Null /\ NoFile.meta = Null /\ Parse(sidecar[i]).meta = sidecar[i].meta
    BY <1>9, MetaFacts
  <2>2. sidecar[i].meta = m \/ r.got.meta = m => Claimed(i, m)
    BY <1>4 DEF Claimed, Told
  <2>3. call'[c].got.meta = m => Claimed(i, m)
    BY <1>6, <2>1, <2>2 DEF GetterDoes
  <2>4. sidecar'[i].meta = m => Claimed(i, m)
    BY <1>6, <2>1, <2>2 DEF GetterDoes
  <2>5. ASSUME NEW d \in Call, Cached(d, i)'.meta = m PROVE Claimed(i, m)
    <3>1. Cached(d, i)' \in {NoFile, Cached(d, i), r.got}
      BY <1>4, <1>6 DEF GetterDoes
    <3> QED BY <2>1, <2>2, <2>5, <3>1 DEF Claimed
  <2>6. \A d \in Call \ {c} : call'[d].got = call[d].got /\ call'[d].meta = call[d].meta
    BY <1>3, <1>6 DEF Works, SameCall, GetterDoes
  <2> QED BY <1>1, <1>4, <1>5, <1>10, <2>3, <2>4, <2>5, <2>6, ClaimsStay
<1>11. Leaves(c, i)
  <2>1. /\ \A d \in Call \ {c} : On(d, i) => call[d].id = i
        /\ stored'[i] \subseteq stored[i]
    BY <1>3, <1>4 DEF ServingInv, Linked, On, Works
  <2> QED BY <1>1, <1>4, <1>5, <1>6, <1>10, <2>1 DEF Leaves, GetterDoes
<1>12. FindsWhatThereIs(c)'
  <2>1. SUFFICES ASSUME req[c].stage = "finishing", req[c].op = "patch",
                        call'[c].got = NoFile, call'[c].pc # "failed"
                 PROVE  sidecar'[i].meta = Null
    BY <1>1 DEF FindsWhatThereIs
  <2>2. r.op = "load"
    BY <1>4, <2>1, AwaitedFacts
  <2>3. Parse(sidecar[i]) = NoFile \/ sidecar[i].meta = Null
    BY <1>2, <1>3, <1>6, <2>1, <2>2 DEF FindsWhatThereIs, GetterDoes, Running
  <2> QED BY <1>6, <1>9, <2>2, <2>3, MetaFacts DEF GetterDoes
<1>13. Carries(c, i)
  BY <1>1, <1>2, <1>5, <1>12
     DEF Carries, Uploads, Reserves, Marks, Notifies, InFlight, Stores, Completing
<1> QED BY <1>4, <1>5, <1>8, <1>11, <1>13, StepEndures

\* What a step of a reservation or of a markReady does, by the step.
Keeps(r, s) == s.meta = r.meta /\ s.got = r.got
WriterReads(c, i) ==
  LET r == call[c]
      s == call'[c]
  IN  /\ r.pc = "read" /\ sidecar'[i] = sidecar[i] /\ tmp'[i] = tmp[i]
      /\ \/ /\ r.op = "markReady"
            /\ s.pc = "resume" /\ s.got = Parse(sidecar[i]) /\ s.meta = r.meta
         \/ /\ r.op = "reserve" /\ Keeps(r, s)
            /\ s.pc = "tmpOpen" /\ Parse(sidecar[i]) = NoFile
         \/ r.op = "reserve" /\ s.pc = "conflict" /\ s.got = NoFile
WriterChecks(c, i) ==
  LET r == call[c]
      s == call'[c]
  IN  /\ r.op = "markReady" /\ r.pc = "resume"
      /\ sidecar'[i] = sidecar[i] /\ tmp'[i] = tmp[i] /\ s.got = NoFile
      /\ \/ s.pc = "failed" /\ r.got = NoFile /\ s.meta = Null
         \/ s.pc = "done" /\ r.got.state = "ready" /\ s.meta = Null
         \/ s.pc = "tmpOpen" /\ r.got.state = "uploading" /\ s.meta = r.got.meta
WriterOpens(c, i) ==
  LET r == call[c]
      s == call'[c]
  IN  /\ r.pc = "open" /\ Keeps(r, s) /\ tmp'[i] = tmp[i]
      /\ \/ /\ sidecar[i] = NoFile /\ sidecar'[i] = Torn
            /\ s.pc = "write" /\ s.fd = "final"
         \/ sidecar[i] # NoFile /\ sidecar'[i] = sidecar[i] /\ s.pc = "read"
WriterDrafts(c, i) ==
  LET r == call[c]
      s == call'[c]
  IN  /\ r.pc = "tmpOpen" /\ Keeps(r, s)
      /\ s.pc = "tmpWrite" /\ s.fd = "tmp"
      /\ sidecar'[i] = sidecar[i] /\ tmp'[i] = Torn
WriterWrites(c, i) ==
  LET r == call[c]
      s == call'[c]
  IN  /\ Keeps(r, s)
      /\ \/ r.pc = "write" /\ s.pc = "commit"
         \/ r.pc = "tmpWrite" /\ s.pc = "rename"
      /\ \/ /\ r.fd = "final" /\ tmp'[i] = tmp[i]
            /\ sidecar'[i] \in Landed(sidecar[i], Content(r))
         \/ /\ r.fd = "tmp" /\ sidecar'[i] = sidecar[i]
            /\ tmp'[i] \in Landed(tmp[i], Content(r))
         \/ r.fd = "gone" /\ sidecar'[i] = sidecar[i] /\ tmp'[i] = tmp[i]
WriterRenames(c, i) ==
  LET r == call[c]
      s == call'[c]
  IN  /\ r.pc = "rename"
      /\ \/ /\ tmp[i] = NoFile /\ sidecar'[i] = sidecar[i]
            /\ s.pc = "failed" /\ s.got = NoFile /\ s.meta = Null
         \/ /\ tmp[i] # NoFile /\ sidecar'[i] = tmp[i]
            /\ s.pc = "commit" /\ Keeps(r, s)
WriterCommits(c, i) ==
  LET r == call[c]
      s == call'[c]
  IN  /\ r.pc = "commit" /\ sidecar'[i] = sidecar[i] /\ tmp'[i] = tmp[i]
      /\ s.pc = "done" /\ s.got = NoFile /\ s.meta = Null
      /\ Cached(c, i)' \in {NoFile, Content(r)}
WriterFails(c, i) ==
  LET r == call[c]
      s == call'[c]
  IN  /\ r.pc \in Awaitable /\ s.pc = "failed" /\ s.got = NoFile /\ s.meta = Null
      /\ \/ sidecar'[i] = sidecar[i]
         \/ r.pc \in {"write", "tmpWrite"} /\ r.fd = "final" /\ sidecar'[i] = Torn
WriterDoes(c, i) ==
  /\ stored' = stored
  /\ \A d \in Call \ {c} :
       /\ call'[d].meta = call[d].meta
       /\ call[d].id # i \/ call[d].fd = "none" => call'[d] = call[d]
  /\ \A d \in Call, j \in Id :
       \/ Cached(d, j)' \in {NoFile, Cached(d, j)}
       \/ j = i /\ call[c].op = "markReady" /\ Cached(d, j)' = call[c].got
       \/ j = i /\ call[c].pc = "commit" /\ Cached(d, j)' = Content(call[c])
  /\ \/ WriterReads(c, i) \/ WriterChecks(c, i) \/ WriterOpens(c, i)
     \/ WriterDrafts(c, i) \/ WriterWrites(c, i) \/ WriterRenames(c, i)
     \/ WriterCommits(c, i) \/ WriterFails(c, i)

LEMMA EndedFacts ==
  ASSUME NEW r, NEW pc, NEW got
  PROVE  Ended(r, pc, got).pc = pc /\ Ended(r, pc, got).got = got
         /\ Ended(r, pc, got).meta = Null
BY DEF Ended, Idle

LEMMA WriterReadsSo ==
  ASSUME StorageInv, NEW c \in Call, NEW i \in Id, i = call[c].id, ReadSidecar(c),
         call[c].op \in {"reserve", "markReady"}
  PROVE  WriterDoes(c, i)
<1> DEFINE r == call[c]
<1>1. CASE r.op = "markReady"
  <2>1. /\ UNCHANGED <<sidecar, tmp, stored, cache>>
        /\ \A d \in Call \ {c} : call'[d] = call[d]
        /\ \A d \in Call, j \in Id : Cached(d, j)' = Cached(d, j)
        /\ call'[c].got = Parse(sidecar[i]) /\ call'[c].pc = "resume"
        /\ call'[c].meta = r.meta /\ r.pc = "read"
    BY <1>1, ReadSidecarDoes
  <2>2. WriterReads(c, i)
    BY <1>1, <2>1 DEF WriterReads
  <2> QED BY <2>1, <2>2 DEF WriterDoes
<1>2. CASE r.op = "reserve"
  <2>1. /\ UNCHANGED <<sidecar, tmp, stored, cache>> /\ r.pc = "read"
        /\ \A d \in Call \ {c} : call'[d] = call[d]
        /\ \/ Parse(sidecar[i]) = NoFile /\ call'[c] = [r EXCEPT !.pc = "tmpOpen"]
           \/ call'[c] = Ended(r, "conflict", NoFile)
    BY <1>2 DEF ReadSidecar, StorageInv
  <2>2. LET s == [r EXCEPT !.pc = "tmpOpen"] IN s.pc = "tmpOpen" /\ Keeps(r, s)
    BY DEF StorageInv, CallType, Keeps
  <2>3. LET s == Ended(r, "conflict", NoFile) IN s.pc = "conflict" /\ s.got = NoFile
    BY EndedFacts
  <2>4. /\ sidecar'[i] = sidecar[i] /\ tmp'[i] = tmp[i]
        /\ \/ Parse(sidecar[i]) = NoFile /\ call'[c].pc = "tmpOpen" /\ Keeps(r, call'[c])
           \/ call'[c].pc = "conflict" /\ call'[c].got = NoFile
    BY <2>1, <2>2, <2>3
  <2>5. WriterReads(c, i)
    BY <1>2, <2>1, <2>4 DEF WriterReads
  <2> QED BY <2>1, <2>5 DEF WriterDoes, Cached
<1> QED BY <1>1, <1>2

LEMMA WriterChecksSo ==
  ASSUME StorageInv, NEW c \in Call, NEW i \in Id, i = call[c].id, CheckStatus(c)
  PROVE  WriterDoes(c, i)
<1> DEFINE r == call[c]
           k == CacheSet(cache[procOf[c]], i, r.got)
<1>1. /\ r \in CallType /\ r.pc = "resume" /\ r.got \in Parsed /\ r.op = "markReady"
      /\ UNCHANGED <<sidecar, tmp, stored>>
  BY DEF StorageInv, CheckStatus, CallType
<1>2. k \in CacheType /\ Takes(k, c, i, r.got)
  BY <1>1, CacheIsHonest, CacheSetFacts DEF Takes
<1>3. SetCache(c, k) \/ UNCHANGED cache
  BY DEF CheckStatus
<1> HIDE DEF k
<1>4. \A d \in Call, j \in Id : \/ Cached(d, j)' \in {NoFile, Cached(d, j)}
                                \/ j = i /\ Cached(d, j)' = r.got
  <2>1. CASE SetCache(c, k)
    BY <1>2, <2>1, EntryFacts
  <2>2. CASE UNCHANGED cache
    BY <2>2 DEF Cached
  <2> QED BY <1>3, <2>1, <2>2
<1>5. /\ \A d \in Call \ {c} : call'[d] = call[d]
      /\ \/ r.got = NoFile /\ call'[c] = Ended(r, "failed", NoFile)
         \/ r.got.state = "ready" /\ call'[c] = Ended(r, "done", NoFile)
         \/ /\ r.got.state = "uploading"
            /\ call'[c] = [r EXCEPT !.pc = "tmpOpen", !.meta = r.got.meta, !.got = NoFile]
  BY ParsedFacts DEF CheckStatus, StorageInv
<1>6. LET s == [r EXCEPT !.pc = "tmpOpen", !.meta = r.got.meta, !.got = NoFile]
      IN  s.pc = "tmpOpen" /\ s.meta = r.got.meta /\ s.got = NoFile
  BY <1>1 DEF CallType
<1>7. /\ call'[c].got = NoFile
      /\ \/ call'[c].pc = "failed" /\ r.got = NoFile /\ call'[c].meta = Null
         \/ call'[c].pc = "done" /\ r.got.state = "ready" /\ call'[c].meta = Null
         \/ /\ call'[c].pc = "tmpOpen" /\ r.got.state = "uploading"
            /\ call'[c].meta = r.got.meta
  <2>1. CASE r.got = NoFile /\ call'[c] = Ended(r, "failed", NoFile)
    BY <2>1, EndedFacts
  <2>2. CASE r.got.state = "ready" /\ call'[c] = Ended(r, "done", NoFile)
    BY <2>2, EndedFacts
  <2>3. CASE /\ r.got.state = "uploading"
             /\ call'[c] = [r EXCEPT !.pc = "tmpOpen", !.meta = r.got.meta, !.got = NoFile]
    BY <1>6, <2>3
  <2> QED BY <1>5, <2>1, <2>2, <2>3
<1>8. WriterChecks(c, i)
  BY <1>1, <1>7 DEF WriterChecks
<1> QED BY <1>1, <1>4, <1>5, <1>8 DEF WriterDoes

LEMMA WriterOpensSo ==
  ASSUME StorageInv, NEW c \in Call, NEW i \in Id, i = call[c].id,
         OpenExclusive(c) \/ OpenTmp(c)
  PROVE  WriterDoes(c, i)
<1> DEFINE r == call[c]
<1>1. r \in CallType /\ call \in [Call -> CallType] /\ sidecar \in [Id -> OnDisk]
      /\ tmp \in [Id -> OnDisk] /\ UNCHANGED <<stored, cache>>
  BY DEF StorageInv, OpenExclusive, OpenTmp
<1>2. \A d \in Call, j \in Id : Cached(d, j)' = Cached(d, j)
  BY <1>1 DEF Cached
<1>3. CASE OpenExclusive(c)
  <2>1. /\ r.pc = "open" /\ UNCHANGED tmp /\ \A d \in Call \ {c} : call'[d] = call[d]
        /\ \/ /\ sidecar[i] = NoFile /\ sidecar'[i] = Torn
              /\ call'[c] = [r EXCEPT !.pc = "write", !.fd = "final"]
           \/ /\ sidecar[i] # NoFile /\ sidecar'[i] = sidecar[i]
              /\ call'[c] = [r EXCEPT !.pc = "read"]
    BY <1>1, <1>3 DEF OpenExclusive
  <2>2. /\ LET s == [r EXCEPT !.pc = "write", !.fd = "final"]
           IN  s.pc = "write" /\ s.fd = "final" /\ Keeps(r, s)
        /\ LET s == [r EXCEPT !.pc = "read"] IN s.pc = "read" /\ Keeps(r, s)
    BY <1>1 DEF CallType, Keeps
  <2>3. WriterOpens(c, i)
    BY <2>1, <2>2 DEF WriterOpens
  <2> QED BY <1>1, <1>2, <2>1, <2>3 DEF WriterDoes
<1>4. CASE OpenTmp(c)
  <2>1. /\ r.pc = "tmpOpen" /\ UNCHANGED sidecar /\ tmp'[i] = Torn
        /\ \A d \in Call \ {c} : call'[d] = call[d]
        /\ call'[c] = [r EXCEPT !.pc = "tmpWrite", !.fd = "tmp"]
    BY <1>1, <1>4 DEF OpenTmp
  <2>2. LET s == [r EXCEPT !.pc = "tmpWrite", !.fd = "tmp"]
        IN  s.pc = "tmpWrite" /\ s.fd = "tmp" /\ Keeps(r, s)
    BY <1>1 DEF CallType, Keeps
  <2>3. WriterDrafts(c, i)
    BY <2>1, <2>2 DEF WriterDrafts
  <2> QED BY <1>1, <1>2, <2>1, <2>3 DEF WriterDoes
<1> QED BY <1>3, <1>4

LEMMA WriterWritesSo ==
  ASSUME StorageInv, NEW c \in Call, NEW i \in Id, i = call[c].id, Write(c)
  PROVE  WriterDoes(c, i)
<1> DEFINE r == call[c]
           pc == IF r.pc = "write" THEN "commit" ELSE "rename"
           s == [r EXCEPT !.fd = "none", !.pc = pc]
<1>1. /\ r \in CallType /\ r.pc \in {"write", "tmpWrite"}
      /\ sidecar \in [Id -> OnDisk] /\ tmp \in [Id -> OnDisk]
      /\ UNCHANGED <<stored, cache>>
  BY DEF StorageInv, Write
<1>2. call'[c] = s /\ \A d \in Call \ {c} : call'[d] = call[d]
  BY DEF Write, StorageInv
<1>3. s.pc = pc /\ Keeps(r, s)
  BY <1>1 DEF CallType, Keeps
<1> HIDE DEF s
<1>4. \/ /\ r.fd = "final" /\ tmp'[i] = tmp[i]
         /\ sidecar'[i] \in Landed(sidecar[i], Content(r))
      \/ /\ r.fd = "tmp" /\ sidecar'[i] = sidecar[i]
         /\ tmp'[i] \in Landed(tmp[i], Content(r))
      \/ r.fd = "gone" /\ sidecar'[i] = sidecar[i] /\ tmp'[i] = tmp[i]
  BY <1>1 DEF Write
<1>5. WriterWrites(c, i)
  BY <1>1, <1>2, <1>3, <1>4 DEF WriterWrites
<1> QED BY <1>1, <1>2, <1>5 DEF WriterDoes, Cached

LEMMA WriterRenamesSo ==
  ASSUME StorageInv, NEW c \in Call, NEW i \in Id, i = call[c].id, Rename(c)
  PROVE  WriterDoes(c, i)
<1> DEFINE r == call[c]
           moved == [r EXCEPT !.pc = "commit"]
           after == [call EXCEPT ![c] = moved]
<1>1. /\ r.pc = "rename" /\ call \in [Call -> CallType]
      /\ sidecar \in [Id -> OnDisk] /\ tmp \in [Id -> OnDisk]
      /\ UNCHANGED <<stored, cache>>
  BY DEF StorageInv, Rename
<1>2. \A d \in Call, j \in Id : Cached(d, j)' = Cached(d, j)
  BY <1>1 DEF Cached
<1>3. CASE /\ tmp[i] = NoFile /\ UNCHANGED <<sidecar, tmp>>
           /\ call' = [call EXCEPT ![c] = Ended(r, "failed", NoFile)]
  <2>1. /\ call'[c] = Ended(r, "failed", NoFile)
        /\ \A d \in Call \ {c} : call'[d] = call[d]
    BY <1>1, <1>3
  <2>2. WriterRenames(c, i)
    BY <1>1, <1>3, <2>1, EndedFacts DEF WriterRenames
  <2> QED BY <1>1, <1>2, <2>1, <2>2 DEF WriterDoes
<1>4. CASE /\ tmp[i] # NoFile /\ sidecar' = [sidecar EXCEPT ![i] = tmp[i]]
           /\ call' = Relink(after, i, [tmp |-> "final", final |-> "gone"])
  <2>1. after[c] = moved /\ \A d \in Call \ {c} : after[d] = call[d]
    BY <1>1
  <2>2. moved \in CallType /\ moved.pc = "commit" /\ Keeps(r, moved)
    BY <1>1 DEF CallType, Keeps
  <2>3. \A d \in Call : \E fd \in {"final", "gone"} :
          call'[d] = IF after[d].id = i /\ after[d].fd \in {"tmp", "final"}
                     THEN [after[d] EXCEPT !.fd = fd] ELSE after[d]
    BY <1>4 DEF Relink
  <2> HIDE DEF after, moved
  <2>4. \A d \in Call : after[d] \in CallType
    BY <1>1, <2>1, <2>2
  <2>5. ASSUME NEW d \in Call
        PROVE  /\ call'[d].meta = after[d].meta /\ call'[d].got = after[d].got
               /\ call'[d].pc = after[d].pc
               /\ after[d].id # i \/ after[d].fd = "none" => call'[d] = after[d]
    <3>1. PICK fd \in {"final", "gone"} :
            call'[d] = IF after[d].id = i /\ after[d].fd \in {"tmp", "final"}
                       THEN [after[d] EXCEPT !.fd = fd] ELSE after[d]
      BY <2>3
    <3>2. LET s == [after[d] EXCEPT !.fd = fd]
          IN  s.meta = after[d].meta /\ s.got = after[d].got /\ s.pc = after[d].pc
      BY <2>4 DEF CallType
    <3> QED BY <3>1, <3>2
  <2>6. sidecar'[i] = tmp[i]
    BY <1>1, <1>4
  <2>7. WriterRenames(c, i)
    BY <1>1, <1>4, <2>1, <2>2, <2>5, <2>6 DEF WriterRenames, Keeps
  <2> QED BY <1>1, <1>2, <2>1, <2>5, <2>7 DEF WriterDoes
<1> QED BY <1>3, <1>4 DEF Rename

LEMMA WriterCommitsSo ==
  ASSUME StorageInv, NEW c \in Call, NEW i \in Id, i = call[c].id, CommitToCache(c)
  PROVE  WriterDoes(c, i)
<1> DEFINE r == call[c]
           k == CacheSet(cache[procOf[c]], i, Content(r))
           s == Ended(r, "done", NoFile)
<1>1. /\ r \in CallType /\ r.pc = "commit"
      /\ Content(r) \in Parsed /\ SetCache(c, k)
      /\ UNCHANGED <<sidecar, tmp, stored>>
  BY ContentIsHonest DEF StorageInv, Sound, CommitToCache, Writing
<1>2. /\ k \in CacheType /\ Takes(k, c, i, Content(r))
      /\ k.entry[i] \in {NoFile, Content(r)}
  BY <1>1, CacheIsHonest, CacheSetFacts, CacheSetReplaces DEF Takes
<1>3. cache'[procOf[c]] = k
  BY <1>1, ProcAssumption DEF StorageInv, SetCache
<1> HIDE DEF k
<1>4. \A d \in Call, j \in Id : \/ Cached(d, j)' \in {NoFile, Cached(d, j)}
                                \/ j = i /\ Cached(d, j)' = Content(r)
  BY <1>1, <1>2, EntryFacts
<1>5. call'[c] = s /\ \A d \in Call \ {c} : call'[d] = call[d]
  BY DEF CommitToCache, StorageInv
<1>6. WriterCommits(c, i)
  BY <1>1, <1>2, <1>3, <1>5, EndedFacts DEF WriterCommits, Cached
<1> QED BY <1>1, <1>4, <1>5, <1>6 DEF WriterDoes

LEMMA WriterFailsSo ==
  ASSUME StorageInv, NEW c \in Call, NEW i \in Id, i = call[c].id, IOError(c)
  PROVE  WriterDoes(c, i)
<1> DEFINE r == call[c]
<1>1. /\ r.pc \in Awaitable /\ UNCHANGED <<stored, cache>>
      /\ call'[c] = Ended(r, "failed", NoFile) /\ \A d \in Call \ {c} : call'[d] = call[d]
      /\ sidecar \in [Id -> OnDisk] /\ sidecar' \in Spoilt(sidecar, r, "final")
  BY DEF IOError, StorageInv
<1>2. \/ sidecar'[i] = sidecar[i]
      \/ r.pc \in {"write", "tmpWrite"} /\ r.fd = "final" /\ sidecar'[i] = Torn
  BY <1>1 DEF Spoilt
<1>3. WriterFails(c, i)
  BY <1>1, <1>2, EndedFacts DEF WriterFails
<1> QED BY <1>1, <1>3 DEF WriterDoes, Cached

LEMMA WriterSteps ==
  ASSUME StorageInv, NEW c \in Call, NEW i \in Id, i = call[c].id, Fits(call[c]),
         StorageStep(c), call[c].op \in {"reserve", "markReady"}
  PROVE  WriterDoes(c, i)
<1>1. ~FillCache(c) /\ ~Stat(c) /\ ~Rm(c) /\ ~RmFails(c)
  BY DEF FillCache, Stat, Rm, RmFails, Fits
<1> QED BY <1>1, WriterReadsSo, WriterChecksSo, WriterOpensSo, WriterWritesSo,
           WriterRenamesSo, WriterCommitsSo, WriterFailsSo DEF StorageStep

\* Who takes a step of a writing call, on what.
WriterStands(c, i) ==
  LET r == call[c]
  IN  /\ UNCHANGED <<req, content, promise>> /\ i \in Id /\ On(c, i) /\ InFlight(c)
      /\ r.id = i /\ Running(c) /\ r \in CallType
      /\ sidecar[i] \in OnDisk /\ tmp[i] \in OnDisk
      /\ call'[c].op = r.op /\ (call'[c].pc = "rename" => call'[c] \in CallType)
      /\ req[c].stage = IF r.op = "reserve" THEN "reserving" ELSE "marking"
      /\ r.pc \in Writing => r.meta \in Meta
      /\ \A d \in Call \ {c} : call'[d].got = call[d].got /\ call'[d].meta = call[d].meta
      /\ WriterDoes(c, i) /\ Elsewhere(c, i) /\ Upholds(c) /\ Fits(r)

LEMMA WritersStand ==
  ASSUME ServiceInv, ServiceInv', ServingInv, DurableInv, NEW c \in Call,
         NEW i, i = req[c].id, Adapter(c), call[c].op \in {"reserve", "markReady"}
  PROVE  WriterStands(c, i)
<1> DEFINE r == call[c]
<1>1. UNCHANGED <<req, content, promise>> /\ StorageInv /\ StorageStep(c) /\ StorageInv'
  BY DEF Adapter, ServiceInv
<1>2. Linked(c) /\ Fits(r) /\ Upholds(c)
  BY DEF ServingInv, Linked, DurableInv, Upholds
<1>3. Works(c) /\ Running(c)
  BY <1>1, <1>2, StorageStepWorks
<1>4. /\ InFlight(c) /\ r.id = i /\ i \in Id /\ On(c, i)
      /\ req[c].stage \in DOMAIN Awaited /\ r.op = Awaited[req[c].stage]
  BY <1>2, <1>3 DEF Linked, Works, Running, Idle, On
<1>5. req[c].stage = IF r.op = "reserve" THEN "reserving" ELSE "marking"
  BY <1>4, AwaitedFacts
<1>6. WriterDoes(c, i)
  BY <1>1, <1>2, <1>4, WriterSteps
<1>7. ASSUME NEW d \in Call, ~On(d, i) PROVE call[d].id # i \/ call[d].fd = "none"
  <2>1. Linked(d)
    BY DEF ServingInv
  <2> QED BY <1>7, <2>1 DEF Linked, On, Idle
<1>8. \A d \in Call, j \in Id \ {i} : Cached(d, j)' \in {NoFile, Cached(d, j)}
  BY <1>6 DEF WriterDoes
<1>9. Elsewhere(c, i)
  BY <1>1, <1>3, <1>4, <1>6, <1>7, <1>8 DEF Elsewhere, WriterDoes, Works, InFlight
<1>10. /\ r \in CallType /\ sidecar[i] \in OnDisk /\ tmp[i] \in OnDisk
       /\ r.pc \in Writing => r.meta \in Meta
       /\ call'[c] \in CallType
  BY <1>1, <1>4 DEF StorageInv, Sound
<1>11. /\ call'[c].op = r.op
       /\ \A d \in Call \ {c} : call'[d].got = call[d].got /\ call'[d].meta = call[d].meta
  BY <1>3, <1>6 DEF Works, SameCall, WriterDoes
<1> QED BY <1>1, <1>2, <1>3, <1>4, <1>5, <1>6, <1>9, <1>10, <1>11 DEF WriterStands

LEMMA ContentFacts ==
  ASSUME NEW r, r.meta \in Meta
  PROVE  /\ Content(r).meta = r.meta /\ Content(r) # NoFile /\ Content(r) # Torn
         /\ Content(r).state = IF r.op = "reserve" THEN "uploading" ELSE "ready"
BY NullAssumption DEF Content, File, NoFile, Torn

\* What a step of markReady does, knowing what the call counts on.
MarkingDoes(c, i) ==
  LET r == call[c]
      s == call'[c]
      same == sidecar'[i] = sidecar[i]
  IN  /\ s.meta \in {Null, r.meta, r.got.meta}
      /\ s.got \in {NoFile, r.got, Parse(sidecar[i])}
      /\ \A d \in Call : Cached(d, i)' \in {NoFile, Cached(d, i), r.got, Content(r)}
      /\ Drafts(s, tmp'[i])
      /\ \/ r.pc = "read" /\ same /\ s.pc = "resume" /\ s.got = Parse(sidecar[i])
         \/ /\ r.pc = "resume" /\ same /\ s.got = NoFile
            /\ \/ s.pc = "failed" /\ r.got = NoFile
               \/ s.pc = "done" /\ r.got.state = "ready"
               \/ s.pc = "tmpOpen" /\ r.got.state = "uploading"
         \/ /\ r.pc \in {"tmpOpen", "tmpWrite"} /\ same /\ s.got = r.got
            /\ s.pc \in {"tmpWrite", "rename"}
         \/ /\ r.pc = "rename" /\ sidecar'[i] = Content(r) /\ r.meta \in Meta
            /\ s.pc = "commit"
         \/ r.pc = "commit" /\ same /\ s.pc = "done" /\ s.got = NoFile
         \/ /\ r.pc \in {"read", "tmpOpen", "tmpWrite", "rename"} /\ same
            /\ s.pc = "failed" /\ s.got = NoFile

LEMMA MarkingSteps ==
  ASSUME NEW c \in Call, NEW i, WriterStands(c, i), call[c].op = "markReady"
  PROVE  MarkingDoes(c, i)
<1> DEFINE r == call[c]
           s == call'[c]
<1>1. /\ r.pc \notin {"open", "write"} /\ Drafts(r, tmp[i])
      /\ WriterDoes(c, i) /\ s.op = r.op /\ r.op = "markReady" /\ req[c].id = i
      /\ r.pc \in Writing => r.meta \in Meta
  BY DEF WriterStands, Upholds, Marks, On
<1>2. \A d \in Call : Cached(d, i)' \in {NoFile, Cached(d, i), r.got, Content(r)}
  <2>1. i \in Id
    BY DEF WriterStands
  <2> QED BY <1>1, <2>1 DEF WriterDoes
<1>3. CASE WriterReads(c, i)
  BY <1>1, <1>2, <1>3 DEF MarkingDoes, WriterReads, Drafts
<1>4. CASE WriterChecks(c, i)
  BY <1>1, <1>2, <1>4 DEF MarkingDoes, WriterChecks, Drafts
<1>5. CASE WriterDrafts(c, i)
  BY <1>1, <1>2, <1>5 DEF MarkingDoes, WriterDrafts, Drafts, Keeps
<1>6. CASE WriterWrites(c, i)
  <2>1. /\ r.pc = "tmpWrite" /\ s.pc = "rename" /\ Keeps(r, s)
        /\ r.fd = "tmp" /\ tmp[i] = Torn
    BY <1>1, <1>6 DEF WriterWrites, Drafts
  <2>2. sidecar'[i] = sidecar[i] /\ tmp'[i] \in Landed(tmp[i], Content(r))
    BY <1>6, <2>1 DEF WriterWrites
  <2>3. tmp'[i] = Content(s)
    BY <1>1, <2>1, <2>2 DEF Landed, Content, Keeps
  <2> QED BY <1>2, <2>1, <2>2, <2>3 DEF MarkingDoes, Drafts, Keeps
<1>7. CASE WriterRenames(c, i)
  <2>1. r.pc = "rename" /\ tmp[i] = Content(r) /\ r.meta \in Meta
    BY <1>1, <1>7 DEF WriterRenames, Drafts, Writing
  <2>2. sidecar'[i] = Content(r) /\ s.pc = "commit" /\ Keeps(r, s)
    BY <1>7, <2>1, ContentFacts DEF WriterRenames
  <2> QED BY <1>2, <2>1, <2>2 DEF MarkingDoes, Drafts, Keeps
<1>8. CASE WriterCommits(c, i)
  BY <1>1, <1>2, <1>8 DEF MarkingDoes, WriterCommits, Drafts
<1>9. CASE WriterFails(c, i)
  <2>1. /\ r.pc \in {"read", "tmpOpen", "tmpWrite", "rename"} \/ r.pc = "stat"
        /\ s.pc = "failed" /\ s.got = NoFile /\ s.meta = Null
    BY <1>1, <1>9 DEF WriterFails, Awaitable
  <2>2. r.pc # "stat"
    BY <1>1 DEF WriterStands, Fits
  <2>3. sidecar'[i] = sidecar[i]
    BY <1>1, <1>9 DEF WriterFails, Drafts
  <2> QED BY <1>2, <2>1, <2>2, <2>3 DEF MarkingDoes, Drafts
<1> QED BY <1>1, <1>3, <1>4, <1>5, <1>6, <1>7, <1>8, <1>9 DEF WriterDoes, WriterOpens

\* markReady makes ready what was validated, and tells of no other upload.
LEMMA MarkingEndures ==
  ASSUME ServiceInv, ServiceInv', ServingInv, DurableInv, NEW c \in Call,
         NEW i, i = req[c].id, Adapter(c), call[c].op = "markReady"
  PROVE  DurableInv'
<1> DEFINE r == call[c]
           s == call'[c]
<1>1. WriterStands(c, i) /\ MarkingDoes(c, i)
  BY WritersStand, MarkingSteps
<1>2. /\ UNCHANGED <<req, content, promise>> /\ stored' = stored /\ i \in Id
      /\ On(c, i) /\ InFlight(c) /\ r.id = i /\ req[c].stage = "marking"
      /\ sidecar[i] \in OnDisk /\ r \in CallType /\ Elsewhere(c, i) /\ Upholds(c)
  BY <1>1 DEF WriterStands, WriterDoes
<1>3. /\ Parse(sidecar[i]).meta = sidecar[i].meta /\ NoFile.meta = Null
      /\ Content(r).meta = r.meta
      /\ Parse(sidecar[i]).state = "ready" => sidecar[i].state = "ready"
      /\ sidecar[i].state = "ready" => Parse(sidecar[i]).state = "ready"
      /\ NoFile.state = "none"
  BY <1>2, MetaFacts, ParsedFacts DEF Content, File, Parse
<1>4. ASSUME NEW m \in Meta, Claimed(i, m)' PROVE Claimed(i, m)
  <2>1. m # Null
    BY MetaFacts
  <2>2. m \in {sidecar[i].meta, r.got.meta, r.meta} => Claimed(i, m)
    BY <1>2 DEF Claimed, Told
  <2>3. sidecar'[i].meta = m => Claimed(i, m)
    BY <1>1, <1>3, <2>2 DEF MarkingDoes
  <2>4. s.got.meta = m \/ s.meta = m => Claimed(i, m)
    BY <1>1, <1>3, <2>1, <2>2 DEF MarkingDoes
  <2>5. ASSUME NEW d \in Call, Cached(d, i)'.meta = m PROVE Claimed(i, m)
    <3>1. Cached(d, i)' \in {NoFile, Cached(d, i), r.got, Content(r)}
      BY <1>1 DEF MarkingDoes
    <3> QED BY <1>3, <2>1, <2>2, <2>5, <3>1 DEF Claimed
  <2>6. \A d \in Call \ {c} : call'[d].got = call[d].got /\ call'[d].meta = call[d].meta
    BY <1>1 DEF WriterStands
  <2> QED BY <1>2, <1>4, <2>3, <2>4, <2>5, <2>6, ClaimsStay
<1>5. Leaves(c, i)
  BY <1>2, <1>4 DEF Leaves
<1>6. /\ Drafts(r, tmp[i])
      /\ \A m \in {sidecar[i].meta, r.got.meta, r.meta} \ {Null} : Checked(i, m)
      /\ Live(i) /\ (r.pc \in {"commit", "done"} \/ r.got.state = "ready")
           => sidecar[i].state = "ready"
      /\ promise[i] = "acked" =>
           /\ r.pc \in {"read", "resume", "done", "failed"}
           /\ r.pc = "resume" => r.got.state = "ready"
      /\ promise[i] = "acked" => sidecar[i].state = "ready"
  BY <1>2 DEF Upholds, Marks, DurableInv, AckedIsReady
<1>7. \A m : Checked(i, m)' <=> Checked(i, m)
  BY <1>2 DEF Checked
<1>8. \A m \in {sidecar'[i].meta, s.got.meta, s.meta} \ {Null} : Checked(i, m)
  <2>1. /\ sidecar'[i].meta \in {sidecar[i].meta, r.meta}
        /\ s.got.meta \in {Null, r.got.meta, sidecar[i].meta}
        /\ s.meta \in {Null, r.meta, r.got.meta}
    BY <1>1, <1>3 DEF MarkingDoes
  <2> QED BY <1>6, <2>1
<1>9. r.meta \in Meta => Content(r).state = "ready"
  BY ContentFacts
<1>10. Live(i) /\ (s.pc \in {"commit", "done"} \/ s.got.state = "ready")
         => sidecar'[i].state = "ready"
  BY <1>1, <1>3, <1>6, <1>9 DEF MarkingDoes
<1>11. promise[i] = "acked" =>
         s.pc \in {"resume", "done", "failed"} /\ (s.pc = "resume" => s.got.state = "ready")
  BY <1>1, <1>3, <1>6 DEF MarkingDoes
<1>12. Marks(c)'
  <2>1. s.pc \notin {"open", "write"} /\ Drafts(s, tmp'[i])
    BY <1>1 DEF MarkingDoes
  <2>2. Live(i)' <=> Live(i)
    BY <1>2 DEF Live
  <2> QED BY <1>2, <1>7, <1>8, <1>10, <1>11, <2>1, <2>2 DEF Marks
<1>13. Carries(c, i)
  BY <1>2, <1>12 DEF Carries, Upholds, Uploads, Reserves, FindsWhatThereIs, Notifies, InFlight,
     Removal
<1>14. sidecar'[i] = sidecar[i] \/ (ReadyIsChecked(i)' /\ AckedIsReady(i)')
  <2>1. SUFFICES ASSUME r.pc = "rename", sidecar'[i] = Content(r), r.meta \in Meta
                 PROVE  ReadyIsChecked(i)' /\ AckedIsReady(i)'
    BY <1>1 DEF MarkingDoes
  <2>2. Checked(i, sidecar'[i].meta) /\ promise[i] # "acked"
    BY <1>3, <1>6, <2>1, MetaFacts
  <2> QED BY <1>2, <2>2 DEF ReadyIsChecked, AckedIsReady, Checked
<1> QED BY <1>2, <1>5, <1>13, <1>14, StepEndures

\* What a step of a reservation does, knowing what the call counts on.
ReservingDoes(c, i) ==
  LET r == call[c]
      s == call'[c]
      same == sidecar'[i] = sidecar[i]
  IN  /\ s.got = NoFile /\ Drafts(s, tmp'[i])
      /\ \A d \in Call : \/ Cached(d, i)' \in {NoFile, Cached(d, i)}
                         \/ r.pc = "commit" /\ Cached(d, i)' = Content(r)
      /\ \/ /\ r.pc = "read" /\ same
            /\ \/ s.pc = "conflict"
               \/ s.pc = "tmpOpen" /\ s.meta = r.meta /\ sidecar[i].meta = Null
         \/ /\ r.pc = "open" /\ s.meta = r.meta
            /\ \/ /\ sidecar[i] = NoFile /\ sidecar'[i] = Torn
                  /\ s.pc = "write" /\ s.fd = "final"
               \/ s.pc = "read" /\ sidecar[i] # NoFile /\ same
         \/ /\ r.pc \in {"tmpOpen", "tmpWrite"} /\ same /\ s.meta = r.meta
            /\ s.pc \in {"tmpWrite", "rename"}
         \/ /\ r.pc \in {"write", "rename"} /\ s.pc = "commit" /\ s.meta = r.meta
            /\ r.meta \in Meta /\ (same \/ sidecar'[i] = Content(r))
         \/ r.pc = "commit" /\ same /\ s.pc = "done" /\ Cached(c, i)' \in {NoFile, Content(r)}
         \/ r.pc \in Awaitable /\ same /\ s.pc = "failed"

LEMMA ReservingSteps ==
  ASSUME NEW c \in Call, NEW i, WriterStands(c, i), call[c].op = "reserve"
  PROVE  ReservingDoes(c, i)
<1> DEFINE r == call[c]
           s == call'[c]
<1>1. /\ Drafts(r, tmp[i]) /\ r.got = NoFile /\ i \in Id
      /\ r.pc = "write" => r.fd = "gone" \/ (r.fd = "final" /\ sidecar[i] = Torn)
      /\ WriterDoes(c, i) /\ s.op = r.op /\ r.op = "reserve" /\ req[c].id = i
      /\ r.pc \in Writing => r.meta \in Meta
      /\ sidecar[i] \in OnDisk
  BY DEF WriterStands, Upholds, Reserves, On
<1>2. \A d \in Call : \/ Cached(d, i)' \in {NoFile, Cached(d, i)}
                      \/ r.pc = "commit" /\ Cached(d, i)' = Content(r)
  BY <1>1 DEF WriterDoes
<1>3. CASE WriterReads(c, i)
  <2>1. Parse(sidecar[i]) = NoFile => sidecar[i].meta = Null
    BY <1>1, MetaFacts
  <2> QED BY <1>1, <1>2, <1>3, <2>1 DEF ReservingDoes, WriterReads, Drafts, Keeps
<1>4. CASE WriterOpens(c, i)
  BY <1>1, <1>2, <1>4 DEF ReservingDoes, WriterOpens, Drafts, Keeps
<1>5. CASE WriterDrafts(c, i)
  BY <1>1, <1>2, <1>5 DEF ReservingDoes, WriterDrafts, Drafts, Keeps
<1>6. CASE WriterWrites(c, i) /\ r.pc = "tmpWrite"
  <2>1. s.pc = "rename" /\ Keeps(r, s) /\ r.fd = "tmp" /\ tmp[i] = Torn
    BY <1>1, <1>6 DEF WriterWrites, Drafts
  <2>2. sidecar'[i] = sidecar[i] /\ tmp'[i] \in Landed(tmp[i], Content(r))
    BY <1>6, <2>1 DEF WriterWrites
  <2>3. tmp'[i] = Content(s)
    BY <1>1, <2>1, <2>2 DEF Landed, Content, Keeps
  <2> QED BY <1>1, <1>2, <1>6, <2>1, <2>2, <2>3 DEF ReservingDoes, Drafts, Keeps
<1>7. CASE WriterWrites(c, i) /\ r.pc = "write"
  <2>1. s.pc = "commit" /\ Keeps(r, s) /\ r.meta \in Meta
    BY <1>1, <1>7 DEF WriterWrites, Writing
  <2>2. sidecar'[i] \in {sidecar[i], Content(r)}
    BY <1>1, <1>7 DEF WriterWrites, Landed
  <2> QED BY <1>1, <1>2, <1>7, <2>1, <2>2 DEF ReservingDoes, Drafts, Keeps
<1>8. CASE WriterRenames(c, i)
  <2>1. r.pc = "rename" /\ tmp[i] = Content(r) /\ r.meta \in Meta
    BY <1>1, <1>8 DEF WriterRenames, Drafts, Writing
  <2>2. sidecar'[i] = Content(r) /\ s.pc = "commit" /\ Keeps(r, s)
    BY <1>8, <2>1, ContentFacts DEF WriterRenames
  <2> QED BY <1>1, <1>2, <2>1, <2>2 DEF ReservingDoes, Drafts, Keeps
<1>9. CASE WriterCommits(c, i)
  BY <1>1, <1>2, <1>9 DEF ReservingDoes, WriterCommits, Drafts
<1>10. WriterWrites(c, i) => r.pc \in {"write", "tmpWrite"}
  BY DEF WriterWrites
<1>11. CASE WriterFails(c, i)
  <2>1. sidecar'[i] = sidecar[i] /\ s.pc = "failed" /\ s.got = NoFile /\ r.pc \in Awaitable
    BY <1>1, <1>11 DEF WriterFails, Drafts
  <2> QED BY <1>2, <2>1 DEF ReservingDoes, Drafts, Awaitable
<1> QED BY <1>1, <1>3, <1>4, <1>5, <1>6, <1>7, <1>8, <1>9, <1>10, <1>11
        DEF WriterDoes, WriterChecks

\* A reservation replaces nothing that was promised, and what it says is what its own
\* create says, or what was said before.
LEMMA ReservingEndures ==
  ASSUME Sticky, Routed, Routed', ServiceInv, ServiceInv', ServingInv, DurableInv, NEW c \in Call,
         NEW i, i = req[c].id, Adapter(c), call[c].op = "reserve"
  PROVE  DurableInv'
<1> DEFINE r == call[c]
           s == call'[c]
           new == req[c].meta
<1>1. WriterStands(c, i) /\ ReservingDoes(c, i)
  BY WritersStand, ReservingSteps
<1>2. /\ UNCHANGED <<req, content, promise>> /\ stored' = stored /\ i \in Id
      /\ On(c, i) /\ InFlight(c) /\ r.id = i /\ req[c].stage = "reserving" /\ Running(c)
      /\ sidecar[i] \in OnDisk /\ r \in CallType /\ Elsewhere(c, i) /\ Upholds(c)
      /\ \A d \in Call \ {c} : call'[d].got = call[d].got /\ call'[d].meta = call[d].meta
  BY <1>1 DEF WriterStands, WriterDoes
<1>3. /\ req[c].op = "post" /\ new \in Meta
      /\ \A d \in Call \ {c} : On(d, i) => req[d].stage # "reserving"
  <2>1. req[c].op = "post"
    BY <1>2 DEF ServiceInv, ReqsOK, ReqOK
  <2>2. \A d \in Call \ {c} : On(d, i) => Early(d)
    BY <1>2, EarlyFacts
  <2> QED BY <1>2, <2>1, <2>2 DEF Upholds, Uploads, Early
<1>4. /\ r.got = NoFile /\ r.meta = new /\ Drafts(r, tmp[i])
      /\ r.pc \in {"write", "tmpOpen", "tmpWrite", "rename"} => sidecar[i].meta = Null
      /\ r.pc = "commit" => \A m \in Meta : Told(i, m) => m = new
      /\ (\E d \in Call \ {c} : On(d, i)) => \A m \in Meta : Claimed(i, m) => m = new
      /\ promise[i] = "fresh" =>
           /\ \A m \in Meta : Claimed(i, m) => m = new
           /\ r.pc \in {"open", "write", "commit", "done", "failed"}
           /\ r.pc = "open" => sidecar[i] = NoFile
  BY <1>2 DEF Upholds, Reserves
<1>5. /\ NoFile.meta = Null /\ Torn.meta = Null /\ Null \notin Meta
      /\ NoFile.state = "none" /\ Torn.state = "torn"
      /\ Content(r).meta = new /\ Content(r).state # "ready"
      /\ sidecar[i].state = "ready" => sidecar[i].meta \in Meta
  <2>1. r.op = "reserve"
    OBVIOUS
  <2> QED BY <1>2, <1>3, <1>4, <2>1, MetaFacts, ParsedFacts, ContentFacts
<1>6. ASSUME NEW m \in Meta, Told(i, m)'
      PROVE  Told(i, m) \/ (m = new /\ s.pc = "commit")
  <2>1. sidecar'[i].meta = m => Told(i, m) \/ (m = new /\ s.pc = "commit")
    BY <1>1, <1>5 DEF ReservingDoes, Told
  <2>2. ASSUME NEW d \in Call, On(d, i),
               \/ call'[d].got.meta = m
               \/ req[d].stage = "marking" /\ call'[d].meta = m
               \/ req[d].op = "post" /\ req[d].stage # "reserving" /\ req[d].meta = m
        PROVE  Told(i, m)
    <3>1. CASE d = c
      BY <1>1, <1>2, <1>5, <2>2, <3>1 DEF ReservingDoes
    <3>2. CASE d # c
      BY <1>2, <2>2, <3>2 DEF Told
    <3> QED BY <3>1, <3>2
  <2> QED BY <1>2, <1>6, <2>1, <2>2 DEF Told, On, InFlight
<1>7. ASSUME NEW m \in Meta, Claimed(i, m)'
      PROVE  Claimed(i, m) \/ (m = new /\ (s.pc = "commit" \/ r.pc = "commit"))
  <2>1. ASSUME NEW d \in Call, Cached(d, i)'.meta = m
        PROVE  Claimed(i, m) \/ (m = new /\ r.pc = "commit")
    BY <1>1, <1>5, <2>1 DEF ReservingDoes, Claimed
  <2> QED BY <1>6, <1>7, <2>1 DEF Claimed
<1>8. ASSUME s.pc = "commit", NEW m \in Meta, Told(i, m)' PROVE m = new
  <2>1. SUFFICES ASSUME Told(i, m) PROVE m = new
    BY <1>6, <1>8
  <2>2. sidecar[i].meta = Null
    BY <1>1, <1>4, <1>8 DEF ReservingDoes
  <2>3. PICK d \in Call :
          /\ On(d, i)
          /\ \/ call[d].got.meta = m
             \/ req[d].stage = "marking" /\ call[d].meta = m
             \/ req[d].op = "post" /\ req[d].stage # "reserving" /\ req[d].meta = m
    BY <1>5, <2>1, <2>2 DEF Told
  <2>4. d # c
    BY <1>2, <1>4, <1>5, <2>3
  <2> QED BY <1>4, <2>1, <2>3, <2>4 DEF Claimed
<1>9. ASSUME s.pc = "done", NEW m \in Meta, Claimed(i, m)' PROVE m = new
  <2>1. r.pc = "commit" /\ Cached(c, i)' \in {NoFile, Content(r)}
    BY <1>1, <1>9 DEF ReservingDoes
  <2>2. \A d \in Call : Cached(d, i)' \in {NoFile, Cached(c, i)'}
    BY <1>2, OneHome DEF Cached
  <2> QED BY <1>4, <1>5, <1>6, <1>9, <2>1, <2>2 DEF Claimed
<1>10. Reserves(c)'
  <2>1. s.got = NoFile /\ Drafts(s, tmp'[i]) /\ (Running(c)' => s.meta = new)
    BY <1>1, <1>4 DEF ReservingDoes, Running
  <2>2. /\ s.pc \in {"write", "tmpOpen", "tmpWrite", "rename"} => sidecar'[i].meta = Null
        /\ s.pc = "write" => s.fd = "final" /\ sidecar'[i] = Torn
    BY <1>1, <1>4, <1>5 DEF ReservingDoes
  <2>3. (\E d \in Call \ {c} : On(d, i)) \/ promise[i] = "fresh" =>
          \A m \in Meta : Claimed(i, m)' => m = new
    BY <1>4, <1>7
  <2>4. promise[i] = "fresh" => s.pc \in {"write", "commit", "done", "failed"}
    BY <1>1, <1>4 DEF ReservingDoes
  <2>5. \A d \in Call : On(d, i)' => On(d, i)
    BY <1>2 DEF On, InFlight
  <2> QED BY <1>2, <1>8, <1>9, <2>1, <2>2, <2>3, <2>4, <2>5 DEF Reserves
<1>11. OneUpload(i)'
  <2>1. CASE s.pc = "commit"
    BY <1>2, <2>1 DEF OneUpload, Committing, On, InFlight
  <2>2. CASE r.pc = "commit"
    <3>1. s.pc = "done"
      BY <1>1, <2>2 DEF ReservingDoes, Awaitable
    <3> QED BY <1>9, <3>1 DEF OneUpload
  <2>3. CASE s.pc # "commit" /\ r.pc # "commit"
    <3>1. \A m \in Meta : Claimed(i, m)' => Claimed(i, m)
      BY <1>7, <2>3
    <3>2. \A d \in Call : ~Committing(d, i)
      BY <1>3, <2>3 DEF Committing
    <3>3. OneUpload(i)
      BY <1>2 DEF DurableInv
    <3> QED BY <3>1, <3>2, <3>3 DEF OneUpload
  <2> QED BY <2>1, <2>2, <2>3
<1>12. sidecar'[i] = sidecar[i] \/ (sidecar[i].state # "ready" /\ sidecar'[i].state # "ready")
  BY <1>1, <1>4, <1>5 DEF ReservingDoes
<1>13. FreshIsUnheardOf(i)' /\ ReadyIsChecked(i)' /\ AckedIsReady(i)'
  <2>1. FreshIsUnheardOf(i)'
    BY <1>2, <1>3 DEF FreshIsUnheardOf, On, InFlight
  <2>2. ReadyIsChecked(i) /\ AckedIsReady(i)
    BY <1>2 DEF DurableInv
  <2> QED BY <1>2, <1>12, <2>1, <2>2 DEF ReadyIsChecked, AckedIsReady, Checked
<1>14. Leaves(c, i)
  BY <1>2 DEF Leaves
<1>15. Carries(c, i)
  BY <1>2, <1>10
     DEF Carries, Upholds, Uploads, FindsWhatThereIs, Marks, Notifies, InFlight, Removal
<1>16. Settles(i)
  BY <1>11, <1>13 DEF Settles
<1> QED BY <1>2, <1>14, <1>15, <1>16, StepEndures

LEMMA AdapterKeepsDurable ==
  ASSUME Sticky, Routed, Routed', ServiceInv, ServiceInv', ServingInv, DurableInv, NEW c \in Call,
         Adapter(c)
  PROVE  DurableInv'
<1>1. Linked(c) /\ Running(c)
  <2>1. Linked(c) /\ Fits(call[c]) /\ StorageInv /\ StorageStep(c)
    BY DEF ServingInv, Linked, ServiceInv, Adapter
  <2> QED BY <2>1, StorageStepWorks
<1>2. call[c].op \in {"reserve", "load", "remove", "markReady", "resolve"}
  <2>1. req[c].stage \in DOMAIN Awaited /\ call[c].op = Awaited[req[c].stage]
    BY <1>1 DEF Linked
  <2> QED BY <2>1, AwaitedFacts
<1> QED BY <1>2, GetterEndures, MarkingEndures, ReservingEndures

-----------------------------------------------------------------------------

\* Every request on the artifacts routed to the process is gone: what is left of those is
\* the disk.  The others are not touched.
LEMMA CrashKeepsDurable ==
  ASSUME Sticky, Routed, ServiceInv, ServiceInv', DurableInv, NEW p \in Proc, Crash(p)
  PROVE  DurableInv'
<1>1. /\ UNCHANGED <<sidecar, tmp, stored, content>>
      /\ req' = [c \in Call |-> IF procOf[c] = p THEN NoReq ELSE req[c]]
      /\ call' = [c \in Call |-> IF procOf[c] = p THEN Idle ELSE call[c]]
      /\ cache' = [cache EXCEPT ![p] = EmptyCache]
      /\ promise' = [i \in Id |->
           IF /\ promise[i] = "fresh"
              /\ \E c \in Call : procOf[c] = p /\ On(c, i) /\ req[c].op = "post"
           THEN "withdrawn" ELSE promise[i]]
  BY DEF Crash, CrashStorage
<1>2. cache \in [Proc -> CacheType] /\ promise \in [Id -> {"fresh", "open", "acked", "withdrawn"}]
  BY DEF ServiceInv, StorageInv, PromiseType
<1>3. \A i \in Id : Durable(i)
  BY DurableIs DEF DurableSplit
<1>4. \A c \in Call, i \in Id :
        /\ procOf[c] = p => ~On(c, i)' /\ Cached(c, i)' = NoFile
        /\ procOf[c] # p => /\ req'[c] = req[c] /\ call'[c] = call[c]
                             /\ (On(c, i)' <=> On(c, i)) /\ Cached(c, i)' = Cached(c, i)
  BY <1>1, <1>2, ProcAssumption DEF Cached, EmptyCache, On, InFlight, NoReq
<1>5. ASSUME NEW i \in Id, i \notin Routes[p] PROVE Durable(i)'
  <2>1. \A c \in Call : procOf[c] = p => ~On(c, i)
    BY <1>5 DEF Routed, On
  <2>2. SameAt(i)
    BY <1>1, <1>4, <2>1 DEF SameAt
  <2> QED BY <1>3, <2>2, SameEndures
<1>6. ASSUME NEW i \in Id, i \in Routes[p] PROVE Durable(i)'
  <2>1. \A c \in Call : ~On(c, i)'
    BY <1>4, <1>6, ProcAssumption DEF Sticky, Routed, On
  <2>2. \A c \in Call : Cached(c, i)' = NoFile
    BY <1>4, <1>6, ProcAssumption DEF Sticky, Routed, Cached
  <2>3. \A m \in Meta : Claimed(i, m)' => sidecar[i].meta = m
    BY <1>1, <2>1, <2>2, MetaFacts DEF Claimed, Told
  <2>4. Durable(i)
    BY <1>3
  <2>5. OneUpload(i)' /\ OneUploader(i)'
    BY <2>1, <2>3 DEF OneUpload, OneUploader
  <2>6. FreshIsUnheardOf(i)'
    <3>1. SUFFICES ASSUME promise'[i] = "fresh"
                   PROVE  sidecar[i] = NoFile /\ \A m \in Meta : ~Claimed(i, m)'
      BY <1>1 DEF FreshIsUnheardOf
    <3>2. promise[i] = "fresh" /\ \A c \in Call : On(c, i) => req[c].op # "post"
      BY <1>1, <1>4, <2>1, <3>1
    <3>3. sidecar[i] = NoFile
      BY <2>4, <3>2 DEF Durable, FreshIsUnheardOf
    <3> QED BY <2>3, <3>3, MetaFacts
  <2>7. ReadyIsChecked(i)' /\ AckedIsReady(i)'
    <3>1. promise'[i] = "acked" => promise[i] = "acked"
      BY <1>1
    <3> QED BY <1>1, <2>4, <3>1 DEF Durable, ReadyIsChecked, AckedIsReady, Checked
  <2> QED BY <2>1, <2>5, <2>6, <2>7 DEF Durable
<1>7. \A i \in Id : Durable(i)'
  BY <1>5, <1>6
<1>8. DurableSplit'
  BY DurableIs, PTL
<1> QED BY <1>7, <1>8 DEF DurableSplit

LEMMA InitDurable == Init => DurableInv
<1> SUFFICES ASSUME Init PROVE DurableInv
  OBVIOUS
<1>1. /\ \A c \in Call : req[c] = NoReq /\ ~InFlight(c)
      /\ \A i \in Id : sidecar[i] = NoFile /\ promise[i] = "fresh"
      /\ \A c \in Call, i \in Id : Cached(c, i) = NoFile
  BY ProcAssumption DEF Init, InitStorage, EmptyCache, InFlight, NoReq, Cached
<1>2. \A i \in Id, m \in Meta : ~Claimed(i, m)
  BY <1>1, MetaFacts DEF Claimed, Told, On
<1>3. ASSUME NEW i \in Id PROVE Durable(i)
  BY <1>1, <1>2, ParsedFacts
     DEF Durable, On, OneUpload, FreshIsUnheardOf, OneUploader, ReadyIsChecked, AckedIsReady
<1> QED BY <1>3, InitServiceHolds, DurableIs DEF DurableSplit

LEMMA StutterKeepsDurable ==
  ASSUME ServiceInv, ServiceInv', DurableInv, UNCHANGED vars
  PROVE  DurableInv'
<1>1. \A i \in Id : SameAt(i)
  BY DEF vars, storageVars, SameAt, On, InFlight, Cached
<1>2. \A i \in Id : Durable(i)'
  BY <1>1, DurableIs, SameEndures DEF DurableSplit
<1>3. DurableSplit'
  BY DurableIs, PTL
<1> QED BY <1>2, <1>3 DEF DurableSplit

LEMMA NextKeepsDurable ==
  ASSUME Sticky, Races = {}
  PROVE  ServiceInv /\ ServiceInv' /\ Routed /\ Routed' /\ ServingInv /\ DurableInv
           /\ [Next]_vars => DurableInv'
<1> SUFFICES ASSUME ServiceInv, ServiceInv', Routed, Routed', ServingInv, DurableInv, [Next]_vars
             PROVE  DurableInv'
  OBVIOUS
<1>1. CASE \E c \in Call : Client(c)
  BY <1>1, ClientKeepsDurable
<1>2. CASE \E c \in Call : Adapter(c)
  BY <1>2, AdapterKeepsDurable
<1>3. CASE \E c \in Call : Handler(c)
  BY <1>3, HandlerKeepsDurable
<1>4. CASE \E p \in Proc : Crash(p)
  BY <1>4, CrashKeepsDurable
<1>5. CASE UNCHANGED vars
  BY <1>5, StutterKeepsDurable
<1> QED BY <1>1, <1>2, <1>3, <1>4, <1>5 DEF Next, Work

\* One upload at a time is spoken of, one request at a time writes or completes it, and
\* what was told of it stays true of the disk, through removals, refused creates, late
\* cache fills and crashes: the inductive invariant behind the next two theorems.
THEOREM DurableInvariant ==
  ASSUME Sticky, Races = {}
  PROVE  Spec => []DurableInv
<1>1. ServiceInv /\ ServiceInv' /\ Routed /\ Routed' /\ ServingInv /\ DurableInv
        /\ [Next]_vars => DurableInv'
  BY NextKeepsDurable
<1>2. Spec => []ServingInv
  BY ServingInvariant
<1> QED BY <1>1, <1>2, InitServiceHolds, NextKeeps, RoutedAlways, InitDurable, PTL DEF Spec

LEMMA ReadyIsVouchedFor ==
  ASSUME ServingInv, DurableInv, NEW i \in Id,
         sidecar[i].state = "ready", "bytes" \in stored[i]
  PROVE  Vouched(i, sidecar[i])
<1>1. Presentable(content[i]) /\ Bytes(i) = content[i]
  BY DEF ServingInv, ReadyIsPresentable, Ready, Bytes
<1>2. Checked(i, sidecar[i].meta)
  BY DEF DurableInv, ReadyIsChecked
<1> QED BY <1>1, <1>2 DEF Vouched, GoodFor, Checked

\* A ready sidecar vouches for the byte file beside it, for any number of artifacts,
\* processes, requests and crashes: what a crash left of an earlier upload
\* of the artifactId is never taken for the bytes of one that came with a checksum.
THEOREM ReadyVouchesForBytesHolds ==
  ASSUME Sticky, Races = {}
  PROVE  Spec => []ReadyVouchesForBytes
<1>1. ServingInv /\ DurableInv => ReadyVouchesForBytes
  BY ReadyIsVouchedFor DEF ReadyVouchesForBytes
<1>2. Spec => []ServingInv
  BY ServingInvariant
<1> QED BY <1>1, <1>2, DurableInvariant, PTL

\* An acknowledged upload stays on disk, whole, validated and ready, until someone asks
\* for its removal, for any number of artifacts, processes, requests and crashes.
THEOREM AckedIsDurableHolds ==
  ASSUME Sticky, Races = {}
  PROVE  Spec => []AckedIsDurable
<1>1. ServingInv /\ DurableInv => AckedIsDurable
  <2>1. DurableInv => \A i \in Id : AckedIsReady(i)
    BY DEF DurableInv
  <2> QED BY <2>1, ReadyIsVouchedFor DEF AckedIsReady, AckedIsDurable
<1>2. Spec => []ServingInv
  BY ServingInvariant
<1> QED BY <1>1, <1>2, DurableInvariant, PTL

-----------------------------------------------------------------------------
(* What the service promises its clients: every step is one of the contract *)
(* or leaves it alone, for sticky routing and no races.                     *)

\* What is held is whole, if anything is; it is there once acknowledged and not before
\* anything was asked.
HeldIsRight(i) ==
  /\ Held(i) = NothingHeld \/ Held(i) \in WholeUpload
  /\ promise[i] = "fresh" => Held(i) = NothingHeld
  /\ promise[i] = "acked" => Held(i) # NothingHeld
AllHeldIsRight == \A i \in Id : HeldIsRight(i)

\* What the three invariants say of what is held: it passed the checks for the metadata it
\* is served as (the sidecar's, vouched for by the validators), and an acknowledged one is
\* there.
LEMMA HoldsWhole == ServiceInv /\ ServingInv /\ DurableInv => AllHeldIsRight
<1> SUFFICES ASSUME ServiceInv, ServingInv, DurableInv, NEW i \in Id PROVE HeldIsRight(i)
  BY DEF AllHeldIsRight
<1>1. Held(i) = NothingHeld \/ Held(i) \in WholeUpload
  <2> SUFFICES ASSUME sidecar[i].state = "ready", "bytes" \in stored[i]
               PROVE  Held(i) \in WholeUpload
    BY DEF Held
  <2>1. sidecar[i].meta \in Meta /\ content[i] \in Body
    BY MetaFacts DEF ServiceInv, StorageInv
  <2>2. GoodFor(content[i], sidecar[i].meta)
    BY ReadyIsVouchedFor DEF Vouched, Bytes
  <2> QED BY <2>1, <2>2 DEF Held, WholeUpload, Body
<1>2. promise[i] = "fresh" => Held(i) = NothingHeld
  BY DEF ServingInv, FreshIsVirgin, Virgin, Held
<1>3. promise[i] = "acked" => Held(i) # NothingHeld
  <2> SUFFICES ASSUME promise[i] = "acked" PROVE Held(i) # NothingHeld
    OBVIOUS
  <2>1. sidecar[i].state = "ready" /\ "bytes" \in stored[i]
    BY DEF DurableInv, AckedIsReady
  <2>2. sidecar[i].meta \in Meta /\ Null \notin Meta
    BY <2>1, MetaFacts DEF ServiceInv, StorageInv
  <2> QED BY <2>1, <2>2 DEF Held, NothingHeld
<1> QED BY <1>1, <1>2, <1>3 DEF HeldIsRight

\* A step of the contract, or one that it does not see.
ContractStep == [Contract!Next]_(Contract!vars)

\* A step that changes one artifact in one of the contract's ways.
Deals(i) ==
  LET before == Held(i)
      after == Held(i)'
  IN  \/ /\ after = before /\ promise'[i] \in {promise[i], "withdrawn"}
      \/ /\ after = before /\ before = NothingHeld /\ promise[i] # "acked"
         /\ promise'[i] = "open"
      \/ /\ after = before /\ before # NothingHeld /\ promise[i] = "open"
         /\ promise'[i] = "acked"
      \/ /\ promise'[i] = promise[i] /\ promise[i] = "withdrawn" /\ after = NothingHeld
      \/ /\ promise'[i] = promise[i] /\ promise[i] \in {"open", "withdrawn"}
         /\ before = NothingHeld /\ after \in WholeUpload
OthersHeld(i) == \A j \in Id \ {i} : Held(j)' = Held(j) /\ promise'[j] = promise[j]

\* Such a step of one artifact, the others left alone, is a step of the contract: the
\* functions that the two specifications keep by artifact change at that one only.
LEMMA DealIsContract ==
  ASSUME ServiceInv, ServiceInv', NEW i \in Id, Deals(i), OthersHeld(i)
  PROVE  ContractStep
<1> DEFINE held == [j \in Id |-> Held(j)]
           now == [j \in Id |-> Held(j)']
<1>1. promise \in PromiseType /\ promise' \in PromiseType
  BY DEF ServiceInv
<1>2. promise' = [promise EXCEPT ![i] = promise'[i]]
  BY <1>1 DEF PromiseType, OthersHeld
<1>3. now = [held EXCEPT ![i] = Held(i)']
  BY DEF OthersHeld
<1>4. Held(i)' = Held(i) => now = held
  BY DEF OthersHeld
<1>5. held[i] = Held(i)
  OBVIOUS
<1>6. promise'[i] = promise[i] => promise' = promise
  BY <1>1, <1>2 DEF PromiseType
<1> HIDE DEF held, now
<1>7. \/ now = held /\ promise' = promise
      \/ now = held /\ promise' = [promise EXCEPT ![i] = "withdrawn"]
      \/ /\ now = held /\ held[i] = NothingHeld /\ promise[i] # "acked"
         /\ promise' = [promise EXCEPT ![i] = "open"]
      \/ /\ now = held /\ held[i] # NothingHeld /\ promise[i] = "open"
         /\ promise' = [promise EXCEPT ![i] = "acked"]
      \/ /\ promise' = promise /\ promise[i] = "withdrawn"
         /\ now = [held EXCEPT ![i] = NothingHeld]
      \/ /\ promise' = promise /\ promise[i] \in {"open", "withdrawn"}
         /\ held[i] = NothingHeld
         /\ \E upload \in WholeUpload : now = [held EXCEPT ![i] = upload]
  BY <1>2, <1>3, <1>4, <1>5, <1>6 DEF Deals
<1> QED BY <1>7 DEF ContractStep, Contract!Next, Contract!vars, Contract!Open,
   Contract!Acknowledge, Contract!Withdraw, Contract!Remove, Contract!Finish,
   Contract!Tell, held, now

\* A step that tells no client anything: what was held stays, or goes where its removal
\* was asked for; what comes where nothing was held is whole.
Steady(i) ==
  \/ Held(i)' = Held(i) \/ Held(i) = NothingHeld
  \/ Held(i)' = NothingHeld /\ promise[i] = "withdrawn"
\* So a step that leaves the promises alone is one, when what the artifact has held before
\* and after is right.
LEMMA QuietIsContract ==
  ASSUME ServiceInv, ServiceInv', AllHeldIsRight, AllHeldIsRight', NEW i \in Id,
         UNCHANGED promise, Steady(i), \A j \in Id \ {i} : Held(j)' = Held(j)
  PROVE  ContractStep
<1>1. /\ HeldIsRight(i) /\ HeldIsRight(i)' /\ promise'[i] = promise[i]
      /\ promise[i] \in {"fresh", "open", "acked", "withdrawn"}
  BY DEF AllHeldIsRight, ServiceInv, PromiseType
<1>2. Deals(i)
  BY <1>1 DEF Deals, Steady, HeldIsRight
<1> QED BY <1>2, DealIsContract DEF OthersHeld

\* Where the disk stays as it is, so does what is held.
LEMMA SameDiskHolds ==
  ASSUME UNCHANGED <<sidecar, stored, content>>
  PROVE  \A i \in Id : Held(i)' = Held(i)
BY DEF Held

\* Every step of a storage call: a reservation never replaces a ready sidecar, a mark
\* only one of the same upload, and only what was withdrawn is removed.
LEMMA AdapterIsContract ==
  ASSUME ServiceInv, ServiceInv', ServingInv, DurableInv, AllHeldIsRight,
         AllHeldIsRight', NEW c \in Call, Adapter(c), NEW i, i = req[c].id
  PROVE  ContractStep
<1> DEFINE r == call[c]
<1>1. UNCHANGED <<req, content, promise>> /\ StorageInv /\ StorageStep(c)
  BY DEF Adapter, ServiceInv
<1>2. Linked(c) /\ Fits(r) /\ RemovesWithdrawn(c) /\ Works(c) /\ Running(c)
  <2>1. Linked(c) /\ Fits(r) /\ RemovesWithdrawn(c)
    BY DEF ServingInv, Linked, DurableInv
  <2> QED BY <1>1, <2>1, StorageStepWorks
<1>3. /\ InFlight(c) /\ r.id = i /\ i \in Id /\ On(c, i)
      /\ req[c].stage \in DOMAIN Awaited /\ r.op = Awaited[req[c].stage]
  BY <1>2 DEF Linked, Works, Running, Idle, On
<1>4. \A j \in Id \ {i} : Held(j)' = Held(j)
  BY <1>1, <1>2, <1>3 DEF Works, Held
<1>5. r.op \in {"reserve", "load", "remove", "markReady", "resolve"}
  BY <1>3, AwaitedFacts
<1>6. CASE r.op \in {"load", "resolve", "remove"}
  <2>1. GetterDoes(c, i)
    BY <1>1, <1>2, <1>3, <1>6, GetterSteps
  <2>2. CASE r.op # "remove"
    <3>1. Held(i)' = Held(i)
      BY <1>1, <2>1, <2>2 DEF GetterDoes, Held
    <3> QED BY <1>1, <1>3, <1>4, <3>1, QuietIsContract DEF Steady
  <2>3. CASE r.op = "remove"
    <3>1. promise[i] = "withdrawn"
      BY <1>2, <1>3, <2>3, AwaitedFacts DEF RemovesWithdrawn, Removal
    <3>2. sidecar'[i] \in {sidecar[i], NoFile} /\ stored'[i] \subseteq stored[i]
      BY <1>2, <1>3, <2>1 DEF GetterDoes, Works
    <3>3. Held(i)' \in {Held(i), NothingHeld}
      BY <1>1, <3>2, ParsedFacts DEF Held
    <3> QED BY <1>1, <1>3, <1>4, <3>1, <3>3, QuietIsContract DEF Steady
  <2> QED BY <2>2, <2>3
<1>7. CASE r.op = "markReady"
  <2>1. MarkingDoes(c, i) /\ WriterDoes(c, i)
    <3>1. WriterStands(c, i)
      BY <1>7, WritersStand
    <3> QED BY <1>7, <3>1, MarkingSteps DEF WriterStands
  <2>2. stored' = stored /\ (sidecar'[i] = sidecar[i] \/ sidecar'[i] = Content(r))
    BY <2>1 DEF WriterDoes, MarkingDoes
  <2>3. CASE sidecar'[i] = sidecar[i] \/ Held(i) = NothingHeld
    <3>1. Steady(i)
      BY <1>1, <2>2, <2>3 DEF Steady, Held
    <3> QED BY <1>1, <1>3, <1>4, <3>1, QuietIsContract
  <2>4. CASE sidecar'[i] = Content(r) /\ Held(i) # NothingHeld /\ sidecar'[i] # sidecar[i]
    <3>1. r.meta \in Meta /\ sidecar[i].state = "ready" /\ sidecar[i].meta \in Meta
      BY <1>1, <1>3, <2>1, <2>4, MetaFacts DEF MarkingDoes, Held, StorageInv
    <3>2. Claimed(i, r.meta) /\ Claimed(i, sidecar[i].meta)
      <4>1. req[c].stage = "marking"
        BY <1>3, <1>7, AwaitedFacts
      <4> QED BY <1>3, <4>1 DEF Claimed, Told
    <3>3. ~\E d \in Call : Committing(d, i)
      <4>1. ASSUME NEW d \in Call, Committing(d, i) PROVE FALSE
        <5>1. req[c].stage = "marking" /\ d # c
          BY <1>3, <1>7, <4>1, AwaitedFacts DEF Committing
        <5>2. Early(c)
          BY <1>3, <4>1, <5>1, EarlyFacts DEF Committing
        <5> QED BY <5>1, <5>2 DEF Early
      <4> QED BY <4>1
    <3>4. r.meta = sidecar[i].meta
      BY <1>3, <3>1, <3>2, <3>3 DEF DurableInv, OneUpload
    <3>5. Content(r).state = "ready" /\ Content(r).meta = r.meta
      BY <1>7, <3>1, ContentFacts
    <3>6. Held(i)' = Held(i)
      BY <1>1, <2>2, <2>4, <3>1, <3>4, <3>5 DEF Held
    <3> QED BY <1>1, <1>3, <1>4, <3>6, QuietIsContract DEF Steady
  <2> QED BY <2>2, <2>3, <2>4
<1>8. CASE r.op = "reserve"
  <2>1. ReservingDoes(c, i) /\ WriterDoes(c, i) /\ Reserves(c)
    <3>1. WriterStands(c, i)
      BY <1>8, WritersStand
    <3> QED BY <1>8, <3>1, ReservingSteps DEF WriterStands, Upholds
  <2>2. req[c].stage = "reserving"
    BY <1>3, <1>8, AwaitedFacts
  <2>3. \/ sidecar'[i] = sidecar[i]
        \/ sidecar[i] = NoFile
        \/ sidecar[i].meta = Null
    BY <2>1, <2>2 DEF ReservingDoes, Reserves
  <2>4. sidecar[i] \in OnDisk
    BY <1>1, <1>3 DEF StorageInv
  <2>5. sidecar'[i] = sidecar[i] \/ sidecar[i].state # "ready"
    BY <2>3, <2>4, MetaFacts
  <2>6. Steady(i)
    BY <1>1, <2>1, <2>5 DEF Steady, Held, WriterDoes
  <2> QED BY <1>1, <1>3, <1>4, <2>6, QuietIsContract
<1> QED BY <1>5, <1>6, <1>7, <1>8

\* Every write to the store file: one is created where nothing is ready, what is received
\* changes no whole file, and only what was withdrawn is unlinked.
LEMMA WritesAreContract ==
  ASSUME ServiceInv, ServiceInv', ServingInv, DurableInv, AllHeldIsRight,
         AllHeldIsRight', NEW c \in Call, NEW i, i = req[c].id,
         CreateFile(c) \/ CreateInfo(c) \/ Receive(c) \/ Unlink(c) \/ Unregister(c)
  PROVE  ContractStep
<1>1. /\ InFlight(c) /\ i \in Id /\ UNCHANGED <<sidecar, promise>>
      /\ stored \in [Id -> SUBSET StoreFile] /\ content \in [Id -> Body]
  BY DEF CreateFile, CreateInfo, Receive, Unlink, Unregister, Begin, InFlight, ServiceInv,
     StorageInv, ReqsOK, ReqOK
<1>2. \A j \in Id \ {i} : stored'[j] = stored[j] /\ content'[j] = content[j]
  BY <1>1 DEF CreateFile, CreateInfo, Receive, Unlink, Unregister, Begin
<1>3. \A j \in Id \ {i} : Held(j)' = Held(j)
  BY <1>1, <1>2 DEF Held
<1>4. CASE CreateFile(c)
  <2>1. ~Ready(i)
    <3>1. Linked(c) /\ ReservesUnready(c)
      BY DEF ServingInv
    <3> QED BY <1>4, <3>1 DEF Linked, ReservesUnready, Pending, CreateFile
  <2>2. Held(i) = NothingHeld
    BY <2>1 DEF Ready, Held
  <2> QED BY <1>1, <1>3, <2>2, QuietIsContract DEF Steady
<1>5. CASE CreateInfo(c)
  <2>1. content' = content /\ ("bytes" \in stored'[i] <=> "bytes" \in stored[i])
    BY <1>1, <1>5 DEF CreateInfo
  <2>2. Held(i)' = Held(i)
    BY <1>1, <2>1 DEF Held
  <2> QED BY <1>1, <1>3, <2>2, QuietIsContract DEF Steady
<1>6. CASE Receive(c)
  <2>1. stored' = stored
    BY <1>6 DEF Receive, Begin
  <2>2. CASE Held(i) = NothingHeld
    BY <1>1, <1>3, <2>2, QuietIsContract DEF Steady
  <2>3. CASE Held(i) # NothingHeld
    <3>1. content[i].len = Size /\ content[i] \in Body
      <4>1. HeldIsRight(i) /\ Held(i).bytes = content[i]
        BY <1>1, <2>3 DEF AllHeldIsRight, Held
      <4> QED BY <1>1, <2>3, <4>1 DEF HeldIsRight, WholeUpload, GoodFor, Presentable
    <3>2. PICK n \in 0..Size :
            n >= content[i].len /\ (content' = [content EXCEPT ![i].len = n] \/ content' = content)
      BY <1>6 DEF Receive
    <3>3. n = Size
      BY <3>1, <3>2, SizeAssumption
    <3>4. content'[i] = content[i]
      BY <1>1, <3>1, <3>2, <3>3 DEF Body
    <3>5. Held(i)' = Held(i)
      BY <1>1, <2>1, <3>4 DEF Held
    <3> QED BY <1>1, <1>3, <3>5, QuietIsContract DEF Steady
  <2> QED BY <2>2, <2>3
<1>7. CASE Unlink(c) \/ Unregister(c)
  <2>1. promise[i] = "withdrawn"
    BY <1>7 DEF DurableInv, RemovesWithdrawn, Removal, Unlink, Unregister
  <2>2. content' = content /\ stored'[i] \subseteq stored[i]
    BY <1>1, <1>7 DEF Unlink, Unregister
  <2>3. Held(i)' \in {Held(i), NothingHeld}
    BY <1>1, <2>2 DEF Held
  <2> QED BY <1>1, <1>3, <2>1, <2>3, QuietIsContract DEF Steady
<1> QED BY <1>4, <1>5, <1>6, <1>7

\* What clients are told, and all that happens in memory only.
LEMMA TellingIsContract ==
  ASSUME ServiceInv, ServiceInv', ServingInv, DurableInv, AllHeldIsRight, NEW c \in Call,
         NEW i, i = req[c].id, Handler(c), ~(CreateFile(c) \/ CreateInfo(c) \/ Receive(c) \/ Unlink(c)
                       \/ Unregister(c))
  PROVE  ContractStep
<1>1. InFlight(c) /\ i \in Id /\ promise \in PromiseType
  BY DEF Handler, Refused, Authorized, Reserved, AcquireLock, LockTimeout, FileGone, Accept,
     Reject, Rejected, MarkedReady, HookDone, HookFailed, Removed, Resolved, Send, FailClosed, StoreFails,
     Returned, Succeeded, InFlight, ServiceInv, ReqsOK, ReqOK
<1>2. UNCHANGED <<sidecar, stored, content>>
  BY DEF Handler, Refused, Authorized, Reserved, AcquireLock, LockTimeout, FileGone, Accept,
     Reject, Rejected, MarkedReady, HookDone, HookFailed, Removed, Resolved, Send, FailClosed, StoreFails,
     Answer, Await, Begin, storageVars
<1>3. \A j \in Id : Held(j)' = Held(j)
  BY <1>2, SameDiskHolds
<1>4. \/ promise' = promise \/ Withdraw(i)
      \/ Reserved(c) \/ HookDone(c)
  BY DEF Handler, Refused, Authorized, Reserved, AcquireLock, LockTimeout, FileGone, Accept,
     Reject, Rejected, MarkedReady, HookDone, HookFailed, Removed, Resolved, Send,
     FailClosed, StoreFails
<1>5. HeldIsRight(i)
  BY <1>1 DEF AllHeldIsRight
<1>6. CASE promise' = promise
  <2>1. Deals(i) /\ OthersHeld(i)
    BY <1>1, <1>3, <1>6 DEF Deals, OthersHeld
  <2> QED BY <1>1, <2>1, DealIsContract
<1>7. CASE Withdraw(i)
  <2>1. Deals(i) /\ OthersHeld(i)
    BY <1>1, <1>3, <1>7 DEF Deals, OthersHeld, Withdraw, PromiseType
  <2> QED BY <1>1, <2>1, DealIsContract
<1>8. CASE Reserved(c) /\ call[c].pc = "done"
  <2>1. Held(i) = NothingHeld
    <3>1. req[c].stage = "reserving" /\ req[c].op = "post" /\ ReservesUnready(c)
      BY <1>8 DEF Reserved, Returned, ServiceInv, ReqsOK, ReqOK, ServingInv
    <3>2. ~Ready(i)
      BY <1>8, <3>1 DEF ReservesUnready, Pending
    <3> QED BY <3>2 DEF Ready, Held
  <2>2. /\ promise'[i] \in {"open", "withdrawn"}
        /\ \A j \in Id \ {i} : promise'[j] = promise[j]
    BY <1>1, <1>8 DEF Reserved, PromiseType
  <2>3. Deals(i) /\ OthersHeld(i)
    BY <1>1, <1>3, <1>5, <2>1, <2>2 DEF Deals, OthersHeld, HeldIsRight
  <2> QED BY <1>1, <2>3, DealIsContract
<1>10. CASE Reserved(c) /\ call[c].pc # "done"
  <2>1. promise' = [promise EXCEPT ![i] = IF @ = "fresh" THEN "withdrawn" ELSE @]
    BY <1>10 DEF Reserved
  <2>2. Deals(i) /\ OthersHeld(i)
    BY <1>1, <1>3, <2>1 DEF Deals, OthersHeld, PromiseType
  <2> QED BY <1>1, <2>2, DealIsContract
<1>9. CASE HookDone(c)
  <2>1. /\ req[c].stage = "notifying"
        /\ promise' = [promise EXCEPT ![i] = IF promise[i] = "open" THEN "acked" ELSE promise[i]]
    BY <1>9 DEF HookDone
  <2>2. promise[i] = "open" => Held(i) # NothingHeld
    <3> SUFFICES ASSUME promise[i] = "open" PROVE Held(i) # NothingHeld
      OBVIOUS
    <3>1. sidecar[i].state = "ready" /\ "bytes" \in stored[i]
      BY <2>1 DEF DurableInv, Notifies, KeepsBytes, Live, Completing
    <3>2. sidecar[i].meta \in Meta /\ Null \notin Meta
      BY <1>1, <3>1, MetaFacts DEF ServiceInv, StorageInv
    <3> QED BY <3>1, <3>2 DEF Held, NothingHeld
  <2>3. Deals(i) /\ OthersHeld(i)
    BY <1>1, <1>3, <2>1, <2>2 DEF Deals, OthersHeld, PromiseType
  <2> QED BY <1>1, <2>3, DealIsContract
<1> QED BY <1>4, <1>6, <1>7, <1>8, <1>9, <1>10

\* Nothing is held by a process: a crash only leaves first creates unanswered.
LEMMA CrashIsContract ==
  ASSUME ServiceInv, NEW p \in Proc, Crash(p)
  PROVE  ContractStep
<1> DEFINE held == [i \in Id |-> Held(i)]
           lost == {i \in Id : /\ promise[i] = "fresh"
                               /\ \E c \in Call : /\ procOf[c] = p /\ On(c, i)
                                                  /\ req[c].op = "post"}
<1>1. \A i \in Id : Held(i)' = Held(i)
  BY SameDiskHolds DEF Crash, CrashStorage
<1>2. promise' = [i \in Id |-> IF i \in lost THEN "withdrawn" ELSE promise[i]]
  BY DEF Crash
<1>3. lost \in SUBSET Id /\ \A i \in lost : promise[i] = "fresh"
  OBVIOUS
<1>4. [i \in Id |-> Held(i)'] = held
  BY <1>1
<1> HIDE DEF lost
<1>5. Contract!Crash(lost)
  BY <1>2, <1>3, <1>4 DEF Contract!Crash, held
<1> QED BY <1>3, <1>5 DEF ContractStep, Contract!Next

\* Every step of the service, then.
LEMMA NextIsContract ==
  ASSUME ServiceInv, ServiceInv', ServingInv, DurableInv, AllHeldIsRight,
         AllHeldIsRight', [Next]_vars
  PROVE  ContractStep
<1>1. CASE UNCHANGED <<sidecar, stored, content, promise>>
  <2>1. [i \in Id |-> Held(i)'] = [i \in Id |-> Held(i)]
    BY <1>1, SameDiskHolds
  <2> QED BY <1>1, <2>1 DEF ContractStep, Contract!vars
<1>2. CASE \E c \in Call : Client(c)
  <2>1. PICK c, op, i, m, offset : Arrive(c, op, i, m, offset)
    BY <1>2 DEF Client, Post, Patch, Get, Delete, Cancel
  <2>2. UNCHANGED <<sidecar, stored, content, promise>>
    BY <2>1 DEF Arrive, Begin
  <2> QED BY <1>1, <2>2
<1>3. CASE \E c \in Call : Adapter(c)
  <2>1. PICK c \in Call : Adapter(c)
    BY <1>3
  <2>2. PICK i : i = req[c].id
    OBVIOUS
  <2> QED BY <2>1, <2>2, AdapterIsContract
<1>4. CASE \E c \in Call : Handler(c)
  <2>1. PICK c \in Call : Handler(c)
    BY <1>4
  <2>2. PICK i : i = req[c].id
    OBVIOUS
  <2> QED BY <2>1, <2>2, WritesAreContract, TellingIsContract
<1>5. CASE \E p \in Proc : Crash(p)
  BY <1>5, CrashIsContract
<1>6. CASE UNCHANGED vars
  BY <1>1, <1>6 DEF vars, storageVars
<1> QED BY <1>2, <1>3, <1>4, <1>5, <1>6 DEF Next, Work

\* A service with nothing on disk has promised nothing.
LEMMA InitIsContract == Init => Contract!Init
BY ParsedFacts DEF Init, InitStorage, Contract!Init, Held

\* The service keeps its contract, for any number of artifacts, processes and requests, any
\* cache limit, any validators, and any crashes: no interleaving of creates,
\* retries, removals, lookups and late cache fills acknowledges what is not held whole,
\* or changes what was acknowledged.
THEOREM ContractImplemented ==
  ASSUME Sticky, Races = {}
  PROVE  Spec => ImplementsContract
<1>1. ServiceInv /\ ServiceInv' /\ ServingInv /\ DurableInv /\ AllHeldIsRight
        /\ AllHeldIsRight' /\ [Next]_vars => ContractStep
  BY NextIsContract
<1>2. Spec => []ServiceInv
  BY InitServiceHolds, NextKeeps, PTL DEF Spec
<1>3. Spec => []ServingInv
  BY ServingInvariant
<1>4. Spec => []DurableInv
  BY DurableInvariant
<1> QED BY <1>1, <1>2, <1>3, <1>4, HoldsWhole, InitIsContract, PTL
        DEF Spec, ImplementsContract, Contract!Spec, ContractStep

\* Each step of the contract keeps what was acknowledged, for as long as it stays so.
LEMMA ContractKeepsAcked ==
  ASSUME ServiceInv, Contract!Next
  PROVE  Contract!KeepsAcked
<1> DEFINE held == [j \in Id |-> Held(j)]
           next == [j \in Id |-> Held(j)']
<1>1. promise \in [Id -> {"fresh", "open", "acked", "withdrawn"}]
  BY DEF ServiceInv, PromiseType
<1>2. held \in [Id -> {Held(j) : j \in Id}]
  OBVIOUS
<1>3. SUFFICES ASSUME NEW i \in Id, promise[i] = "acked"
               PROVE  next[i] = held[i] /\ promise'[i] \in {"acked", "withdrawn"}
  BY DEF Contract!KeepsAcked, held, next
<1> HIDE DEF held, next
<1>4. CASE \E j \in Id : \/ Contract!Open(j) \/ Contract!Acknowledge(j)
                         \/ Contract!Withdraw(j)
  BY <1>1, <1>3, <1>4
     DEF Contract!Open, Contract!Acknowledge, Contract!Withdraw, Contract!Tell, held, next
<1>5. CASE \E j \in Id : \/ Contract!Remove(j)
                         \/ \E upload \in WholeUpload : Contract!Finish(j, upload)
  <2>1. \E j \in Id : /\ promise[j] # "acked" /\ promise' = promise
                     /\ \E h : next = [held EXCEPT ![j] = h]
    BY <1>5 DEF Contract!Remove, Contract!Finish, held, next
  <2> QED BY <1>2, <1>3, <2>1
<1>6. CASE \E unanswered \in SUBSET Id : Contract!Crash(unanswered)
  BY <1>3, <1>6 DEF Contract!Crash, held, next
<1> QED BY <1>4, <1>5, <1>6 DEF Contract!Next

\* What a client was told is complete never changes: no retry, create, lookup, late cache
\* fill or crash takes it away, gives it other bytes or lets another upload in, until
\* someone asks for its removal.
THEOREM AcknowledgedStays ==
  ASSUME Sticky, Races = {}
  PROVE  Spec => Contract!AckedStays
<1>1. ServiceInv /\ ContractStep => [Contract!KeepsAcked]_(Contract!vars)
  BY ContractKeepsAcked DEF ContractStep
<1>2. Spec => []ServiceInv
  BY InitServiceHolds, NextKeeps, PTL DEF Spec
<1>3. Spec => [][Contract!Next]_(Contract!vars)
  BY ContractImplemented, PTL DEF ImplementsContract, Contract!Spec
<1> QED BY <1>1, <1>2, <1>3, PTL DEF ContractStep, Contract!AckedStays
=============================================================================
