-------------------------- MODULE S3Storage_proofs --------------------------
(***************************************************************************)
(* The S3 adapter, for any number of artifacts, processes and calls, any   *)
(* cache limit, any backend and any overlap of its methods: the types, and *)
(* that the status "ready" is never made up.  As for the local adapter the *)
(* invariant needs that each call fits how it got where it is (Sound).     *)
(*                                                                         *)
(* Then, where overlap is left to a backend that honours IfNoneMatch       *)
(* (Orderly): what a call counts on stays true between its requests        *)
(* (SerialInv), and every step is one of ArtifactLifecycle, or of none.    *)
(***************************************************************************)
EXTENDS S3Storage, MetaCache_proofs, TLAPS

-----------------------------------------------------------------------------
(* One call.                                                               *)

LEMMA ParsedFacts ==
  /\ NoFile \in Parsed /\ NoFile.state = "none"
  /\ \A f \in Parsed : f.state \in {"none", "uploading", "ready"}
  /\ \A f \in Parsed : f # NoFile => f.meta \in Meta /\ f.state # "none"
  /\ \A i, done : Honest(i, NoFile, done)
BY DEF Parsed, NoFile, File, Honest

LEMMA IdleIsSound ==
  ASSUME NEW done
  PROVE  Sound(Idle, done)
BY ParsedFacts DEF Sound, Idle, CallType, Underway

LEMMA EndedIsSound ==
  ASSUME NEW done, NEW r, Sound(r, done), r.id \in Id,
         NEW pc \in {"done", "conflict", "failed"},
         NEW got \in Parsed, Honest(r.id, got, done)
  PROVE  Sound(Ended(r, pc, got), done)
BY ParsedFacts DEF Sound, Ended, Idle, CallType, Honest, Underway

LEMMA LoadedIsSound ==
  ASSUME NEW done, NEW r, Sound(r, done), r.id \in Id,
         r.op = "reserve" => r.meta \in Meta
  PROVE  Sound(Loaded(r), done)
<1>1. r.got \in Parsed /\ Honest(r.id, r.got, done) /\ Honest(r.id, NoFile, done)
  BY ParsedFacts DEF Sound, CallType, Honest
<1>2. /\ Sound(Ended(r, "conflict", NoFile), done)
      /\ Sound(Ended(r, "done", NoFile), done)
      /\ Sound(Ended(r, "done", r.got), done)
  BY <1>1, ParsedFacts, EndedIsSound
<1>3. r.op = "reserve" =>
        Sound([r EXCEPT !.pc = IF r.again THEN "put" ELSE "putNew"], done)
  BY DEF Sound, CallType, Underway
<1>4. /\ r.op = "remove" => Sound([r EXCEPT !.pc = "abort"], done)
      /\ r.op = "digest" => Sound([r EXCEPT !.pc = "fetch"], done)
  BY DEF Sound, CallType, Underway
<1> QED BY <1>2, <1>3, <1>4 DEF Loaded

\* More ids marked makes nothing dishonest or unsound.
LEMMA MarkingMoreKeeps ==
  ASSUME NEW done, NEW more, done \subseteq more
  PROVE  /\ \A i, f : Honest(i, f, done) => Honest(i, f, more)
         /\ \A r : Sound(r, done) => Sound(r, more)
BY DEF Honest, Sound

-----------------------------------------------------------------------------
(* Parts of the state.                                                     *)

\* Giving a slot a sound call keeps every slot's call sound.
LEMMA ContinueIsSound ==
  ASSUME Inv, NEW c \in Call, NEW r, Sound(r, marked), Continue(c, r)
  PROVE  call' \in [Call -> CallType] /\ \A d \in Call : Sound(call'[d], marked)
BY DEF Inv, TypeOK, Sound, Continue

\* So does giving the process of a slot a cache whose entries are honest.
LEMMA SetCacheIsHonest ==
  ASSUME Inv, NEW c \in Call, NEW k \in CacheType,
         \A i \in Id : Honest(i, k.entry[i], marked), SetCache(c, k)
  PROVE  /\ cache' \in [Proc -> CacheType]
         /\ \A p \in Proc, i \in Id : Honest(i, cache'[p].entry[i], marked)
BY ProcAssumption DEF Inv, TypeOK, SetCache

\* The cache of a slot's process has its type and is honest.
LEMMA CacheIsHonest ==
  ASSUME Inv, NEW c \in Call
  PROVE  /\ cache[procOf[c]] \in CacheType
         /\ \A j \in Id : Honest(j, cache[procOf[c]].entry[j], marked)
BY ProcAssumption DEF Inv, TypeOK

LEMMA AfterLoadIsHonest ==
  ASSUME NEW done, NEW r, r.id \in Id, NEW k \in CacheType,
         \A j \in Id : Honest(j, k.entry[j], done)
  PROVE  /\ CacheAfterLoad(r, k) \in CacheType
         /\ \A j \in Id : Honest(j, CacheAfterLoad(r, k).entry[j], done)
BY CacheDeleteIsHonest DEF CacheAfterLoad

-----------------------------------------------------------------------------
(* Each step of a call preserves the invariant.                            *)

LEMMA CallAtHand ==
  ASSUME Inv, NEW c \in Call
  PROVE  LET r == call[c]
         IN  /\ Sound(r, marked) /\ r.got \in Parsed
             /\ r.pc # "idle" => r.id \in Id /\ Honest(r.id, r.got, marked)
BY DEF Inv, Sound, CallType, Honest

LEMMA RejectIsSound ==
  ASSUME Inv, NEW c \in Call, call[c].pc # "idle", Reject(c)
  PROVE  call' \in [Call -> CallType] /\ \A d \in Call : Sound(call'[d], marked)
<1>1. Sound(Ended(call[c], "failed", NoFile), marked)
  BY CallAtHand, EndedIsSound, ParsedFacts
<1> QED BY <1>1, ContinueIsSound DEF Reject

LEMMA GetSidecarKeeps ==
  ASSUME Inv, NEW c \in Call, GetSidecar(c)
  PROVE  Inv'
<1> DEFINE r == call[c]
           s == [r EXCEPT !.got = sidecar[r.id], !.pc = "resume"]
<1>1. Sound(r, marked) /\ r.id \in Id /\ r.pc = "get"
  BY CallAtHand DEF GetSidecar
<1>2. sidecar[r.id] \in Parsed /\ Honest(r.id, sidecar[r.id], marked)
  BY <1>1 DEF Inv, TypeOK
<1>3. Sound(s, marked)
  BY <1>1, <1>2 DEF Sound, CallType, Honest, Underway
<1>4. Continue(c, s) \/ Reject(c)
  BY DEF GetSidecar, Fail
<1>5. call' \in [Call -> CallType] /\ \A d \in Call : Sound(call'[d], marked)
  BY <1>1, <1>3, <1>4, ContinueIsSound, RejectIsSound
<1> QED BY <1>5 DEF Inv, TypeOK, GetSidecar

LEMMA FillCacheKeeps ==
  ASSUME Inv, NEW c \in Call, FillCache(c)
  PROVE  Inv'
<1> DEFINE r == call[c]
           k == cache[procOf[c]]
           filled == IF r.got = NoFile THEN k ELSE CacheSet(k, r.id, r.got)
<1>1. /\ Sound(r, marked) /\ r.id \in Id /\ r.pc = "resume"
      /\ r.got \in Parsed /\ Honest(r.id, r.got, marked)
  BY CallAtHand DEF FillCache
<1>2. filled \in CacheType /\ \A j \in Id : Honest(j, filled.entry[j], marked)
  BY <1>1, CacheIsHonest, CacheSetIsHonest
<1>3. /\ CacheAfterLoad(r, filled) \in CacheType
      /\ \A j \in Id : Honest(j, CacheAfterLoad(r, filled).entry[j], marked)
  BY <1>1, <1>2, AfterLoadIsHonest
<1>4. SetCache(c, CacheAfterLoad(r, filled)) /\ Continue(c, Loaded(r))
  BY DEF FillCache
<1>5. /\ cache' \in [Proc -> CacheType]
      /\ \A p \in Proc, i \in Id : Honest(i, cache'[p].entry[i], marked)
  BY <1>3, <1>4, SetCacheIsHonest
<1>6. Sound(Loaded(r), marked)
  BY <1>1, LoadedIsSound DEF Sound, Underway
<1>7. call' \in [Call -> CallType] /\ \A d \in Call : Sound(call'[d], marked)
  BY <1>4, <1>6, ContinueIsSound
<1> QED BY <1>5, <1>7 DEF Inv, TypeOK, FillCache

\* A writing call writes "ready" only for an artifact markReady was called for.
LEMMA ContentIsHonest ==
  ASSUME NEW done, NEW r, Sound(r, done), r.pc \in {"putNew", "put", "commit"}
  PROVE  Content(r) \in Parsed /\ Honest(r.id, Content(r), done)
BY DEF Sound, Content, File, Parsed, Honest

LEMMA PutNewKeeps ==
  ASSUME Inv, NEW c \in Call, PutNew(c)
  PROVE  Inv'
<1> DEFINE r == call[c]
<1>1. Sound(r, marked) /\ r.id \in Id /\ r.pc = "putNew"
  BY CallAtHand DEF PutNew
<1>2. Content(r) \in Parsed /\ Honest(r.id, Content(r), marked)
  BY <1>1, ContentIsHonest
<1>3. /\ sidecar' \in [Id -> Parsed] /\ \A i \in Id : Honest(i, sidecar'[i], marked)
  BY <1>2 DEF Inv, TypeOK, PutNew
<1>4. /\ Sound([r EXCEPT !.pc = "commit"], marked)
      /\ Sound([r EXCEPT !.pc = "reload", !.again = TRUE], marked)
  BY <1>1 DEF Sound, CallType, Underway
<1>5. Sound(Ended(r, "conflict", NoFile), marked)
  BY <1>1, ParsedFacts, EndedIsSound
<1>6. call' \in [Call -> CallType] /\ \A d \in Call : Sound(call'[d], marked)
  <2>1. CASE Reject(c)
    BY <1>1, <2>1, RejectIsSound
  <2>2. CASE Continue(c, [r EXCEPT !.pc = "commit"])
    BY <1>4, <2>2, ContinueIsSound
  <2>3. CASE Continue(c, [r EXCEPT !.pc = "reload", !.again = TRUE])
    BY <1>4, <2>3, ContinueIsSound
  <2>4. CASE Continue(c, Ended(r, "conflict", NoFile))
    BY <1>5, <2>4, ContinueIsSound
  <2>5. CASE UNCHANGED call
    BY <2>5 DEF Inv, TypeOK
  <2> QED BY <2>1, <2>2, <2>3, <2>4, <2>5 DEF PutNew, Fail
<1> QED BY <1>3, <1>6 DEF Inv, TypeOK, PutNew

LEMMA LookupKeeps ==
  ASSUME Inv, NEW c \in Call, NEW done, marked \subseteq done,
         NEW r, Sound(r, done), r.id \in Id, r.pc \in {"idle", "reload"},
         r.op = "reserve" => r.meta \in Meta, Lookup(c, r)
  PROVE  /\ call' \in [Call -> CallType] /\ \A d \in Call : Sound(call'[d], done)
         /\ cache' \in [Proc -> CacheType]
         /\ \A p \in Proc, j \in Id : Honest(j, cache'[p].entry[j], marked)
<1> DEFINE k == cache[procOf[c]]
           hit == [r EXCEPT !.got = Cached(c, r.id)]
<1>1. /\ k \in CacheType /\ \A j \in Id : Honest(j, k.entry[j], marked)
      /\ Cached(c, r.id) \in Parsed /\ Honest(r.id, Cached(c, r.id), done)
  BY CacheIsHonest DEF Cached, CacheType, Honest
<1>2. Sound([r EXCEPT !.pc = "get"], done)
  BY DEF Sound, CallType, Underway
<1>3. Sound(hit, done) /\ hit.id = r.id /\ hit.op = r.op /\ hit.meta = r.meta
  BY <1>1 DEF Sound, CallType, Underway, Honest
<1>4. Sound(Loaded(hit), done)
  BY <1>3, LoadedIsSound
<1>5. \A d \in Call : Sound(call[d], done)
  BY MarkingMoreKeeps DEF Inv
<1>6. PICK s : Sound(s, done) /\ call' = [call EXCEPT ![c] = s]
  BY <1>2, <1>4 DEF Lookup, Continue
<1>7. call' \in [Call -> CallType] /\ \A d \in Call : Sound(call'[d], done)
  BY <1>5, <1>6 DEF Inv, TypeOK, Sound
<1>8. /\ CacheAfterLoad(hit, k) \in CacheType
      /\ \A j \in Id : Honest(j, CacheAfterLoad(hit, k).entry[j], marked)
  BY <1>1, <1>3, AfterLoadIsHonest
<1>9. /\ cache' \in [Proc -> CacheType]
      /\ \A p \in Proc, j \in Id : Honest(j, cache'[p].entry[j], marked)
  <2>1. CASE UNCHANGED cache
    BY <2>1 DEF Inv, TypeOK
  <2>2. CASE SetCache(c, CacheAfterLoad(hit, k))
    BY <1>8, <2>2, SetCacheIsHonest
  <2> QED BY <2>1, <2>2 DEF Lookup
<1> QED BY <1>7, <1>9

LEMMA ReloadKeeps ==
  ASSUME Inv, NEW c \in Call, Reload(c)
  PROVE  Inv'
<1> DEFINE r == call[c]
<1>1. Sound(r, marked) /\ r.id \in Id /\ r.pc = "reload" /\ Lookup(c, r)
  BY CallAtHand DEF Reload
<1>2. r.op = "reserve" => r.meta \in Meta
  BY <1>1 DEF Sound, Underway
<1>3. /\ call' \in [Call -> CallType] /\ \A d \in Call : Sound(call'[d], marked)
      /\ cache' \in [Proc -> CacheType]
      /\ \A p \in Proc, j \in Id : Honest(j, cache'[p].entry[j], marked)
  BY <1>1, <1>2, LookupKeeps
<1> QED BY <1>3 DEF Inv, TypeOK, Reload

LEMMA CheckStatusKeeps ==
  ASSUME Inv, NEW c \in Call, CheckStatus(c)
  PROVE  Inv'
<1> DEFINE r == call[c]
           s == [r EXCEPT !.pc = "put", !.meta = r.got.meta, !.got = NoFile]
<1>1. /\ Sound(r, marked) /\ r.id \in Id /\ r.pc = "resume" /\ r.op = "markReady"
      /\ r.got \in Parsed /\ Honest(r.id, r.got, marked)
  BY CallAtHand DEF CheckStatus
<1>2. r.got.state = "uploading" => Sound(s, marked)
  BY <1>1, ParsedFacts DEF Sound, CallType, Underway
<1>3. Sound(Ended(r, "done", NoFile), marked)
  BY <1>1, ParsedFacts, EndedIsSound
<1>4. call' \in [Call -> CallType] /\ \A d \in Call : Sound(call'[d], marked)
  <2>1. CASE Reject(c)
    BY <1>1, <2>1, RejectIsSound
  <2>2. CASE Continue(c, Ended(r, "done", NoFile))
    BY <1>3, <2>2, ContinueIsSound
  <2>3. CASE r.got.state = "uploading" /\ Continue(c, s)
    BY <1>2, <2>3, ContinueIsSound
  <2> QED BY <2>1, <2>2, <2>3 DEF CheckStatus
<1>5. /\ cache' \in [Proc -> CacheType]
      /\ \A p \in Proc, j \in Id : Honest(j, cache'[p].entry[j], marked)
  <2>1. CASE UNCHANGED cache
    BY <2>1 DEF Inv, TypeOK
  <2>2. CASE SetCache(c, CacheSet(cache[procOf[c]], r.id, r.got))
    BY <1>1, <2>2, CacheIsHonest, CacheSetIsHonest, SetCacheIsHonest
  <2> QED BY <2>1, <2>2 DEF CheckStatus
<1> QED BY <1>4, <1>5 DEF Inv, TypeOK, CheckStatus

LEMMA PutKeeps ==
  ASSUME Inv, NEW c \in Call, Put(c)
  PROVE  Inv'
<1> DEFINE r == call[c]
<1>1. Sound(r, marked) /\ r.id \in Id /\ r.pc = "put"
  BY CallAtHand DEF Put
<1>2. Content(r) \in Parsed /\ Honest(r.id, Content(r), marked)
  BY <1>1, ContentIsHonest
<1>3. /\ sidecar' \in [Id -> Parsed] /\ \A i \in Id : Honest(i, sidecar'[i], marked)
  BY <1>2 DEF Inv, TypeOK, Put
<1>4. Sound([r EXCEPT !.pc = "commit"], marked)
  BY <1>1 DEF Sound, CallType, Underway
<1>5. call' \in [Call -> CallType] /\ \A d \in Call : Sound(call'[d], marked)
  BY <1>1, <1>4, ContinueIsSound, RejectIsSound DEF Put, Fail
<1> QED BY <1>3, <1>5 DEF Inv, TypeOK, Put

LEMMA CommitToCacheKeeps ==
  ASSUME Inv, NEW c \in Call, CommitToCache(c)
  PROVE  Inv'
<1> DEFINE r == call[c]
<1>1. Sound(r, marked) /\ r.id \in Id /\ r.pc = "commit"
  BY CallAtHand DEF CommitToCache
<1>2. Content(r) \in Parsed /\ Honest(r.id, Content(r), marked)
  BY <1>1, ContentIsHonest
<1>3. /\ cache' \in [Proc -> CacheType]
      /\ \A p \in Proc, j \in Id : Honest(j, cache'[p].entry[j], marked)
  BY <1>1, <1>2, CacheIsHonest, CacheSetIsHonest, SetCacheIsHonest
     DEF CommitToCache
<1>4. Sound(Ended(r, "done", NoFile), marked)
  BY <1>1, ParsedFacts, EndedIsSound
<1>5. call' \in [Call -> CallType] /\ \A d \in Call : Sound(call'[d], marked)
  BY <1>4, ContinueIsSound DEF CommitToCache
<1> QED BY <1>3, <1>5 DEF Inv, TypeOK, CommitToCache

LEMMA AbortKeeps ==
  ASSUME Inv, NEW c \in Call, Abort(c)
  PROVE  Inv'
<1> DEFINE r == call[c]
           s == [r EXCEPT !.pc = "rm", !.todo = {"object", "sidecar"}]
<1>1. Sound(r, marked) /\ r.pc = "abort" /\ Continue(c, s)
  BY CallAtHand DEF Abort
<1>2. Sound(s, marked)
  BY <1>1 DEF Sound, CallType, Underway
<1>3. call' \in [Call -> CallType] /\ \A d \in Call : Sound(call'[d], marked)
  BY <1>1, <1>2, ContinueIsSound
<1>4. object' \in [Id -> SUBSET Meta]
  BY DEF Inv, TypeOK, Abort
<1> QED BY <1>3, <1>4 DEF Inv, TypeOK, Abort

LEMMA RmKeeps ==
  ASSUME Inv, NEW c \in Call, Rm(c)
  PROVE  Inv'
<1> DEFINE r == call[c]
<1>1. /\ Sound(r, marked) /\ r.id \in Id /\ r.pc \in {"rm", "rmFailed"}
      /\ r.got \in Parsed /\ Honest(r.id, r.got, marked)
  BY CallAtHand DEF Rm
<1>2. /\ Sound(Ended(r, "done", r.got), marked)
      /\ Sound(Ended(r, "failed", r.got), marked)
  BY <1>1, EndedIsSound
<1>3. \A f : /\ Sound([r EXCEPT !.todo = @ \ {f}, !.pc = r.pc], marked)
             /\ Sound([r EXCEPT !.todo = @ \ {f}, !.pc = "rmFailed"], marked)
  BY <1>1 DEF Sound, CallType, Underway
<1>4. PICK s : Sound(s, marked) /\ Continue(c, s)
  BY <1>1, <1>2, <1>3 DEF Rm
<1>5. call' \in [Call -> CallType] /\ \A d \in Call : Sound(call'[d], marked)
  BY <1>4, ContinueIsSound
<1>6. /\ sidecar' \in [Id -> Parsed] /\ \A i \in Id : Honest(i, sidecar'[i], marked)
  <2>1. \/ sidecar' = sidecar
        \/ sidecar' = [sidecar EXCEPT ![r.id] = NoFile]
    BY DEF Rm
  <2> QED BY <2>1, ParsedFacts DEF Inv, TypeOK
<1>7. object' \in [Id -> SUBSET Meta]
  <2>1. \/ object' = object
        \/ object' = [object EXCEPT ![r.id] = @ \ {r.got.meta}]
    BY DEF Rm
  <2> QED BY <2>1 DEF Inv, TypeOK
<1> QED BY <1>5, <1>6, <1>7 DEF Inv, TypeOK, Rm

LEMMA FetchKeeps ==
  ASSUME Inv, NEW c \in Call, Fetch(c)
  PROVE  Inv'
<1> DEFINE r == call[c]
           got == IF r.got.meta \in object[r.id] THEN r.got ELSE NoFile
<1>1. /\ Sound(r, marked) /\ r.id \in Id /\ r.pc = "fetch"
      /\ r.got \in Parsed /\ Honest(r.id, r.got, marked)
  BY CallAtHand DEF Fetch
<1>2. Sound(Ended(r, "done", got), marked)
  BY <1>1, ParsedFacts, EndedIsSound
<1>3. call' \in [Call -> CallType] /\ \A d \in Call : Sound(call'[d], marked)
  BY <1>1, <1>2, ContinueIsSound, RejectIsSound DEF Fetch, Fail
<1> QED BY <1>3 DEF Inv, TypeOK, Fetch

-----------------------------------------------------------------------------
(* The rest of Next.                                                       *)

LEMMA BeginKeeps ==
  ASSUME Inv, NEW c \in Call, NEW op \in Op, NEW i \in Id,
         NEW m \in Meta \cup {Null}, op = "reserve" => m \in Meta,
         Begin(c, op, i, m)
  PROVE  Inv'
<1> DEFINE r == [Idle EXCEPT !.op = op, !.id = i, !.meta = m]
           s == [r EXCEPT !.pc = "get"]
<1>1. /\ marked \subseteq marked' /\ marked' \subseteq Id
      /\ op = "markReady" => i \in marked'
  BY DEF Begin, Inv, TypeOK
<1>2. Sound(r, marked') /\ r.id = i /\ r.op = op /\ r.meta = m /\ r.pc = "idle"
  BY <1>1, ParsedFacts DEF Sound, Idle, CallType, Underway
<1> HIDE DEF r
<1>3. op # "reserve" => Sound(s, marked')
  BY <1>2 DEF Sound, CallType, Underway
<1>4. /\ call' \in [Call -> CallType] /\ \A d \in Call : Sound(call'[d], marked')
      /\ cache' \in [Proc -> CacheType]
      /\ \A p \in Proc, j \in Id : Honest(j, cache'[p].entry[j], marked)
  <2>1. CASE op = "markReady"
    <3>1. /\ call' = [call EXCEPT ![c] = s] /\ UNCHANGED cache
          /\ Sound(s, marked')
      BY <1>3, <2>1 DEF Begin, Continue, r
    <3>2. \A d \in Call : Sound(call[d], marked')
      BY <1>1, MarkingMoreKeeps DEF Inv
    <3> QED BY <3>1, <3>2 DEF Inv, TypeOK, Sound
  <2>2. CASE op # "markReady"
    <3>1. Lookup(c, r)
      BY <2>2 DEF Begin, r
    <3> QED BY <1>1, <1>2, <3>1, LookupKeeps
  <2> QED BY <2>1, <2>2
<1>5. /\ \A p \in Proc, j \in Id : Honest(j, cache'[p].entry[j], marked')
      /\ \A j \in Id : Honest(j, sidecar[j], marked')
  BY <1>1, <1>4, MarkingMoreKeeps DEF Inv
<1> QED BY <1>1, <1>4, <1>5 DEF Inv, TypeOK, Begin

LEMMA CrashKeeps ==
  ASSUME Inv, NEW p \in Proc, Crash(p)
  PROVE  Inv'
<1>1. call' \in [Call -> CallType] /\ \A c \in Call : Sound(call'[c], marked)
  BY IdleIsSound DEF Inv, TypeOK, Crash, Sound
<1>2. /\ cache' \in [Proc -> CacheType]
      /\ \A q \in Proc, i \in Id : Honest(i, cache'[q].entry[i], marked)
  BY EmptyCacheFacts, ParsedFacts DEF Inv, TypeOK, Crash
<1> QED BY <1>1, <1>2 DEF Inv, TypeOK, Crash

LEMMA InitHolds == Init => Inv
<1> SUFFICES ASSUME Init PROVE Inv
  OBVIOUS
<1>1. call \in [Call -> CallType] /\ \A c \in Call : Sound(call[c], marked)
  BY IdleIsSound DEF Init, Sound
<1>2. /\ cache \in [Proc -> CacheType]
      /\ \A p \in Proc, i \in Id : Honest(i, cache[p].entry[i], marked)
  BY EmptyCacheFacts, ParsedFacts DEF Init
<1> QED BY <1>1, <1>2, ParsedFacts DEF Init, Inv, TypeOK

LEMMA NextKeeps == Inv /\ [Next]_vars => Inv'
<1> SUFFICES ASSUME Inv, [Next]_vars PROVE Inv'
  OBVIOUS
<1>1. CASE \E c \in Call : Invoke(c)
  BY <1>1, BeginKeeps DEF Invoke
<1>2. CASE \E c \in Call : Step(c)
  BY <1>2, GetSidecarKeeps, FillCacheKeeps, PutNewKeeps, ReloadKeeps,
     CheckStatusKeeps, PutKeeps, CommitToCacheKeeps, AbortKeeps, RmKeeps,
     FetchKeeps DEF Step
<1>3. CASE \E i \in Id, m \in Meta : Deposit(i, m)
  BY <1>3 DEF Inv, TypeOK, Deposit
<1>4. CASE \E p \in Proc : Crash(p)
  BY <1>4, CrashKeeps
<1>5. CASE UNCHANGED vars
  BY <1>5 DEF Inv, TypeOK, vars
<1> QED BY <1>1, <1>2, <1>3, <1>4, <1>5 DEF Next

LEMMA InvImplies == Inv => TypeOK /\ ReadyIsMarked
BY DEF Inv, ReadyIsMarked, Honest, Sound

-----------------------------------------------------------------------------
(* The theorems.                                                           *)

\* The inductive invariant holds of the adapter under any caller and backend.
THEOREM Invariant == Spec => []Inv
BY InitHolds, NextKeeps, PTL DEF Spec

\* Every variable of the adapter always has its type.
THEOREM TypeCorrect == Spec => []TypeOK
BY Invariant, InvImplies, PTL

\* However calls overlap, requests fail and processes crash, no sidecar, cache or
\* call ever says "ready" of an artifact markReady was never called for.
THEOREM ReadyIsAlwaysMarked == Spec => []ReadyIsMarked
BY Invariant, InvImplies, PTL

LEMMA InvBounds == Inv => CachesStayBounded
BY MapIsBounded DEF Inv, TypeOK, CachesStayBounded

\* However long a process runs, whatever calls overlap in it and whichever requests fail,
\* it caches no more artifacts than metaCacheLimit.
THEOREM CachesAlwaysBounded == Spec => []CachesStayBounded
BY Invariant, InvBounds, PTL

-----------------------------------------------------------------------------
(* Mutating calls overlap only where the backend sorts them out (Orderly): *)
(* the adapter implements the life ArtifactLifecycle describes, lost       *)
(* answers, partial removals and crashes included.                         *)

LifeStep == [Lifecycle!Next]_(Lifecycle!vars)
Removals == {"rm", "rmFailed"}
Removing == {call[d].id : d \in {e \in Call : call[e].pc \in Removals}}

LEMMA LifecycleIs ==
  LifeStep <=> \/ \E i \in Id :
                    \/ \E m \in Meta :
                         /\ sidecar[i] = NoFile
                         /\ sidecar' = [sidecar EXCEPT ![i] = File("uploading", m)]
                         /\ Removing' = Removing
                    \/ /\ sidecar[i].state = "uploading"
                       /\ sidecar' = [sidecar EXCEPT ![i] = File("ready", sidecar[i].meta)]
                       /\ Removing' = Removing
                    \/ /\ i \in Removing
                       /\ sidecar' = [sidecar EXCEPT ![i] = NoFile]
                       /\ Removing' \in {Removing, Removing \ {i}}
                    \/ Removing' = Removing \cup {i} /\ sidecar' = sidecar
               \/ Removing' \in SUBSET Removing /\ sidecar' = sidecar
               \/ sidecar' = sidecar /\ Removing' = Removing
BY DEF LifeStep, Lifecycle!Next, Lifecycle!vars, Lifecycle!Reserve,
   Lifecycle!MarkReady, Lifecycle!Remove, Lifecycle!AskRemoval,
   Lifecycle!EndRemovals, Lifecycle!Nothing, Lifecycle!Upload, Removing, Removals,
   NoFile, File

LEMMA CallFacts ==
  ASSUME SerialInv, NEW c \in Call
  PROVE  /\ call[c] \in CallType /\ call \in [Call -> CallType]
         /\ sidecar \in [Id -> Parsed] /\ Sound(call[c], marked)
         /\ call[c].pc # "idle" => call[c].id \in Id
         /\ Mutating(c) => Counts(call[c], sidecar[call[c].id], backend)
BY DEF SerialInv, Inv, TypeOK, Sound

\* A step of one call that leaves other artifacts alone keeps SerialInv if it keeps
\* what the call counts on: whoever shares its artifact counts on nothing there.
LEMMA StepKeepsSerial ==
  ASSUME SerialInv, Inv', NEW c \in Call, Running(c), NEW s, Continue(c, s),
         backend' = backend, s.op = call[c].op, s.id = call[c].id,
         Mutating(c) \/ sidecar' = sidecar,
         \A j \in Id \ {s.id} : sidecar'[j] = sidecar[j],
         s.pc \in {"abort", "rm", "rmFailed"} => s.op = "remove",
         Underway(s) /\ s.op \in Mutator => Counts(s, sidecar'[s.id], backend)
  PROVE  SerialInv'
<1>1. call'[c] = s /\ \A d \in Call \ {c} : call'[d] = call[d]
  BY CallFacts DEF Continue
<1>2. \A d \in Call : Mutating(d)' => /\ Mutating(d) /\ call'[d].id = call[d].id
                                      /\ call'[d].op = call[d].op
  BY <1>1 DEF Mutating, Running
<1>3. Alone'
  BY <1>2 DEF SerialInv, Alone
<1>4. \A d \in Call : call'[d].pc \in {"abort", "rm", "rmFailed"} => call'[d].op = "remove"
  BY <1>1 DEF SerialInv
<1>5. ASSUME NEW d \in Call, Mutating(d)'
      PROVE  Counts(call'[d], sidecar'[call'[d].id], backend)
  <2>1. CASE d = c
    BY <1>1, <1>5, <2>1 DEF Mutating, Running
  <2>2. CASE d # c
    <3>1. /\ Mutating(d) /\ call'[d] = call[d] /\ call[d].id \in Id
          /\ Counts(call[d], sidecar[call[d].id], backend)
      BY <1>1, <1>2, <1>5, <2>2, CallFacts DEF Mutating, Running, Underway
    <3>2. CASE call[d].id # s.id \/ sidecar' = sidecar
      BY <3>1, <3>2
    <3>3. CASE call[d].id = s.id /\ Mutating(c)
      <4>1. backend = "conditional" /\ call[d].op = "reserve"
        BY <2>2, <3>1, <3>3 DEF SerialInv, Alone
      <4> QED BY <3>1, <4>1 DEF Counts
    <3> QED BY <3>2, <3>3
  <2> QED BY <2>1, <2>2
<1> QED BY <1>3, <1>4, <1>5 DEF SerialInv

\* A call that neither starts nor ends a removal.
LEMMA SameRemoving ==
  ASSUME SerialInv, NEW c \in Call, NEW s, Continue(c, s),
         call[c].pc \notin Removals, s.pc \notin Removals
  PROVE  Removing' = Removing
BY CallFacts DEF Removing, Continue

\* A step that changes no sidecar and no removal.
LEMMA QuietStep ==
  ASSUME SerialInv, Inv', NEW c \in Call, Running(c), NEW s, Continue(c, s),
         UNCHANGED <<backend, sidecar>>, s.op = call[c].op, s.id = call[c].id,
         call[c].pc \notin Removals, s.pc \notin Removals,
         s.pc = "abort" => s.op = "remove",
         Underway(s) /\ s.op \in Mutator => Counts(s, sidecar[s.id], backend)
  PROVE  SerialInv' /\ LifeStep
<1>1. SerialInv'
  BY StepKeepsSerial DEF Removals
<1>2. Removing' = Removing
  BY SameRemoving
<1> QED BY <1>1, <1>2, LifecycleIs

LEMMA EndedFacts ==
  ASSUME NEW r, NEW pc \in {"done", "conflict", "failed"}, NEW got
  PROVE  /\ Ended(r, pc, got).op = r.op /\ Ended(r, pc, got).id = r.id
         /\ ~Underway(Ended(r, pc, got)) /\ Ended(r, pc, got).pc = pc
BY DEF Ended, Idle, Underway

\* A call ends without having changed a sidecar.
LEMMA EndsQuietly ==
  ASSUME SerialInv, Inv', NEW c \in Call, Running(c), call[c].pc \notin Removals,
         NEW pc \in {"done", "conflict", "failed"}, NEW got,
         Continue(c, Ended(call[c], pc, got)), UNCHANGED <<backend, sidecar>>
  PROVE  SerialInv' /\ LifeStep
BY EndedFacts, QuietStep DEF Removals

LEMMA GetSidecarServes ==
  ASSUME SerialInv, NEW c \in Call, GetSidecar(c)
  PROVE  SerialInv' /\ LifeStep
<1> DEFINE r == call[c]
           s == [r EXCEPT !.got = sidecar[r.id], !.pc = "resume"]
<1>1. Inv' /\ Running(c) /\ r.pc = "get" /\ r \in CallType
  BY GetSidecarKeeps, CallFacts DEF SerialInv, GetSidecar, Running, Underway
<1>2. UNCHANGED <<backend, sidecar>>
  BY DEF GetSidecar
<1>3. CASE Continue(c, s)
  <2>1. /\ s.op = r.op /\ s.id = r.id /\ s.pc = "resume" /\ s.got = sidecar[r.id]
        /\ s.again = r.again
    BY <1>1 DEF CallType
  <2>2. Underway(s) /\ s.op \in Mutator => Counts(s, sidecar[s.id], backend)
    BY <1>1, <2>1, CallFacts DEF Counts, Mutating
  <2> HIDE DEF s
  <2> QED BY <1>1, <1>2, <1>3, <2>1, <2>2, QuietStep DEF Removals
<1>4. CASE Reject(c)
  BY <1>1, <1>2, <1>4, EndsQuietly DEF Reject, Removals
<1> QED BY <1>3, <1>4 DEF GetSidecar, Fail

\* What follows loadMeta: a reservation that found nothing counts on there being
\* no sidecar, unless the backend will look for itself.
LEMMA LoadedGoesOn ==
  ASSUME NEW r \in CallType, NEW file, NEW b,
         r.op \in Mutator /\ r.again => r.op = "reserve" /\ b # "conditional",
         r.op = "reserve" /\ r.got = NoFile => b = "conditional" \/ file = NoFile
  PROVE  /\ Loaded(r).op = r.op /\ Loaded(r).id = r.id
         /\ Loaded(r).pc \notin Removals
         /\ Loaded(r).pc = "abort" => r.op = "remove"
         /\ Underway(Loaded(r)) /\ r.op \in Mutator => Counts(Loaded(r), file, b)
<1>1. CASE r.op = "reserve" /\ r.got = NoFile
  <2>1. CASE r.again
    <3>1. Loaded(r) = [r EXCEPT !.pc = "put"]
      BY <1>1, <2>1 DEF Loaded
    <3> QED BY <1>1, <2>1, <3>1 DEF Counts, CallType, Removals
  <2>2. CASE ~r.again
    <3>1. Loaded(r) = [r EXCEPT !.pc = "putNew"]
      BY <1>1, <2>2 DEF Loaded
    <3> QED BY <1>1, <2>2, <3>1 DEF Counts, CallType, Removals
  <2> QED BY <2>1, <2>2
<1>2. CASE r.op = "remove" /\ r.got # NoFile
  <2>1. Loaded(r) = [r EXCEPT !.pc = "abort"]
    BY <1>2 DEF Loaded
  <2> QED BY <1>2, <2>1 DEF Counts, CallType, Removals
<1>3. CASE r.op = "digest" /\ r.got # NoFile
  <2>1. Loaded(r) = [r EXCEPT !.pc = "fetch"]
    BY <1>3 DEF Loaded
  <2> QED BY <1>3, <2>1 DEF CallType, Removals, Mutator
<1>4. CASE \E pc \in {"done", "conflict"} : \E got : Loaded(r) = Ended(r, pc, got)
  BY <1>4, EndedFacts DEF Removals
<1> QED BY <1>1, <1>2, <1>3, <1>4 DEF Loaded

LEMMA FillCacheServes ==
  ASSUME SerialInv, NEW c \in Call, FillCache(c)
  PROVE  SerialInv' /\ LifeStep
<1> DEFINE r == call[c]
<1>1. /\ Inv' /\ Running(c) /\ r \in CallType /\ r.pc = "resume"
      /\ Continue(c, Loaded(r)) /\ UNCHANGED <<backend, sidecar>>
  BY FillCacheKeeps, CallFacts DEF SerialInv, FillCache, Running, Underway
<1>2. r.op \in Mutator => Counts(r, sidecar[r.id], backend)
  BY <1>1, CallFacts DEF Mutating
<1>3. r.op \in Mutator /\ r.again => r.op = "reserve" /\ backend # "conditional"
  BY <1>2 DEF Counts
<1>4. r.op = "reserve" /\ r.got = NoFile
        => backend = "conditional" \/ sidecar[r.id] = NoFile
  BY <1>1, <1>2 DEF Counts, Mutator
<1>5. /\ Loaded(r).op = r.op /\ Loaded(r).id = r.id /\ Loaded(r).pc \notin Removals
      /\ Loaded(r).pc = "abort" => r.op = "remove"
      /\ Underway(Loaded(r)) /\ r.op \in Mutator
           => Counts(Loaded(r), sidecar[r.id], backend)
  BY <1>1, <1>3, <1>4, LoadedGoesOn
<1> QED BY <1>1, <1>5, QuietStep DEF Removals

LEMMA ReloadServes ==
  ASSUME SerialInv, NEW c \in Call, Reload(c)
  PROVE  SerialInv' /\ LifeStep
<1> DEFINE r == call[c]
           hit == [r EXCEPT !.got = Cached(c, r.id)]
           s == [r EXCEPT !.pc = "get"]
<1>1. /\ Inv' /\ Running(c) /\ r \in CallType /\ r.pc = "reload" /\ r.id \in Id
      /\ UNCHANGED <<backend, sidecar>> /\ Lookup(c, r)
  BY ReloadKeeps, CallFacts DEF SerialInv, Reload, Running, Underway
<1>2. r.op \in Mutator => Counts(r, sidecar[r.id], backend)
  BY <1>1, CallFacts DEF Mutating
<1>3. CASE Continue(c, s)
  <2>1. /\ s.op = r.op /\ s.id = r.id /\ s.pc = "get" /\ s.again = r.again
    BY <1>1 DEF CallType
  <2>2. Underway(s) /\ s.op \in Mutator => Counts(s, sidecar[s.id], backend)
    BY <1>2, <2>1 DEF Counts
  <2> HIDE DEF s
  <2> QED BY <1>1, <1>3, <2>1, <2>2, QuietStep DEF Removals
<1>4. CASE Cached(c, r.id) # NoFile /\ Continue(c, Loaded(hit))
  <2>1. /\ hit \in CallType /\ hit.op = r.op /\ hit.id = r.id
        /\ hit.again = r.again /\ hit.got # NoFile
    BY <1>1, <1>4, CacheIsHonest DEF CallType, Cached, CacheType, SerialInv
  <2>2. hit.op \in Mutator /\ hit.again => hit.op = "reserve" /\ backend # "conditional"
    BY <1>2, <2>1 DEF Counts
  <2> HIDE DEF hit
  <2>3. /\ Loaded(hit).op = r.op /\ Loaded(hit).id = r.id
        /\ Loaded(hit).pc \notin Removals
        /\ Loaded(hit).pc = "abort" => r.op = "remove"
        /\ Underway(Loaded(hit)) /\ r.op \in Mutator
             => Counts(Loaded(hit), sidecar[r.id], backend)
    BY <2>1, <2>2, LoadedGoesOn
  <2> QED BY <1>1, <1>4, <2>3, QuietStep DEF Removals
<1> QED BY <1>1, <1>3, <1>4 DEF Lookup

LEMMA CheckStatusServes ==
  ASSUME SerialInv, NEW c \in Call, CheckStatus(c)
  PROVE  SerialInv' /\ LifeStep
<1> DEFINE r == call[c]
           s == [r EXCEPT !.pc = "put", !.meta = r.got.meta, !.got = NoFile]
<1>1. /\ Inv' /\ Running(c) /\ r \in CallType /\ r.pc = "resume" /\ r.op = "markReady"
      /\ UNCHANGED <<backend, sidecar>> /\ r.id \in Id
  BY CheckStatusKeeps, CallFacts DEF SerialInv, CheckStatus, Running, Underway
<1>2. Counts(r, sidecar[r.id], backend) /\ sidecar[r.id] \in Parsed
  BY <1>1, CallFacts DEF Mutating, Mutator
<1>3. CASE \E pc \in {"done", "failed"} : Continue(c, Ended(r, pc, NoFile))
  BY <1>1, <1>3, EndsQuietly DEF Removals
<1>4. CASE r.got.state = "uploading" /\ Continue(c, s)
  <2>1. /\ s.op = r.op /\ s.id = r.id /\ s.pc = "put" /\ s.again = r.again
        /\ s.meta = r.got.meta
    BY <1>1 DEF CallType
  <2>2. sidecar[r.id] = File("uploading", r.got.meta)
    BY <1>1, <1>2, <1>4 DEF Counts, Parsed, NoFile, File
  <2>3. Counts(s, sidecar[s.id], backend)
    BY <1>1, <1>2, <2>1, <2>2 DEF Counts
  <2> HIDE DEF s
  <2> QED BY <1>1, <1>4, <2>1, <2>3, QuietStep DEF Removals
<1> QED BY <1>3, <1>4 DEF CheckStatus, Reject

LEMMA CommitServes ==
  ASSUME SerialInv, NEW c \in Call, CommitToCache(c) \/ Fetch(c)
  PROVE  SerialInv' /\ LifeStep
<1>1. /\ Inv' /\ Running(c) /\ call[c].pc \in {"commit", "fetch"}
      /\ UNCHANGED <<backend, sidecar>>
  BY CommitToCacheKeeps, FetchKeeps
     DEF SerialInv, CommitToCache, Fetch, Running, Underway
<1>2. PICK pc \in {"done", "failed"} : \E got : Continue(c, Ended(call[c], pc, got))
  BY DEF CommitToCache, Fetch, Fail, Reject
<1> QED BY <1>1, <1>2, EndsQuietly DEF Removals

\* The sidecar is replaced by what a call had made sure it may write.
LEMMA ReplacedServes ==
  ASSUME SerialInv, NEW c \in Call, Sound(call[c], marked), call[c].id \in Id,
         call[c].pc \in {"putNew", "put"}, Removing' = Removing,
         sidecar[call[c].id] = IF call[c].op = "reserve" THEN NoFile
                               ELSE File("uploading", call[c].meta),
         sidecar' = [sidecar EXCEPT ![call[c].id] = Content(call[c])]
  PROVE  LifeStep
<1> DEFINE r == call[c]
<1>1. r.meta \in Meta /\ r.op \in {"reserve", "markReady"}
  BY DEF Sound
<1>2. CASE r.op = "reserve"
  BY <1>1, <1>2, LifecycleIs DEF Content
<1>3. CASE r.op = "markReady"
  <2>1. /\ sidecar[r.id].state = "uploading" /\ sidecar[r.id].meta = r.meta
        /\ Content(r) = File("ready", r.meta)
    BY <1>3 DEF Content, File
  <2> QED BY <2>1, LifecycleIs
<1> QED BY <1>1, <1>2, <1>3

LEMMA PutServes ==
  ASSUME SerialInv, NEW c \in Call, PutNew(c) \/ Put(c)
  PROVE  SerialInv' /\ LifeStep
<1> DEFINE r == call[c]
           i == r.id
           landed == [sidecar EXCEPT ![i] = Content(r)]
           t == [r EXCEPT !.pc = "commit"]
           u == [r EXCEPT !.pc = "reload", !.again = TRUE]
<1>1. /\ Inv' /\ Running(c) /\ r \in CallType /\ r.pc \in {"putNew", "put"} /\ i \in Id
      /\ backend' = backend /\ Sound(r, marked) /\ sidecar \in [Id -> Parsed]
  BY PutNewKeeps, PutKeeps, CallFacts
     DEF SerialInv, PutNew, Put, Running, Underway
<1>2. r.op \in {"reserve", "markReady"} /\ Mutating(c) /\ Counts(r, sidecar[i], backend)
  BY <1>1, CallFacts DEF Sound, Mutating, Mutator
<1>3. PICK s : /\ Continue(c, s) /\ s.op = r.op /\ s.id = i
               /\ s.pc \notin Removals \cup {"abort"}
               /\ \/ ~Underway(s)
                  \/ s = t
                  \/ s = u /\ sidecar' = sidecar /\ PutNew(c) /\ backend = "unsupported"
                  \/ s = r /\ r.pc = "putNew" /\ backend = "conditional"
  <2>1. t.op = r.op /\ t.id = i /\ t.pc = "commit"
    BY <1>1 DEF CallType
  <2>2. u.op = r.op /\ u.id = i /\ u.pc = "reload"
    BY <1>1 DEF CallType
  <2>3. CASE Continue(c, t)
    <3> HIDE DEF t, u
    <3> QED BY <2>1, <2>3 DEF Removals
  <2>4. CASE \E pc \in {"conflict", "failed"} : Continue(c, Ended(r, pc, NoFile))
    <3>1. PICK pc \in {"conflict", "failed"} : Continue(c, Ended(r, pc, NoFile))
      BY <2>4
    <3> HIDE DEF t, u
    <3> QED BY <3>1, EndedFacts DEF Removals
  <2>5. CASE /\ Continue(c, u) /\ sidecar' = sidecar /\ PutNew(c)
             /\ backend = "unsupported"
    <3> HIDE DEF t, u
    <3> QED BY <2>2, <2>5 DEF Removals
  <2>6. CASE UNCHANGED call /\ r.pc = "putNew" /\ backend = "conditional"
    <3>1. Continue(c, r)
      BY <2>6, CallFacts DEF Continue
    <3> HIDE DEF r, t, u
    <3> QED BY <1>1, <2>6, <3>1 DEF Removals, i
  <2> QED BY <2>3, <2>4, <2>5, <2>6 DEF PutNew, Put, Fail, Reject
<1>4. Underway(s) => Counts(s, sidecar'[i], backend)
  <2>1. s = t => Counts(s, sidecar'[i], backend)
    BY <1>1, <1>2 DEF Counts, CallType
  <2>2. s = u /\ sidecar' = sidecar /\ PutNew(c) /\ backend = "unsupported"
          => Counts(s, sidecar'[i], backend)
    BY <1>1, <1>2 DEF Counts, CallType, PutNew
  <2>3. s = r /\ r.pc = "putNew" /\ backend = "conditional"
          => Counts(s, sidecar'[i], backend)
    BY <1>2 DEF Counts
  <2> QED BY <1>3, <2>1, <2>2, <2>3
<1>5. sidecar' = sidecar \/ sidecar' = landed
  BY DEF PutNew, Put
<1>6. SerialInv'
  BY <1>1, <1>2, <1>3, <1>4, <1>5, StepKeepsSerial DEF Removals
<1>7. Removing' = Removing
  BY <1>1, <1>3, SameRemoving DEF Removals
<1>8. CASE sidecar' = sidecar
  BY <1>6, <1>7, <1>8, LifecycleIs
<1>9. CASE sidecar' # sidecar
  <2>1. sidecar[i] = IF r.op = "reserve" THEN NoFile ELSE File("uploading", r.meta)
    BY <1>1, <1>2, <1>9 DEF Counts, PutNew, Put
  <2> QED BY <1>1, <1>5, <1>6, <1>7, <1>9, <2>1, ReplacedServes
<1> QED BY <1>8, <1>9

LEMMA AbortServes ==
  ASSUME SerialInv, NEW c \in Call, Abort(c)
  PROVE  SerialInv' /\ LifeStep
<1> DEFINE r == call[c]
           s == [r EXCEPT !.pc = "rm", !.todo = {"object", "sidecar"}]
<1>1. /\ Inv' /\ Running(c) /\ r \in CallType /\ r.pc = "abort" /\ r.op = "remove"
      /\ UNCHANGED <<backend, sidecar>> /\ Continue(c, s)
  BY AbortKeeps, CallFacts DEF SerialInv, Abort, Running, Underway
<1>2. s.op = r.op /\ s.id = r.id /\ s.pc = "rm" /\ s.again = r.again
  BY <1>1 DEF CallType
<1>3. Counts(s, sidecar[r.id], backend)
  BY <1>1, <1>2, CallFacts DEF Counts, Mutating, Mutator
<1> HIDE DEF s
<1>4. SerialInv'
  BY <1>1, <1>2, <1>3, StepKeepsSerial
<1>5. Removing' = Removing \cup {r.id}
  <2>1. /\ call'[c].pc = "rm" /\ call'[c].id = r.id
        /\ \A d \in Call \ {c} : call'[d] = call[d]
    BY <1>1, <1>2, CallFacts DEF Continue
  <2> QED BY <1>1, <2>1 DEF Removing, Removals
<1>6. r.id \in Id
  BY <1>1, CallFacts
<1> QED BY <1>1, <1>4, <1>5, <1>6, LifecycleIs

LEMMA RmServes ==
  ASSUME SerialInv, NEW c \in Call, Rm(c)
  PROVE  SerialInv' /\ LifeStep
<1> DEFINE r == call[c]
           i == r.id
<1>1. /\ Inv' /\ Running(c) /\ r \in CallType /\ r.pc \in Removals /\ r.op = "remove"
      /\ i \in Id /\ backend' = backend
  BY RmKeeps, CallFacts DEF SerialInv, Rm, Running, Underway, Removals
<1>2. Mutating(c) /\ Counts(r, sidecar[i], backend)
  BY <1>1, CallFacts DEF Mutating, Mutator
<1> DEFINE Goes(s) == /\ Continue(c, s) /\ s.op = r.op /\ s.id = i
                      /\ s.pc \in Removals \/ ~Underway(s)
                      /\ Underway(s) => s.again = r.again
<1>3. PICK s : Goes(s)
  <2>1. ASSUME NEW f, NEW pc \in Removals, Continue(c, [r EXCEPT !.todo = @ \ {f}, !.pc = pc])
        PROVE  \E s : Goes(s)
    <3> DEFINE s == [r EXCEPT !.todo = @ \ {f}, !.pc = pc]
    <3>1. s.op = r.op /\ s.id = i /\ s.pc = pc /\ s.again = r.again
      BY <1>1 DEF CallType
    <3> HIDE DEF s
    <3>2. Continue(c, s)
      BY <2>1 DEF s
    <3> QED BY <3>1, <3>2
  <2>2. ASSUME NEW pc \in {"done", "failed"}, Continue(c, Ended(r, pc, r.got))
        PROVE  \E s : Goes(s)
    BY <2>2, EndedFacts
  <2> HIDE DEF Goes
  <2> QED BY <1>1, <2>1, <2>2 DEF Rm, Removals
<1>4. sidecar' = sidecar \/ sidecar' = [sidecar EXCEPT ![i] = NoFile]
  BY DEF Rm
<1>5. Underway(s) => Counts(s, sidecar'[i], backend)
  BY <1>2, <1>3, <1>1 DEF Counts, Removals
<1>6. SerialInv'
  <2>1. \A j \in Id \ {i} : sidecar'[j] = sidecar[j]
    BY <1>4, CallFacts
  <2> QED BY <1>1, <1>2, <1>3, <1>5, <2>1, StepKeepsSerial
<1>7. i \in Removing /\ Removing' \in {Removing, Removing \ {i}}
  <2>1. /\ call'[c] = s /\ \A d \in Call \ {c} : call'[d] = call[d]
    BY <1>3, CallFacts DEF Continue
  <2>2. i \in Removing
    BY <1>1 DEF Removing
  <2>3. \A d \in Call \ {c} : call[d].pc \in Removals => call[d].id # i
    BY <1>1, <1>2 DEF SerialInv, Alone, Mutating, Running, Underway, Mutator, Removals
  <2>4. CASE s.pc \in Removals
    BY <1>1, <1>3, <2>1, <2>2, <2>4 DEF Removing
  <2>5. CASE s.pc \notin Removals
    <3>1. Removing' = Removing \ {i}
      BY <1>1, <2>1, <2>3, <2>5 DEF Removing
    <3> QED BY <2>2, <3>1
  <2> QED BY <2>4, <2>5
<1> QED BY <1>1, <1>4, <1>6, <1>7, LifecycleIs

LEMMA StepServes ==
  ASSUME SerialInv, NEW c \in Call, Step(c)
  PROVE  SerialInv' /\ LifeStep
BY GetSidecarServes, FillCacheServes, PutServes, ReloadServes, CheckStatusServes,
   CommitServes, AbortServes, RmServes DEF Step

LEMMA InvokeServes ==
  ASSUME Orderly, SerialInv, NEW c \in Call, Invoke(c)
  PROVE  SerialInv' /\ LifeStep
<1>1. Inv'
  <2>1. Inv /\ [Next]_vars
    BY DEF SerialInv, Next
  <2> QED BY <2>1, NextKeeps
<1>2. PICK op \in Op, i \in Id, m \in Meta \cup {Null} :
        /\ \A d \in Call \ {c} :
             Running(d) /\ call[d].id = i /\ {op, call[d].op} \subseteq Mutator
               => {op, call[d].op} \subseteq Overlap[backend]
        /\ Begin(c, op, i, m)
  BY DEF Invoke
<1>3. /\ ~Running(c) /\ UNCHANGED <<backend, sidecar>> /\ call[c].pc \notin Removals
      /\ Overlap[backend] \subseteq IF backend = "conditional" THEN {"reserve"} ELSE {}
  BY <1>2 DEF Invoke, Begin, Running, Underway, Removals, Orderly, SerialInv, Inv, TypeOK
<1>4. PICK s : /\ Continue(c, s) /\ s.op = op /\ s.id = i
               /\ s.pc \notin Removals
               /\ s.pc = "abort" => op = "remove"
               /\ Underway(s) /\ op \in Mutator => Counts(s, sidecar[i], backend)
  <2> DEFINE r == [Idle EXCEPT !.op = op, !.id = i, !.meta = m]
             hit == [r EXCEPT !.got = Cached(c, i)]
             s == [r EXCEPT !.pc = "get"]
  <2>1. CASE Continue(c, s)
    <3>1. s.op = op /\ s.id = i /\ s.pc = "get" /\ ~s.again
      BY DEF Idle
    <3> HIDE DEF s
    <3> QED BY <2>1, <3>1 DEF Counts, Removals
  <2>2. CASE Cached(c, i) # NoFile /\ Continue(c, Loaded(hit))
    <3>1. /\ hit \in CallType /\ hit.op = op /\ hit.id = i /\ ~hit.again
          /\ hit.got # NoFile
      BY <2>2, CacheIsHonest DEF Idle, CallType, Cached, CacheType, SerialInv
    <3> HIDE DEF hit
    <3> QED BY <2>2, <3>1, LoadedGoesOn
  <2>3. r.id = i
    BY DEF Idle
  <2> QED BY <1>2, <2>1, <2>2, <2>3 DEF Begin, Lookup
<1>5. call'[c] = s /\ \A d \in Call \ {c} : call'[d] = call[d]
  BY <1>4, CallFacts DEF Continue
<1>6. Removing' = Removing
  BY <1>3, <1>4, SameRemoving
<1>7. \A d \in Call \ {c} : Mutating(d)' <=> Mutating(d)
  BY <1>5 DEF Mutating, Running
<1>8. \A d \in Call \ {c} : Mutating(d) /\ op \in Mutator /\ call[d].id = i
        => backend = "conditional" /\ op = "reserve" /\ call[d].op = "reserve"
  BY <1>2, <1>3 DEF Mutating
<1>9. Mutating(c)' => op \in Mutator /\ Underway(s)
  BY <1>4, <1>5 DEF Mutating, Running
<1>10. Alone'
  BY <1>3, <1>4, <1>5, <1>7, <1>8, <1>9 DEF SerialInv, Alone
<1>11. \A d \in Call : Mutating(d)' => Counts(call'[d], sidecar[call'[d].id], backend)
  BY <1>4, <1>5, <1>7, <1>9 DEF SerialInv
<1>12. \A d \in Call : call'[d].pc \in {"abort", "rm", "rmFailed"} => call'[d].op = "remove"
  BY <1>4, <1>5 DEF SerialInv, Removals
<1>13. SerialInv'
  BY <1>1, <1>3, <1>10, <1>11, <1>12 DEF SerialInv
<1> QED BY <1>3, <1>6, <1>13, LifecycleIs

\* A crash: the calls of one process are gone, the bucket is as it was.
LEMMA CrashServes ==
  ASSUME SerialInv, NEW p \in Proc, Crash(p)
  PROVE  SerialInv' /\ LifeStep
<1>1. Inv' /\ UNCHANGED <<backend, sidecar>>
  BY CrashKeeps DEF SerialInv, Crash
<1>2. \A d \in Call : call'[d] = call[d] \/ call'[d].pc = "idle"
  BY DEF Crash, Idle
<1>3. \A d \in Call : Mutating(d)' => Mutating(d) /\ call'[d] = call[d]
  BY <1>2 DEF Mutating, Running, Underway
<1>4. Alone'
  BY <1>1, <1>3 DEF SerialInv, Alone
<1>5. \A d \in Call : call'[d].pc \in {"abort", "rm", "rmFailed"} => call'[d].op = "remove"
  BY <1>2 DEF SerialInv
<1>6. SerialInv'
  BY <1>1, <1>3, <1>4, <1>5 DEF SerialInv
<1>7. Removing' \in SUBSET Removing
  BY <1>2 DEF Removing, Removals
<1> QED BY <1>1, <1>6, <1>7, LifecycleIs

LEMMA NextServes ==
  ASSUME Orderly, SerialInv, [Next]_vars
  PROVE  SerialInv' /\ LifeStep
<1>1. CASE \E c \in Call : Invoke(c)
  BY <1>1, InvokeServes
<1>2. CASE \E c \in Call : Step(c)
  BY <1>2, StepServes
<1>3. CASE \E p \in Proc : Crash(p)
  BY <1>3, CrashServes
<1>4. CASE (\E i \in Id, m \in Meta : Deposit(i, m)) \/ UNCHANGED vars
  <2>1. Inv' /\ UNCHANGED <<backend, sidecar, call>>
    BY NextKeeps, <1>4 DEF SerialInv, Next, Deposit, vars
  <2>2. SerialInv' /\ Removing' = Removing
    BY <2>1 DEF SerialInv, Alone, Mutating, Running, Removing
  <2> QED BY <2>1, <2>2, LifecycleIs
<1> QED BY <1>1, <1>2, <1>3, <1>4 DEF Next

LEMMA InitSerial == Init => SerialInv /\ Lifecycle!Init
<1> SUFFICES ASSUME Init PROVE SerialInv /\ Lifecycle!Init
  OBVIOUS
<1>1. \A c \in Call : call[c].pc = "idle" /\ ~Mutating(c)
  BY DEF Init, Idle, Mutating, Running, Underway
<1>2. SerialInv
  BY <1>1, InitHolds DEF SerialInv, Alone
<1>3. Lifecycle!Init
  BY <1>1 DEF Init, Lifecycle!Init, Lifecycle!Nothing, NoFile, File
<1> QED BY <1>2, <1>3

\* What a call counts on, of its artifact's sidecar, stays true from step to step,
\* reservations racing freely where the backend honours IfNoneMatch.
THEOREM SerialInvariant ==
  ASSUME Orderly
  PROVE  Spec => []SerialInv
<1>1. SerialInv /\ [Next]_vars => SerialInv'
  BY NextServes
<1> QED BY <1>1, InitSerial, PTL DEF Spec

\* The adapter then implements ArtifactLifecycle on every kind of backend, through
\* failed requests, lost answers, partial removals and crashes.
THEOREM LifecycleImplemented ==
  ASSUME Orderly
  PROVE  Spec => ImplementsLifecycle
<1>1. SerialInv /\ [Next]_vars => [Lifecycle!Next]_(Lifecycle!vars)
  BY NextServes DEF LifeStep
<1> QED BY <1>1, InitSerial, SerialInvariant, PTL
        DEF Spec, ImplementsLifecycle, Lifecycle!Spec
=============================================================================
