------------------------- MODULE LocalStorage_proofs -------------------------
(***************************************************************************)
(* For any number of artifacts, processes and calls in flight, any cache   *)
(* limit, any overlap of the adapter's methods and whatever file-system    *)
(* operations fail: the types, and that the status "ready" is never made   *)
(* up (ReadyIsMarked).                                                     *)
(*                                                                         *)
(* ReadyIsMarked is not inductive: a call about to write a sidecar must be *)
(* known to be a reservation, or a markReady that was really called.       *)
(* StorageInv adds that (Sound); each kind of step preserves it.           *)
(*                                                                         *)
(* Then, for Overlap = {}: a mutating call that is alone on its artifact   *)
(* may count on what it read of its sidecar and wrote to its tmp file      *)
(* (SerialInv), a readable sidecar stays readable, and every step is one   *)
(* of ArtifactLifecycle, or of none.                                       *)
(***************************************************************************)
EXTENDS LocalStorage, MetaCache_proofs, TLAPS

-----------------------------------------------------------------------------
(* One call.                                                               *)

LEMMA ParsedFacts ==
  /\ NoFile \in Parsed /\ NoFile.state = "none"
  /\ Torn \in OnDisk /\ Torn.state = "torn" /\ Parsed \subseteq OnDisk
  /\ \A f \in OnDisk : Parse(f) \in Parsed /\ Parse(f).state \in {"none", f.state}
  /\ \A f \in Parsed : f.state \in {"none", "uploading", "ready"}
  /\ \A f \in Parsed : f # NoFile => f.meta \in Meta /\ f.state # "none"
BY DEF Parsed, OnDisk, NoFile, Torn, File, Parse

LEMMA IdleIsSound ==
  ASSUME NEW done
  PROVE  Sound(Idle, done)
BY ParsedFacts DEF Sound, Idle, CallType, Writing

LEMMA EndedIsSound ==
  ASSUME NEW done, NEW r, Sound(r, done), r.id \in Id,
         NEW pc \in {"done", "conflict", "failed"},
         NEW got \in Parsed, Honest(r.id, got, done)
  PROVE  Sound(Ended(r, pc, got), done)
BY ParsedFacts DEF Sound, Ended, Idle, CallType, Writing, Honest

LEMMA LoadedIsSound ==
  ASSUME NEW done, NEW r, Sound(r, done), r.id \in Id
  PROVE  Sound(Loaded(r), done)
<1>1. r.got \in Parsed /\ Honest(r.id, r.got, done) /\ Honest(r.id, NoFile, done)
  BY ParsedFacts DEF Sound, CallType, Honest
<1>2. Sound(Ended(r, "done", NoFile), done) /\ Sound(Ended(r, "done", r.got), done)
  BY <1>1, ParsedFacts, EndedIsSound
<1>3. Sound([r EXCEPT !.pc = "stat"], done)
  BY DEF Sound, CallType, Writing
<1>4. Sound([r EXCEPT !.pc = "rm", !.todo = StoreFile \cup {"sidecar"}], done)
  BY DEF Sound, CallType, Writing
<1> QED BY <1>2, <1>3, <1>4 DEF Loaded

\* Following the inodes changes nothing of a call but where its open file is.
LEMMA RelinkIsSound ==
  ASSUME NEW done, NEW calls \in [Call -> CallType], NEW i,
         \A d \in Call : Sound(calls[d], done),
         NEW new, DOMAIN new \subseteq {"tmp", "final"},
         \A x \in DOMAIN new : new[x] \in {"final", "gone"}
  PROVE  /\ Relink(calls, i, new) \in [Call -> CallType]
         /\ \A d \in Call : Sound(Relink(calls, i, new)[d], done)
<1>1. ASSUME NEW d \in Call
      PROVE  Sound(Relink(calls, i, new)[d], done)
  <2>1. CASE calls[d].id = i /\ calls[d].fd \in DOMAIN new
    <3>1. Relink(calls, i, new)[d] = [calls[d] EXCEPT !.fd = new[calls[d].fd]]
      BY <2>1 DEF Relink
    <3>2. new[calls[d].fd] \in {"final", "gone"}
      BY <2>1
    <3> QED BY <3>1, <3>2 DEF Sound, CallType
  <2>2. CASE ~(calls[d].id = i /\ calls[d].fd \in DOMAIN new)
    BY <2>2 DEF Relink
  <2> QED BY <2>1, <2>2
<1>2. Relink(calls, i, new) = [d \in Call |-> Relink(calls, i, new)[d]]
  BY DEF Relink
<1> QED BY <1>1, <1>2 DEF Sound

-----------------------------------------------------------------------------
(* StorageInv of the state.                                                     *)

\* Giving a slot a sound call keeps every slot's call sound.
LEMMA SetCallIsSound ==
  ASSUME StorageInv, NEW c \in Call, NEW r, Sound(r, marked)
  PROVE  /\ [call EXCEPT ![c] = r] \in [Call -> CallType]
         /\ \A d \in Call : Sound([call EXCEPT ![c] = r][d], marked)
BY DEF StorageInv, Sound

\* So does giving the process of a slot a cache whose entries are honest.
LEMMA SetCacheIsHonest ==
  ASSUME StorageInv, NEW c \in Call, NEW k \in CacheType,
         \A i \in Id : Honest(i, k.entry[i], marked), SetCache(c, k)
  PROVE  /\ cache' \in [Proc -> CacheType]
         /\ \A p \in Proc, i \in Id : Honest(i, cache'[p].entry[i], marked)
BY ProcAssumption DEF StorageInv, SetCache

\* The cache of a slot's process has its type and is honest.
LEMMA CacheIsHonest ==
  ASSUME StorageInv, NEW c \in Call
  PROVE  /\ cache[procOf[c]] \in CacheType
         /\ \A j \in Id : Honest(j, cache[procOf[c]].entry[j], marked)
BY ProcAssumption DEF StorageInv

LEMMA AfterLoadIsHonest ==
  ASSUME NEW done, NEW r, r.id \in Id, NEW k \in CacheType,
         \A j \in Id : Honest(j, k.entry[j], done)
  PROVE  /\ CacheAfterLoad(r, k) \in CacheType
         /\ \A j \in Id : Honest(j, CacheAfterLoad(r, k).entry[j], done)
BY CacheDeleteIsHonest DEF CacheAfterLoad

-----------------------------------------------------------------------------
(* Each step of a call preserves the invariant.                            *)

LEMMA ReadSidecarKeeps ==
  ASSUME StorageInv, NEW c \in Call, ReadSidecar(c)
  PROVE  StorageInv'
<1> DEFINE r == call[c]
           got == Parse(sidecar[r.id])
<1>1. Sound(r, marked) /\ r.id \in Id /\ r.pc = "read"
  BY DEF StorageInv, Sound, ReadSidecar
<1>2. got \in Parsed /\ Honest(r.id, got, marked) /\ Honest(r.id, NoFile, marked)
  BY <1>1, ParsedFacts DEF StorageInv, Honest
<1>3. Sound(Ended(r, "conflict", NoFile), marked)
  BY <1>1, <1>2, ParsedFacts, EndedIsSound
<1>4. r.op = "reserve" => Sound([r EXCEPT !.pc = "tmpOpen"], marked)
  BY <1>1 DEF Sound, CallType, Writing
<1>5. Sound([r EXCEPT !.got = got, !.pc = "resume"], marked)
  BY <1>1, <1>2 DEF Sound, CallType, Writing, Honest
<1>6. PICK s : Sound(s, marked) /\ call' = [call EXCEPT ![c] = s]
  BY <1>3, <1>4, <1>5 DEF ReadSidecar
<1>7. call' \in [Call -> CallType] /\ \A d \in Call : Sound(call'[d], marked)
  BY <1>6, SetCallIsSound
<1> QED BY <1>7 DEF StorageInv, ReadSidecar

LEMMA FillCacheKeeps ==
  ASSUME StorageInv, NEW c \in Call, FillCache(c)
  PROVE  StorageInv'
<1> DEFINE r == call[c]
           k == cache[procOf[c]]
           filled == IF r.got = NoFile THEN k ELSE CacheSet(k, r.id, r.got)
<1>1. Sound(r, marked) /\ r.id \in Id /\ procOf[c] \in Proc
  BY ProcAssumption DEF StorageInv, Sound, FillCache
<1>2. r.got \in Parsed /\ Honest(r.id, r.got, marked)
  BY <1>1 DEF Sound, CallType, Honest
<1>3. filled \in CacheType /\ \A j \in Id : Honest(j, filled.entry[j], marked)
  BY <1>1, <1>2, CacheIsHonest, CacheSetIsHonest
<1>4. /\ CacheAfterLoad(r, filled) \in CacheType
      /\ \A j \in Id : Honest(j, CacheAfterLoad(r, filled).entry[j], marked)
  BY <1>1, <1>3, AfterLoadIsHonest
<1>5. SetCache(c, CacheAfterLoad(r, filled)) /\ call' = [call EXCEPT ![c] = Loaded(r)]
  BY DEF FillCache
<1>6. /\ cache' \in [Proc -> CacheType]
      /\ \A p \in Proc, i \in Id : Honest(i, cache'[p].entry[i], marked)
  BY <1>4, <1>5, SetCacheIsHonest
<1>7. Sound(Loaded(r), marked)
  BY <1>1, LoadedIsSound
<1>8. call' \in [Call -> CallType] /\ \A d \in Call : Sound(call'[d], marked)
  BY <1>5, <1>7, SetCallIsSound
<1> QED BY <1>6, <1>8 DEF StorageInv, FillCache

LEMMA CheckStatusKeeps ==
  ASSUME StorageInv, NEW c \in Call, CheckStatus(c)
  PROVE  StorageInv'
<1> DEFINE r == call[c]
<1>1. /\ Sound(r, marked) /\ r.id \in Id /\ procOf[c] \in Proc
      /\ r.op = "markReady" /\ r.got \in Parsed /\ Honest(r.id, r.got, marked)
  BY ProcAssumption DEF StorageInv, Sound, CheckStatus, CallType, Honest
<1>2. Honest(r.id, NoFile, marked) /\ NoFile \in Parsed
  BY ParsedFacts DEF Honest
<1>3. /\ Sound(Ended(r, "failed", NoFile), marked)
      /\ Sound(Ended(r, "done", NoFile), marked)
  BY <1>1, <1>2, EndedIsSound
<1>4. r.got.state = "uploading" =>
        Sound([r EXCEPT !.pc = "tmpOpen", !.meta = r.got.meta, !.got = NoFile], marked)
  BY <1>1, <1>2, ParsedFacts DEF Sound, CallType, Writing
<1>5. PICK s : Sound(s, marked) /\ call' = [call EXCEPT ![c] = s]
  BY <1>3, <1>4 DEF CheckStatus
<1>6. call' \in [Call -> CallType] /\ \A d \in Call : Sound(call'[d], marked)
  BY <1>5, SetCallIsSound
<1>7. /\ cache' \in [Proc -> CacheType]
      /\ \A p \in Proc, i \in Id : Honest(i, cache'[p].entry[i], marked)
  <2>1. CASE UNCHANGED cache
    BY <2>1 DEF StorageInv
  <2>2. CASE SetCache(c, CacheSet(cache[procOf[c]], r.id, r.got))
    BY <1>1, <2>2, CacheIsHonest, CacheSetIsHonest, SetCacheIsHonest
  <2> QED BY <2>1, <2>2 DEF CheckStatus
<1> QED BY <1>6, <1>7 DEF StorageInv, CheckStatus

LEMMA OpenExclusiveKeeps ==
  ASSUME StorageInv, NEW c \in Call, OpenExclusive(c)
  PROVE  StorageInv'
<1> DEFINE r == call[c]
<1>1. /\ Sound(r, marked) /\ r.id \in Id /\ r.pc = "open"
      /\ r.op \in {"reserve", "markReady"} /\ r.meta \in Meta
  BY DEF StorageInv, Sound, OpenExclusive, Writing
<1>2. /\ Sound([r EXCEPT !.pc = "write", !.fd = "final"], marked)
      /\ Sound([r EXCEPT !.pc = "read"], marked)
  BY <1>1 DEF Sound, CallType, Writing
<1>3. PICK s : Sound(s, marked) /\ call' = [call EXCEPT ![c] = s]
  BY <1>2 DEF OpenExclusive
<1>4. call' \in [Call -> CallType] /\ \A d \in Call : Sound(call'[d], marked)
  BY <1>3, SetCallIsSound
<1>5. \A i \in Id : Honest(i, Torn, marked)
  BY ParsedFacts DEF Honest
<1>6. sidecar' \in [Id -> OnDisk] /\ \A i \in Id : Honest(i, sidecar'[i], marked)
  BY <1>5, ParsedFacts DEF StorageInv, OpenExclusive
<1> QED BY <1>4, <1>6 DEF StorageInv, OpenExclusive

LEMMA OpenTmpKeeps ==
  ASSUME StorageInv, NEW c \in Call, OpenTmp(c)
  PROVE  StorageInv'
<1> DEFINE r == call[c]
           s == [r EXCEPT !.pc = "tmpWrite", !.fd = "tmp"]
<1>1. /\ Sound(r, marked) /\ r.pc = "tmpOpen" /\ call' = [call EXCEPT ![c] = s]
  BY DEF StorageInv, OpenTmp
<1>2. Sound(s, marked)
  BY <1>1 DEF Sound, CallType, Writing
<1>3. call' \in [Call -> CallType] /\ \A d \in Call : Sound(call'[d], marked)
  BY <1>1, <1>2, SetCallIsSound
<1>4. \A i \in Id : Honest(i, Torn, marked)
  BY ParsedFacts DEF Honest
<1>5. tmp' \in [Id -> OnDisk] /\ \A i \in Id : Honest(i, tmp'[i], marked)
  BY <1>4, ParsedFacts DEF StorageInv, OpenTmp
<1> QED BY <1>3, <1>5 DEF StorageInv, OpenTmp

\* A writing call writes "ready" only for an artifact markReady was called for.
LEMMA ContentIsHonest ==
  ASSUME NEW done, NEW r, Sound(r, done), r.pc \in Writing
  PROVE  Content(r) \in Parsed /\ Honest(r.id, Content(r), done)
BY DEF Sound, Content, File, Parsed, Honest

LEMMA WriteKeeps ==
  ASSUME StorageInv, NEW c \in Call, Write(c)
  PROVE  StorageInv'
<1> DEFINE r == call[c]
           s == [r EXCEPT !.fd = "none",
                          !.pc = IF r.pc = "write" THEN "commit" ELSE "rename"]
<1>1. Sound(r, marked) /\ r.pc \in {"write", "tmpWrite"}
  BY DEF StorageInv, Write
<1>2. r.pc \in Writing /\ r.id \in Id
  BY <1>1 DEF Writing, Sound
<1>3. Sound(s, marked)
  BY <1>1 DEF Sound, CallType, Writing
<1>4. call' = [call EXCEPT ![c] = s]
  BY DEF Write
<1>5. call' \in [Call -> CallType] /\ \A d \in Call : Sound(call'[d], marked)
  BY <1>3, <1>4, SetCallIsSound
<1>6. Content(r) \in OnDisk /\ Honest(r.id, Content(r), marked)
  BY <1>1, <1>2, ContentIsHonest, ParsedFacts
<1>7. ASSUME NEW old, NEW f \in Landed(old, Content(r))
      PROVE  f \in OnDisk /\ Honest(r.id, f, marked)
  BY <1>6, ParsedFacts DEF Landed, Honest
<1>8. sidecar' \in [Id -> OnDisk] /\ \A i \in Id : Honest(i, sidecar'[i], marked)
  BY <1>2, <1>7 DEF StorageInv, Write
<1>9. tmp' \in [Id -> OnDisk] /\ \A i \in Id : Honest(i, tmp'[i], marked)
  BY <1>2, <1>7 DEF StorageInv, Write
<1> QED BY <1>5, <1>8, <1>9 DEF StorageInv, Write

LEMMA RenameKeeps ==
  ASSUME StorageInv, NEW c \in Call, Rename(c)
  PROVE  StorageInv'
<1> DEFINE r == call[c]
           moved == [call EXCEPT ![c] = [r EXCEPT !.pc = "commit"]]
           new == [tmp |-> "final", final |-> "gone"]
<1>1. Sound(r, marked) /\ r.pc = "rename" /\ r.id \in Id
  BY DEF StorageInv, Sound, Rename
<1>2. \A i \in Id : Honest(i, NoFile, marked)
  BY ParsedFacts DEF Honest
<1>3. Sound(Ended(r, "failed", NoFile), marked)
  BY <1>1, <1>2, ParsedFacts, EndedIsSound
<1>4. Sound([r EXCEPT !.pc = "commit"], marked)
  BY <1>1 DEF Sound, CallType, Writing
<1>5. moved \in [Call -> CallType] /\ \A d \in Call : Sound(moved[d], marked)
  BY <1>4, SetCallIsSound
<1>6. DOMAIN new \subseteq {"tmp", "final"}
      /\ \A x \in DOMAIN new : new[x] \in {"final", "gone"}
  OBVIOUS
<1>7. call' \in [Call -> CallType] /\ \A d \in Call : Sound(call'[d], marked)
  <2>1. CASE call' = [call EXCEPT ![c] = Ended(r, "failed", NoFile)]
    BY <1>3, <2>1, SetCallIsSound
  <2>2. CASE call' = Relink(moved, r.id, new)
    <3> HIDE DEF moved, new
    <3> QED BY <1>5, <1>6, <2>2, RelinkIsSound
  <2> QED BY <2>1, <2>2 DEF Rename
<1>8. sidecar' \in [Id -> OnDisk] /\ \A i \in Id : Honest(i, sidecar'[i], marked)
  BY DEF StorageInv, Rename
<1>9. tmp' \in [Id -> OnDisk] /\ \A i \in Id : Honest(i, tmp'[i], marked)
  BY <1>2, ParsedFacts DEF StorageInv, Rename
<1> QED BY <1>7, <1>8, <1>9 DEF StorageInv, Rename

LEMMA CommitToCacheKeeps ==
  ASSUME StorageInv, NEW c \in Call, CommitToCache(c)
  PROVE  StorageInv'
<1> DEFINE r == call[c]
<1>1. /\ Sound(r, marked) /\ r.pc = "commit" /\ r.pc \in Writing
      /\ r.id \in Id /\ procOf[c] \in Proc
  BY ProcAssumption DEF StorageInv, Sound, CommitToCache, Writing
<1>2. Content(r) \in Parsed /\ Honest(r.id, Content(r), marked)
  BY <1>1, ContentIsHonest
<1>3. /\ cache' \in [Proc -> CacheType]
      /\ \A p \in Proc, i \in Id : Honest(i, cache'[p].entry[i], marked)
  BY <1>1, <1>2, CacheIsHonest, CacheSetIsHonest, SetCacheIsHonest
     DEF CommitToCache
<1>4. Sound(Ended(r, "done", NoFile), marked)
  BY <1>1, ParsedFacts, EndedIsSound DEF Honest
<1>5. call' \in [Call -> CallType] /\ \A d \in Call : Sound(call'[d], marked)
  BY <1>4, SetCallIsSound DEF CommitToCache
<1> QED BY <1>3, <1>5 DEF StorageInv, CommitToCache

LEMMA StatKeeps ==
  ASSUME StorageInv, NEW c \in Call, Stat(c)
  PROVE  StorageInv'
<1> DEFINE r == call[c]
           got == IF "bytes" \in stored[r.id] THEN r.got ELSE NoFile
<1>1. Sound(r, marked) /\ r.id \in Id
  BY DEF StorageInv, Sound, Stat
<1>2. got \in Parsed /\ Honest(r.id, got, marked)
  BY <1>1, ParsedFacts DEF Sound, CallType, Honest
<1>3. Sound(Ended(r, "done", got), marked)
  BY <1>1, <1>2, EndedIsSound
<1>4. call' \in [Call -> CallType] /\ \A d \in Call : Sound(call'[d], marked)
  BY <1>3, SetCallIsSound DEF Stat
<1> QED BY <1>4 DEF StorageInv, Stat

\* A call whose rm has settled.
LEMMA SettledIsSound ==
  ASSUME NEW done, NEW r, Sound(r, done), r.pc \in Deleting, NEW f, NEW pc \in Deleting
  PROVE  Sound(Settled(r, f, pc), done)
BY DEF Sound, Settled, CallType, Writing, Deleting

LEMMA SettledFacts ==
  ASSUME NEW r \in CallType, NEW f, NEW pc \in Deleting
  PROVE  /\ Settled(r, f, pc).op = r.op /\ Settled(r, f, pc).id = r.id
         /\ Settled(r, f, pc).pc \in Deleting \cup {"done", "failed"}
BY DEF Settled, CallType, Deleting

LEMMA RmKeeps ==
  ASSUME StorageInv, NEW c \in Call, Rm(c)
  PROVE  StorageInv'
<1> DEFINE r == call[c]
           new == [final |-> "gone"]
<1>1. Sound(r, marked) /\ r.id \in Id /\ r.pc \in Deleting
  BY DEF StorageInv, Sound, Rm, Deleting
<1>2. PICK f \in r.todo :
        LET after == [call EXCEPT ![c] = Settled(r, f, r.pc)]
        IN  IF f = "sidecar"
            THEN /\ sidecar' = [sidecar EXCEPT ![r.id] = NoFile]
                 /\ call' = Relink(after, r.id, new)
                 /\ UNCHANGED stored
            ELSE /\ stored' = [stored EXCEPT ![r.id] = @ \ {f}]
                 /\ call' = after
                 /\ UNCHANGED sidecar
  BY DEF Rm
<1> DEFINE s == Settled(r, f, r.pc)
           after == [call EXCEPT ![c] = s]
<1>3. Sound(s, marked)
  BY <1>1, SettledIsSound
<1>4. after \in [Call -> CallType] /\ \A d \in Call : Sound(after[d], marked)
  BY <1>3, SetCallIsSound
<1>5. /\ DOMAIN new \subseteq {"tmp", "final"}
      /\ \A x \in DOMAIN new : new[x] \in {"final", "gone"}
  OBVIOUS
<1>6. call' = after \/ call' = Relink(after, r.id, new)
  BY <1>2
<1> HIDE DEF after, new
<1>7. call' \in [Call -> CallType] /\ \A d \in Call : Sound(call'[d], marked)
  BY <1>4, <1>5, <1>6, RelinkIsSound
<1>8. \A i \in Id : Honest(i, NoFile, marked)
  BY ParsedFacts DEF Honest
<1>9. sidecar' \in [Id -> OnDisk] /\ \A i \in Id : Honest(i, sidecar'[i], marked)
  BY <1>2, <1>8, ParsedFacts DEF StorageInv
<1>10. stored' \in [Id -> SUBSET StoreFile]
  BY <1>1, <1>2 DEF StorageInv
<1> QED BY <1>7, <1>9, <1>10 DEF StorageInv, Rm

LEMMA RmFailsKeeps ==
  ASSUME StorageInv, NEW c \in Call, RmFails(c)
  PROVE  StorageInv'
<1>1. Sound(call[c], marked) /\ call[c].pc \in Deleting /\ "rmFailed" \in Deleting
  BY DEF StorageInv, RmFails, Deleting
<1>2. PICK f \in call[c].todo :
        call' = [call EXCEPT ![c] = Settled(call[c], f, "rmFailed")]
  BY DEF RmFails
<1>3. Sound(Settled(call[c], f, "rmFailed"), marked)
  BY <1>1, SettledIsSound
<1>4. call' \in [Call -> CallType] /\ \A d \in Call : Sound(call'[d], marked)
  BY <1>2, <1>3, SetCallIsSound
<1> QED BY <1>4 DEF StorageInv, RmFails

\* A failed write leaves a file as it was, or torn.
LEMMA SpoiltIsHonest ==
  ASSUME NEW done, NEW files \in [Id -> OnDisk], NEW r, NEW fd,
         \A i \in Id : Honest(i, files[i], done),
         NEW files2 \in Spoilt(files, r, fd)
  PROVE  files2 \in [Id -> OnDisk] /\ \A i \in Id : Honest(i, files2[i], done)
<1>1. \A i \in Id : Honest(i, Torn, done)
  BY ParsedFacts DEF Honest
<1> QED BY <1>1, ParsedFacts DEF Spoilt

LEMMA IOErrorKeeps ==
  ASSUME StorageInv, NEW c \in Call, IOError(c)
  PROVE  StorageInv'
<1>1. Sound(call[c], marked) /\ call[c].id \in Id
  BY DEF StorageInv, Sound, IOError, Awaitable
<1>2. Honest(call[c].id, NoFile, marked)
  BY ParsedFacts DEF Honest
<1>3. Sound(Ended(call[c], "failed", NoFile), marked)
  BY <1>1, <1>2, ParsedFacts, EndedIsSound
<1>4. call' \in [Call -> CallType] /\ \A d \in Call : Sound(call'[d], marked)
  BY <1>3, SetCallIsSound DEF IOError
<1>5. /\ sidecar' \in [Id -> OnDisk] /\ tmp' \in [Id -> OnDisk]
      /\ \A i \in Id : Honest(i, sidecar'[i], marked) /\ Honest(i, tmp'[i], marked)
  BY SpoiltIsHonest DEF StorageInv, IOError
<1> QED BY <1>4, <1>5 DEF StorageInv, IOError

\* Every step of a call preserves the invariant.
LEMMA StorageStepKeeps ==
  ASSUME StorageInv, NEW c \in Call, StorageStep(c)
  PROVE  StorageInv'
BY ReadSidecarKeeps, FillCacheKeeps, CheckStatusKeeps, OpenExclusiveKeeps,
   OpenTmpKeeps, WriteKeeps, RenameKeeps, CommitToCacheKeeps, StatKeeps, RmKeeps,
   RmFailsKeeps, IOErrorKeeps DEF StorageStep

-----------------------------------------------------------------------------
(* Calls begin, processes crash.                                           *)

\* More ids marked makes nothing dishonest or unsound.
LEMMA MarkingMoreKeeps ==
  ASSUME NEW done, NEW more, done \subseteq more
  PROVE  /\ \A i, f : Honest(i, f, done) => Honest(i, f, more)
         /\ \A r : Sound(r, done) => Sound(r, more)
BY DEF Honest, Sound

LEMMA BeginKeeps ==
  ASSUME StorageInv, NEW c \in Call, NEW op \in Op, NEW i \in Id,
         NEW m \in Meta \cup {Null}, op = "reserve" => m \in Meta,
         Begin(c, op, i, m)
  PROVE  StorageInv'
<1> DEFINE r == [Idle EXCEPT !.op = op, !.id = i, !.meta = m, !.got = Cached(c, i)]
           k == cache[procOf[c]]
<1>1. /\ procOf[c] \in Proc /\ k \in CacheType
      /\ Cached(c, i) \in Parsed /\ Honest(i, Cached(c, i), marked)
      /\ \A j \in Id : Honest(j, k.entry[j], marked)
  BY ProcAssumption DEF StorageInv, Cached, CacheType
<1>2. /\ marked \subseteq marked' /\ marked' \subseteq Id
      /\ op = "markReady" => i \in marked'
  BY DEF Begin, StorageInv
<1>3. Honest(i, Cached(c, i), marked')
  BY <1>1, <1>2, MarkingMoreKeeps
<1>4. Sound(r, marked')
  BY <1>2, <1>3, <1>1 DEF Sound, Idle, CallType, Writing, Honest
<1>5. r.id = i /\ r.op = op /\ r.meta = m
  BY DEF Idle
<1>6. Sound(Loaded(r), marked')
  BY <1>4, <1>5, LoadedIsSound
<1>7. /\ op = "reserve" => Sound([r EXCEPT !.got = NoFile, !.pc = "open"], marked')
      /\ op = "markReady" => Sound([r EXCEPT !.got = NoFile, !.pc = "read"], marked')
      /\ op # "reserve" => Sound([r EXCEPT !.pc = "read"], marked')
  <2>1. NoFile \in Parsed /\ NoFile.state # "ready" /\ r \in CallType
    BY <1>4, ParsedFacts DEF Sound
  <2> HIDE DEF r
  <2> QED BY <2>1, <1>4, <1>5 DEF Sound, CallType, Writing
<1>8. PICK s : Sound(s, marked') /\ call' = [call EXCEPT ![c] = s]
  BY <1>6, <1>7 DEF Begin
<1>9. call' \in [Call -> CallType] /\ \A d \in Call : Sound(call'[d], marked')
  <2>1. \A d \in Call : Sound(call[d], marked')
    BY <1>2, MarkingMoreKeeps DEF StorageInv
  <2> QED BY <1>8, <2>1 DEF StorageInv, Sound
<1>10. /\ cache' \in [Proc -> CacheType]
       /\ \A p \in Proc, j \in Id : Honest(j, cache'[p].entry[j], marked)
  <2>1. CASE UNCHANGED cache
    BY <2>1 DEF StorageInv
  <2>2. CASE SetCache(c, CacheAfterLoad(r, k))
    <3>1. /\ CacheAfterLoad(r, k) \in CacheType
          /\ \A j \in Id : Honest(j, CacheAfterLoad(r, k).entry[j], marked)
      BY <1>1, <1>5, AfterLoadIsHonest
    <3> QED BY <2>2, <3>1, SetCacheIsHonest
  <2> QED BY <2>1, <2>2 DEF Begin
<1>11. /\ \A p \in Proc, j \in Id : Honest(j, cache'[p].entry[j], marked')
       /\ \A j \in Id : Honest(j, sidecar[j], marked') /\ Honest(j, tmp[j], marked')
  BY <1>2, <1>10, MarkingMoreKeeps DEF StorageInv
<1> QED BY <1>2, <1>9, <1>10, <1>11 DEF StorageInv, Begin

LEMMA CrashStorageKeeps ==
  ASSUME StorageInv, NEW p \in Proc, CrashStorage(p)
  PROVE  StorageInv'
<1>1. call' \in [Call -> CallType] /\ \A c \in Call : Sound(call'[c], marked)
  BY IdleIsSound DEF StorageInv, CrashStorage, Sound
<1>2. /\ cache' \in [Proc -> CacheType]
      /\ \A q \in Proc, i \in Id : Honest(i, cache'[q].entry[i], marked)
  BY EmptyCacheFacts, ParsedFacts DEF StorageInv, CrashStorage, Honest
<1> QED BY <1>1, <1>2 DEF StorageInv, CrashStorage

LEMMA InitStorageHolds == InitStorage => StorageInv
<1> SUFFICES ASSUME InitStorage PROVE StorageInv
  OBVIOUS
<1>1. call \in [Call -> CallType] /\ \A c \in Call : Sound(call[c], marked)
  BY IdleIsSound DEF InitStorage, Sound
<1>2. /\ cache \in [Proc -> CacheType]
      /\ \A p \in Proc, i \in Id : Honest(i, cache[p].entry[i], marked)
  BY EmptyCacheFacts, ParsedFacts DEF InitStorage, Honest
<1>3. /\ sidecar \in [Id -> OnDisk] /\ tmp \in [Id -> OnDisk]
      /\ \A i \in Id : Honest(i, sidecar[i], marked) /\ Honest(i, tmp[i], marked)
  BY ParsedFacts DEF InitStorage, Honest
<1> QED BY <1>1, <1>2, <1>3 DEF InitStorage, StorageInv

LEMMA InvokeKeeps ==
  ASSUME StorageInv, NEW c \in Call, Invoke(c)
  PROVE  StorageInv'
<1>1. PICK op \in Op, i \in Id, m \in Meta \cup {Null} :
        (m = Null) = (op # "reserve") /\ Begin(c, op, i, m)
  BY DEF Invoke
<1> QED BY <1>1, BeginKeeps

LEMMA NextStorageKeeps == StorageInv /\ [NextStorage]_storageVars => StorageInv'
<1> SUFFICES ASSUME StorageInv, [NextStorage]_storageVars PROVE StorageInv'
  OBVIOUS
<1>1. CASE \E c \in Call : Invoke(c)
  BY <1>1, InvokeKeeps
<1>2. CASE \E c \in Call : StorageStep(c)
  BY <1>2, StorageStepKeeps
<1>3. CASE \E i \in Id : Deposit(i)
  BY <1>3 DEF StorageInv, Deposit, StoreFile
<1>4. CASE \E p \in Proc : CrashStorage(p)
  BY <1>4, CrashStorageKeeps
<1>5. CASE UNCHANGED storageVars
  BY <1>5 DEF StorageInv, storageVars
<1> QED BY <1>1, <1>2, <1>3, <1>4, <1>5 DEF NextStorage

-----------------------------------------------------------------------------
(* The theorems.                                                           *)

LEMMA InvImplies == StorageInv => StorageTypeOK /\ ReadyIsMarked
BY DEF StorageInv, StorageTypeOK, ReadyIsMarked, Honest, Sound

\* The inductive invariant holds of the adapter under any caller.
THEOREM StorageInvariant == SpecStorage => []StorageInv
BY InitStorageHolds, NextStorageKeeps, PTL DEF SpecStorage

\* Every variable of the adapter always has its type.
THEOREM StorageTypeCorrect == SpecStorage => []StorageTypeOK
BY StorageInvariant, InvImplies, PTL

\* However calls overlap, writers race and processes crash, no file, cache or
\* call ever says "ready" of an artifact markReady was never called for.
THEOREM ReadyIsAlwaysMarked == SpecStorage => []ReadyIsMarked
BY StorageInvariant, InvImplies, PTL

LEMMA InvBounds == StorageInv => CachesStayBounded
BY MapIsBounded DEF StorageInv, CachesStayBounded

\* However long a process runs, and whatever calls overlap in it, it caches no more
\* artifacts than metaCacheLimit: cacheSet's eviction keeps up with every fill.
THEOREM CachesAlwaysBounded == SpecStorage => []CachesStayBounded
BY StorageInvariant, InvBounds, PTL

-----------------------------------------------------------------------------
(* One mutating call at a time on an artifactId (Overlap = {}): the adapter *)
(* implements the life ArtifactLifecycle describes.  A call between reading *)
(* a sidecar and replacing it counts on finding it as it was; alone on its  *)
(* artifactId, it does, through every crash.                                *)

LifeStep == [Lifecycle!Next]_(Lifecycle!vars)
Life == [i \in Id |-> Parse(sidecar[i])]
Removing == {call[d].id : d \in {e \in Call : call[e].pc \in Deleting}}

\* What every step is shown to do: a step of the life of one artifactId, and no
\* readable sidecar torn.
Serves == /\ LifeStep
          /\ \A i \in Id : sidecar[i] \in Parsed \ {NoFile} => sidecar'[i] # Torn

LEMMA LifecycleIs ==
  LifeStep <=> \/ \E i \in Id :
                    \/ \E m \in Meta :
                         /\ Life[i] = NoFile
                         /\ Life' = [Life EXCEPT ![i] = File("uploading", m)]
                         /\ Removing' = Removing
                    \/ /\ Life[i].state = "uploading"
                       /\ Life' = [Life EXCEPT ![i] = File("ready", Life[i].meta)]
                       /\ Removing' = Removing
                    \/ /\ i \in Removing
                       /\ Life' = [Life EXCEPT ![i] = NoFile]
                       /\ Removing' \in {Removing, Removing \ {i}}
                    \/ Removing' = Removing \cup {i} /\ Life' = Life
               \/ Removing' \in SUBSET Removing /\ Life' = Life
               \/ Life' = Life /\ Removing' = Removing
BY DEF LifeStep, Lifecycle!Next, Lifecycle!vars, Lifecycle!Reserve,
   Lifecycle!MarkReady, Lifecycle!Remove, Lifecycle!AskRemoval,
   Lifecycle!EndRemovals, Lifecycle!Nothing, Lifecycle!Upload, Life, Removing,
   NoFile, File

LEMMA ReserveStep ==
  ASSUME NEW i \in Id, NEW m \in Meta, Life[i] = NoFile,
         Life' = [Life EXCEPT ![i] = File("uploading", m)], Removing' = Removing
  PROVE  LifeStep
BY LifecycleIs

LEMMA MarkReadyStep ==
  ASSUME NEW i \in Id, Life[i].state = "uploading",
         Life' = [Life EXCEPT ![i] = File("ready", Life[i].meta)], Removing' = Removing
  PROVE  LifeStep
BY LifecycleIs

\* A step that leaves every sidecar reading as it did.
LEMMA SameLife ==
  ASSUME SerialInv, sidecar' \in [Id -> OnDisk],
         \A i \in Id : sidecar'[i] = sidecar[i]
                       \/ (Parse(sidecar[i]) = NoFile /\ Parse(sidecar'[i]) = NoFile),
         Removing' \in SUBSET Removing \/ \E i \in Id : Removing' = Removing \cup {i}
  PROVE  Serves
<1>1. Life' = Life
  BY DEF Life
<1>2. LifeStep
  BY <1>1, LifecycleIs
<1>3. \A i \in Id : sidecar[i] \in Parsed \ {NoFile} => sidecar'[i] # Torn
  BY ParsedFacts DEF Parse, Torn, File
<1> QED BY <1>2, <1>3 DEF Serves

\* The sidecar is replaced by what a call had made ready to write.
LEMMA ReplacedServes ==
  ASSUME SerialInv, NEW c \in Call, Mutating(c), Sound(call[c], marked),
         call[c].pc \in Writing, Expects(call[c], sidecar[call[c].id]),
         sidecar' = [sidecar EXCEPT ![call[c].id] = Content(call[c])],
         Removing' = Removing
  PROVE  Serves
<1> DEFINE r == call[c]
           i == r.id
<1>1. /\ i \in Id /\ r.meta \in Meta /\ r.op \in {"reserve", "markReady"}
      /\ sidecar \in [Id -> OnDisk]
  BY DEF Sound, Writing, Mutating, Running, SerialInv, StorageInv
<1>2. Content(r) \in Parsed /\ Content(r) # NoFile /\ Content(r) # Torn
  BY <1>1 DEF Content, Parsed, NoFile, Torn, File
<1>3. Life \in [Id -> Parsed] /\ Life' = [Life EXCEPT ![i] = Content(r)]
  BY <1>1, <1>2, ParsedFacts DEF Life, Parse
<1>4. ASSUME r.op = "reserve" PROVE LifeStep
  <2>1. Life[i] = NoFile /\ Content(r) = File("uploading", r.meta)
    BY <1>1, <1>4 DEF Expects, Life, Content
  <2> HIDE DEF i, r
  <2> QED BY <1>1, <1>3, <2>1, ReserveStep
<1>5. ASSUME r.op = "markReady" PROVE LifeStep
  <2>1. /\ Life[i].state = "uploading" /\ Life[i].meta = r.meta
        /\ Content(r) = File("ready", r.meta)
    BY <1>1, <1>5 DEF Expects, Life, Content, Parse, File, Torn
  <2> HIDE DEF i, r
  <2> QED BY <1>1, <1>3, <2>1, MarkReadyStep
<1>6. LifeStep
  BY <1>1, <1>4, <1>5
<1>7. \A j \in Id : sidecar[j] \in Parsed \ {NoFile} => sidecar'[j] # Torn
  BY <1>1, <1>2 DEF Parsed, Torn, File, NoFile
<1> QED BY <1>6, <1>7 DEF Serves

\* A call that neither starts nor ends a removal, others staying where they are.
LEMMA SameRemoving ==
  ASSUME NEW c \in Call, call[c].pc \notin Deleting, call'[c].pc \notin Deleting,
         \A d \in Call \ {c} : call'[d].pc = call[d].pc /\ call'[d].id = call[d].id
  PROVE  Removing' = Removing
BY DEF Removing

\* Two calls that differ at most in what their open file is called, and the like.
Alike(f, g) == f.pc = g.pc /\ f.op = g.op /\ f.id = g.id

LEMMA RelinkIsAlike ==
  ASSUME NEW calls \in [Call -> CallType], NEW i, NEW new, NEW d \in Call
  PROVE  /\ Alike(Relink(calls, i, new)[d], calls[d])
         /\ calls[d].id # i => Relink(calls, i, new)[d] = calls[d]
BY DEF Relink, Alike, CallType

\* A step of one call that leaves other artifacts alone, and other calls but for the
\* names their open files have, keeps SerialInv if it keeps what the call counts on.
LEMMA StepKeepsSerial ==
  ASSUME SerialInv, StorageInv', NEW c \in Call,
         Mutating(c) \/ UNCHANGED <<sidecar, tmp>>,
         \A j \in Id \ {call[c].id} : sidecar'[j] = sidecar[j] /\ tmp'[j] = tmp[j],
         \A d \in Call \ {c} :
           \/ call'[d] = call[d]
           \/ Mutating(c) /\ call[d].id = call[c].id /\ Alike(call'[d], call[d]),
         call'[c].op = call[c].op, call'[c].id = call[c].id,
         call'[c].pc \in Deleting => call[c].op = "remove",
         Mutating(c)' => /\ Mutating(c)
                         /\ Counts(call'[c], sidecar'[call[c].id], tmp'[call[c].id])
  PROVE  SerialInv'
<1>1. \A d \in Call \ {c} :
        /\ call'[d].pc = call[d].pc /\ call'[d].op = call[d].op
        /\ call'[d].id = call[d].id
  BY DEF Alike
<1>2. \A d \in Call : Mutating(d)' => Mutating(d) /\ call'[d].id = call[d].id
  BY <1>1 DEF Mutating, Running
<1>3. Alone'
  BY <1>2 DEF SerialInv, Alone
<1>4. ASSUME NEW d \in Call \ {c}, Mutating(d)'
      PROVE  Counts(call'[d], sidecar'[call'[d].id], tmp'[call'[d].id])
  <2>1. Mutating(d) /\ call'[d].id = call[d].id /\ call[d].id \in Id
    BY <1>2, <1>4 DEF SerialInv, StorageInv, Sound, Mutating, Running
  <2>2. ~Mutating(c) \/ call[d].id # call[c].id
    BY <2>1 DEF SerialInv, Alone
  <2>3. /\ call'[d] = call[d]
        /\ sidecar'[call[d].id] = sidecar[call[d].id]
        /\ tmp'[call[d].id] = tmp[call[d].id]
    BY <2>1, <2>2
  <2> QED BY <2>1, <2>3 DEF SerialInv
<1>5. \A d \in Call : call'[d].pc \in Deleting => call'[d].op = "remove"
  BY <1>1 DEF SerialInv
<1> QED BY <1>3, <1>4, <1>5 DEF SerialInv

LEMMA CallFacts ==
  ASSUME SerialInv, NEW c \in Call
  PROVE  /\ call[c] \in CallType /\ Sound(call[c], marked)
         /\ call[c].pc # "idle" => call[c].id \in Id
         /\ call \in [Call -> CallType]
         /\ sidecar \in [Id -> OnDisk] /\ tmp \in [Id -> OnDisk]
         /\ Mutating(c) => Counts(call[c], sidecar[call[c].id], tmp[call[c].id])
BY DEF SerialInv, StorageInv, Sound

LEMMA ReadSidecarServes ==
  ASSUME SerialInv, NEW c \in Call, ReadSidecar(c)
  PROVE  SerialInv' /\ Serves
<1>1. StorageInv'
  BY ReadSidecarKeeps DEF SerialInv
<1>2. /\ call[c] \in CallType /\ call \in [Call -> CallType]
      /\ sidecar \in [Id -> OnDisk]
  BY CallFacts
<1>3. /\ call'[c].op = call[c].op /\ call'[c].id = call[c].id
      /\ call'[c].pc \in {"tmpOpen", "conflict", "resume"}
      /\ call'[c].pc = "tmpOpen" => /\ call[c].op = "reserve"
                                    /\ Parse(sidecar[call[c].id]) = NoFile
      /\ call'[c].pc = "resume" => call'[c].got = Parse(sidecar[call[c].id])
      /\ \A d \in Call \ {c} : call'[d] = call[d]
  BY <1>2 DEF ReadSidecar, Ended, Idle, CallType
<1>4. Removing' = Removing
  BY <1>3, SameRemoving DEF ReadSidecar, Deleting
<1>5. SerialInv'
  BY <1>1, <1>3, StepKeepsSerial DEF ReadSidecar, Mutating, Running, Counts, Expects, Deleting
<1>6. Serves
  BY <1>2, <1>4, SameLife DEF ReadSidecar
<1> QED BY <1>5, <1>6

LEMMA FillCacheServes ==
  ASSUME SerialInv, NEW c \in Call, FillCache(c)
  PROVE  SerialInv' /\ Serves
<1>1. StorageInv'
  BY FillCacheKeeps DEF SerialInv
<1>2. /\ call[c] \in CallType /\ call \in [Call -> CallType] /\ call[c].id \in Id
      /\ sidecar \in [Id -> OnDisk]
  BY CallFacts DEF FillCache
<1>3. /\ call'[c].op = call[c].op /\ call'[c].id = call[c].id
      /\ call'[c].pc \in {"stat", "rm", "done"}
      /\ call'[c].pc = "stat" => call[c].op = "resolve"
      /\ call'[c].pc = "rm" => call[c].op = "remove"
      /\ \A d \in Call \ {c} : call'[d] = call[d]
  BY <1>2 DEF FillCache, Loaded, Ended, Idle, CallType
<1>4. Removing' \in {Removing, Removing \cup {call[c].id}}
  BY <1>3, SameRemoving DEF FillCache, Removing, Deleting
<1>5. SerialInv'
  BY <1>1, <1>3, StepKeepsSerial
     DEF FillCache, Mutating, Running, Counts, Expects, Mutator, Deleting
<1>6. Serves
  BY <1>2, <1>4, SameLife DEF FillCache
<1> QED BY <1>5, <1>6

LEMMA CheckStatusServes ==
  ASSUME SerialInv, NEW c \in Call, CheckStatus(c)
  PROVE  SerialInv' /\ Serves
<1> DEFINE r == call[c]
           i == r.id
<1>1. StorageInv'
  BY CheckStatusKeeps DEF SerialInv
<1>2. /\ r \in CallType /\ call \in [Call -> CallType] /\ i \in Id
      /\ sidecar \in [Id -> OnDisk] /\ r.got = Parse(sidecar[i])
  BY CallFacts DEF CheckStatus, Mutating, Running, Counts, Mutator
<1>3. /\ call'[c].op = r.op /\ call'[c].id = i
      /\ call'[c].pc \in {"failed", "done", "tmpOpen"}
      /\ call'[c].pc = "tmpOpen" => r.got.state = "uploading"
                                    /\ call'[c].meta = r.got.meta
      /\ \A d \in Call \ {c} : call'[d] = call[d]
  <2>1. \/ call' = [call EXCEPT ![c] = Ended(r, "failed", NoFile)]
        \/ call' = [call EXCEPT ![c] = Ended(r, "done", NoFile)]
        \/ /\ r.got.state = "uploading"
           /\ call' = [call EXCEPT ![c] = [r EXCEPT !.pc = "tmpOpen",
                                        !.meta = r.got.meta, !.got = NoFile]]
    BY DEF CheckStatus
  <2>2. /\ Ended(r, "failed", NoFile).op = r.op /\ Ended(r, "failed", NoFile).id = i
        /\ Ended(r, "failed", NoFile).pc = "failed"
        /\ Ended(r, "done", NoFile).op = r.op /\ Ended(r, "done", NoFile).id = i
        /\ Ended(r, "done", NoFile).pc = "done"
    BY DEF Ended, Idle
  <2>3. /\ call'[c] \in {Ended(r, "failed", NoFile), Ended(r, "done", NoFile)}
           \/ /\ r.got.state = "uploading"
              /\ call'[c] = [r EXCEPT !.pc = "tmpOpen", !.meta = r.got.meta,
                                       !.got = NoFile]
        /\ \A d \in Call \ {c} : call'[d] = call[d]
    BY <1>2, <2>1
  <2> QED BY <1>2, <2>2, <2>3 DEF CallType
<1>4. r.got.state = "uploading" => sidecar[i] = File("uploading", r.got.meta)
  BY <1>2 DEF Parse, NoFile, File, Torn, OnDisk, Parsed
<1>5. Removing' = Removing
  BY <1>3, SameRemoving DEF CheckStatus, Deleting
<1>6. SerialInv'
  BY <1>1, <1>3, <1>4, StepKeepsSerial
     DEF CheckStatus, Mutating, Running, Counts, Expects, Deleting
<1>7. Serves
  BY <1>2, <1>5, SameLife DEF CheckStatus
<1> QED BY <1>6, <1>7

LEMMA OpenExclusiveServes ==
  ASSUME SerialInv, NEW c \in Call, OpenExclusive(c)
  PROVE  SerialInv' /\ Serves
<1> DEFINE r == call[c]
           i == r.id
<1>1. StorageInv'
  BY OpenExclusiveKeeps DEF SerialInv
<1>2. /\ r \in CallType /\ call \in [Call -> CallType] /\ i \in Id
      /\ sidecar \in [Id -> OnDisk] /\ r.op \in {"reserve", "markReady"}
  BY CallFacts DEF OpenExclusive, Sound, Writing
<1>3. Mutating(c) /\ r.op = "reserve"
  BY <1>2, CallFacts DEF OpenExclusive, Mutating, Running, Counts, Mutator
<1>4. /\ call'[c].op = r.op /\ call'[c].id = i
      /\ \/ call'[c].pc = "read" /\ sidecar' = sidecar
         \/ /\ call'[c].pc = "write" /\ call'[c].fd = "final"
            /\ sidecar[i] = NoFile /\ sidecar' = [sidecar EXCEPT ![i] = Torn]
      /\ \A d \in Call \ {c} : call'[d] = call[d]
  BY <1>2 DEF OpenExclusive, CallType
<1>5. Removing' = Removing
  BY <1>4, SameRemoving DEF OpenExclusive, Deleting
<1>6. /\ \A j \in Id \ {i} : sidecar'[j] = sidecar[j] /\ tmp'[j] = tmp[j]
      /\ call'[c].pc = "write" => sidecar'[i] = Torn
  BY <1>2, <1>4 DEF OpenExclusive
<1>7. SerialInv'
  BY <1>1, <1>3, <1>4, <1>6, StepKeepsSerial DEF Counts, Expects, Deleting
<1>8. Serves
  <2>1. \A j \in Id : sidecar'[j] = sidecar[j]
                      \/ (Parse(sidecar[j]) = NoFile /\ Parse(sidecar'[j]) = NoFile)
    BY <1>2, <1>4 DEF Parse
  <2> QED BY <2>1, <1>1, <1>5, SameLife DEF StorageInv
<1> QED BY <1>7, <1>8

LEMMA OpenTmpServes ==
  ASSUME SerialInv, NEW c \in Call, OpenTmp(c)
  PROVE  SerialInv' /\ Serves
<1> DEFINE r == call[c]
           i == r.id
<1>1. StorageInv'
  BY OpenTmpKeeps DEF SerialInv
<1>2. /\ r \in CallType /\ call \in [Call -> CallType] /\ i \in Id
      /\ sidecar \in [Id -> OnDisk] /\ tmp \in [Id -> OnDisk]
      /\ r.op \in {"reserve", "markReady"}
  BY CallFacts DEF OpenTmp, Sound, Writing
<1>3. Mutating(c) /\ Expects(r, sidecar[i])
  BY <1>2, CallFacts DEF OpenTmp, Mutating, Running, Counts, Mutator
<1>4. /\ call'[c].op = r.op /\ call'[c].id = i /\ call'[c].meta = r.meta
      /\ call'[c].pc = "tmpWrite" /\ call'[c].fd = "tmp"
      /\ \A d \in Call \ {c} : call'[d] = call[d]
  BY <1>2 DEF OpenTmp, CallType
<1>5. /\ \A j \in Id \ {i} : sidecar'[j] = sidecar[j] /\ tmp'[j] = tmp[j]
      /\ sidecar' = sidecar /\ tmp'[i] = Torn
  BY <1>2 DEF OpenTmp
<1>6. SerialInv'
  BY <1>1, <1>3, <1>4, <1>5, StepKeepsSerial DEF Counts, Expects, Deleting
<1>7. Removing' = Removing
  BY <1>4, SameRemoving DEF OpenTmp, Deleting
<1>8. Serves
  BY <1>2, <1>5, <1>7, SameLife
<1> QED BY <1>6, <1>8

LEMMA WriteServes ==
  ASSUME SerialInv, NEW c \in Call, Write(c)
  PROVE  SerialInv' /\ Serves
<1> DEFINE r == call[c]
           i == r.id
<1>1. StorageInv'
  BY WriteKeeps DEF SerialInv
<1>2. /\ r \in CallType /\ call \in [Call -> CallType] /\ i \in Id
      /\ sidecar \in [Id -> OnDisk] /\ tmp \in [Id -> OnDisk]
      /\ r.op \in {"reserve", "markReady"}
  BY CallFacts DEF Write, Sound, Writing
<1>3. Mutating(c) /\ Counts(r, sidecar[i], tmp[i])
  BY <1>2, CallFacts DEF Write, Mutating, Running, Mutator
<1>4. /\ call'[c].op = r.op /\ call'[c].id = i /\ call'[c].meta = r.meta
      /\ call'[c].pc = IF r.pc = "write" THEN "commit" ELSE "rename"
      /\ \A d \in Call \ {c} : call'[d] = call[d]
  BY <1>2 DEF Write, CallType
<1>5. Removing' = Removing
  <2>1. r.pc \in {"write", "tmpWrite"}
    BY DEF Write
  <2>2. r.pc \notin Deleting /\ call'[c].pc \notin Deleting
    BY <1>4, <2>1 DEF Deleting
  <2> QED BY <1>4, <2>2, SameRemoving
<1>6. Content(call'[c]) = Content(r)
  BY <1>4 DEF Content
<1>7. CASE r.pc = "write"
  <2>1. /\ sidecar' = [sidecar EXCEPT ![i] = Content(r)] /\ tmp' = tmp
        /\ Expects(r, sidecar[i])
    BY <1>3, <1>7 DEF Write, Counts, Landed, Expects, Parse
  <2>2. Serves
    BY <1>2, <1>3, <1>5, <1>7, <2>1, CallFacts, ReplacedServes DEF Writing
  <2>3. SerialInv'
    BY <1>1, <1>2, <1>3, <1>4, <1>7, <2>1, StepKeepsSerial DEF Counts, Expects, Deleting
  <2> QED BY <2>2, <2>3
<1>8. CASE r.pc = "tmpWrite"
  <2>1. tmp' = [tmp EXCEPT ![i] = Content(r)] /\ sidecar' = sidecar
    BY <1>3, <1>8 DEF Write, Counts, Landed
  <2>2. Serves
    BY <1>2, <1>5, <2>1, SameLife
  <2>3. SerialInv'
    BY <1>1, <1>2, <1>3, <1>4, <1>6, <1>8, <2>1, StepKeepsSerial
       DEF Counts, Expects, Deleting
  <2> QED BY <2>2, <2>3
<1> QED BY <1>7, <1>8 DEF Write

LEMMA RenameServes ==
  ASSUME SerialInv, NEW c \in Call, Rename(c)
  PROVE  SerialInv' /\ Serves
<1> DEFINE r == call[c]
           i == r.id
           moved == [call EXCEPT ![c].pc = "commit"]
<1>1. StorageInv'
  BY RenameKeeps DEF SerialInv
<1>2. /\ r \in CallType /\ call \in [Call -> CallType] /\ i \in Id
      /\ sidecar \in [Id -> OnDisk] /\ tmp \in [Id -> OnDisk]
      /\ r.op \in {"reserve", "markReady"} /\ Sound(r, marked)
  BY CallFacts DEF Rename, Sound, Writing
<1>3. Mutating(c) /\ Expects(r, sidecar[i]) /\ tmp[i] = Content(r)
  BY <1>2, CallFacts DEF Rename, Mutating, Running, Mutator, Counts
<1>4. tmp[i] # NoFile
  BY <1>3 DEF Content, File, NoFile
<1>5. /\ sidecar' = [sidecar EXCEPT ![i] = Content(r)]
      /\ tmp' = [tmp EXCEPT ![i] = NoFile]
      /\ call' = Relink(moved, i, [tmp |-> "final", final |-> "gone"])
  BY <1>3, <1>4 DEF Rename
<1>6. /\ call'[c].op = r.op /\ call'[c].id = i /\ call'[c].pc = "commit"
      /\ \A d \in Call \ {c} :
           call'[d] = call[d] \/ (call[d].id = i /\ Alike(call'[d], call[d]))
  <2>1. /\ moved[c].op = r.op /\ moved[c].id = i /\ moved[c].pc = "commit"
        /\ moved \in [Call -> CallType] /\ \A d \in Call \ {c} : moved[d] = call[d]
    BY <1>2 DEF CallType
  <2> HIDE DEF moved
  <2>2. \A d \in Call : /\ Alike(call'[d], moved[d])
                        /\ moved[d].id # i => call'[d] = moved[d]
    BY <1>5, <2>1, RelinkIsAlike
  <2>3. call'[c].op = r.op /\ call'[c].id = i /\ call'[c].pc = "commit"
    BY <2>1, <2>2 DEF Alike
  <2>4. ASSUME NEW d \in Call \ {c}
        PROVE  call'[d] = call[d] \/ (call[d].id = i /\ Alike(call'[d], call[d]))
    BY <2>1, <2>2
  <2> QED BY <2>3, <2>4
<1>7. Removing' = Removing
  BY <1>6, SameRemoving DEF Rename, Alike, Deleting
<1>8. Serves
  BY <1>2, <1>3, <1>5, <1>7, ReplacedServes DEF Writing, Rename
<1>9. \A j \in Id \ {i} : sidecar'[j] = sidecar[j] /\ tmp'[j] = tmp[j]
  BY <1>2, <1>5
<1>10. SerialInv'
  BY <1>1, <1>3, <1>6, <1>9, StepKeepsSerial DEF Counts, Deleting
<1> QED BY <1>8, <1>10

LEMMA CommitServes ==
  ASSUME SerialInv, NEW c \in Call, CommitToCache(c) \/ Stat(c)
  PROVE  SerialInv' /\ Serves
<1>1. StorageInv'
  BY CommitToCacheKeeps, StatKeeps DEF SerialInv
<1>2. /\ call[c] \in CallType /\ call \in [Call -> CallType]
      /\ sidecar \in [Id -> OnDisk]
  BY CallFacts
<1>3. PICK got : call' = [call EXCEPT ![c] = Ended(call[c], "done", got)]
  BY DEF CommitToCache, Stat
<1>4. /\ call'[c].op = call[c].op /\ call'[c].id = call[c].id
      /\ call'[c].pc = "done"
      /\ \A d \in Call \ {c} : call'[d] = call[d]
  BY <1>2, <1>3 DEF Ended, Idle
<1>5. Removing' = Removing
  BY <1>4, SameRemoving DEF CommitToCache, Stat, Deleting
<1>6. SerialInv'
  BY <1>1, <1>4, StepKeepsSerial DEF CommitToCache, Stat, Mutating, Running, Deleting
<1>7. Serves
  BY <1>2, <1>5, SameLife DEF CommitToCache, Stat
<1> QED BY <1>6, <1>7

\* One of a removal's rm calls settles: the sidecar is gone, or is as it was.
LEMMA SettledServes ==
  ASSUME SerialInv, StorageInv', NEW c \in Call, call[c].pc \in Deleting,
         NEW f, NEW pc \in Deleting, UNCHANGED tmp,
         LET after == [call EXCEPT ![c] = Settled(call[c], f, pc)]
         IN  \/ /\ sidecar' = [sidecar EXCEPT ![call[c].id] = NoFile]
                /\ call' = Relink(after, call[c].id, [final |-> "gone"])
             \/ call' = after /\ sidecar' = sidecar
  PROVE  SerialInv' /\ Serves
<1> DEFINE r == call[c]
           i == r.id
           after == [call EXCEPT ![c] = Settled(r, f, pc)]
<1>2. /\ r \in CallType /\ call \in [Call -> CallType] /\ i \in Id
      /\ sidecar \in [Id -> OnDisk]
  BY CallFacts DEF Deleting
<1>3. Mutating(c) /\ r.op = "remove"
  BY <1>2 DEF SerialInv, Mutating, Running, Mutator, Deleting
<1>5. /\ after[c].op = r.op /\ after[c].id = i
      /\ after[c].pc \in Deleting \cup {"done", "failed"}
      /\ after \in [Call -> CallType] /\ \A d \in Call \ {c} : after[d] = call[d]
  <2>1. Sound(r, marked) /\ Sound(Settled(r, f, pc), marked)
    BY CallFacts, SettledIsSound
  <2> QED BY <1>2, <2>1, SettledFacts DEF Sound
<1>6. \/ sidecar' = [sidecar EXCEPT ![i] = NoFile]
         /\ call' = Relink(after, i, [final |-> "gone"])
      \/ call' = after /\ sidecar' = sidecar
  OBVIOUS
<1> HIDE DEF after
<1>7. \A d \in Call : /\ Alike(call'[d], after[d])
                      /\ after[d].id # i => call'[d] = after[d]
  BY <1>5, <1>6, RelinkIsAlike DEF Alike
<1>8. /\ call'[c].op = r.op /\ call'[c].id = i
      /\ call'[c].pc \in Deleting \cup {"done", "failed"}
  BY <1>5, <1>7 DEF Alike
<1>9. ASSUME NEW d \in Call \ {c}
      PROVE  /\ call'[d] = call[d] \/ (call[d].id = i /\ Alike(call'[d], call[d]))
             /\ call'[d].pc = call[d].pc /\ call'[d].id = call[d].id
  BY <1>5, <1>7 DEF Alike
<1>10. SerialInv'
  <2>1. \A j \in Id \ {i} : sidecar'[j] = sidecar[j] /\ tmp'[j] = tmp[j]
    BY <1>2, <1>6
  <2>2. Counts(call'[c], sidecar'[i], tmp'[i])
    BY <1>8 DEF Counts, Deleting
  <2> QED BY <1>3, <1>8, <1>9, <2>1, <2>2, StepKeepsSerial
<1>11. i \in Removing /\ Removing' \in {Removing, Removing \ {i}}
  <2>1. i \in Removing
    BY <1>2 DEF Removing
  <2>2. \A d \in Call \ {c} : call[d].pc \in Deleting => call[d].id # i
    BY <1>3 DEF SerialInv, Alone, Mutating, Running, Mutator, Deleting
  <2>3. CASE call'[c].pc \in Deleting
    BY <1>2, <1>8, <1>9, <2>3 DEF Removing
  <2>4. CASE call'[c].pc \notin Deleting
    <3>1. Removing' = Removing \ {i}
      BY <1>2, <1>8, <1>9, <2>2, <2>4 DEF Removing
    <3> QED BY <2>1, <3>1
  <2> QED BY <2>1, <2>3, <2>4
<1>12. Serves
  <2>1. CASE sidecar' = [sidecar EXCEPT ![i] = NoFile]
    <3>1. Life' = [Life EXCEPT ![i] = NoFile]
      BY <1>2, <2>1 DEF Life, Parse, NoFile, Torn, File
    <3>2. LifeStep
      BY <1>2, <1>11, <3>1, LifecycleIs
    <3>3. \A j \in Id : sidecar[j] \in Parsed \ {NoFile} => sidecar'[j] # Torn
      BY <1>2, <2>1 DEF Parsed, NoFile, Torn, File
    <3> QED BY <3>2, <3>3 DEF Serves
  <2>2. CASE sidecar' = sidecar
    <3>1. Removing' \in SUBSET Removing
      BY <1>11
    <3> QED BY <1>2, <2>2, <3>1, SameLife
  <2> QED BY <1>6, <2>1, <2>2
<1> QED BY <1>10, <1>12

LEMMA RmServes ==
  ASSUME SerialInv, NEW c \in Call, Rm(c) \/ RmFails(c)
  PROVE  SerialInv' /\ Serves
<1>1. StorageInv' /\ call[c].pc \in Deleting /\ UNCHANGED tmp
  BY RmKeeps, RmFailsKeeps DEF SerialInv, Rm, RmFails
<1>2. \E f, pc :
        /\ pc \in Deleting
        /\ LET after == [call EXCEPT ![c] = Settled(call[c], f, pc)]
           IN  \/ /\ sidecar' = [sidecar EXCEPT ![call[c].id] = NoFile]
                  /\ call' = Relink(after, call[c].id, [final |-> "gone"])
               \/ call' = after /\ sidecar' = sidecar
  <2>1. CASE Rm(c)
    BY <2>1 DEF Rm
  <2>2. CASE RmFails(c)
    BY <2>2 DEF RmFails, Deleting
  <2> QED BY <2>1, <2>2
<1> QED BY <1>1, <1>2, SettledServes

\* An operation fails: what its method had not finished is lost, no readable sidecar is.
LEMMA IOErrorServes ==
  ASSUME SerialInv, NEW c \in Call, IOError(c)
  PROVE  SerialInv' /\ Serves
<1> DEFINE r == call[c]
           i == r.id
<1>1. StorageInv'
  BY IOErrorKeeps DEF SerialInv
<1>2. /\ r \in CallType /\ call \in [Call -> CallType] /\ i \in Id
      /\ sidecar \in [Id -> OnDisk] /\ tmp \in [Id -> OnDisk] /\ Sound(r, marked)
      /\ r.pc \in Awaitable
  BY CallFacts DEF IOError, Awaitable
<1>3. /\ call'[c].op = r.op /\ call'[c].id = i /\ call'[c].pc = "failed"
      /\ \A d \in Call \ {c} : call'[d] = call[d]
  BY <1>2 DEF IOError, Ended, Idle
<1>4. r.pc \in {"write", "tmpWrite"} =>
        Mutating(c) /\ Counts(r, sidecar[i], tmp[i])
  BY <1>2, CallFacts DEF Sound, Writing, Mutating, Running, Mutator
<1>5. /\ sidecar' = sidecar
      /\ \A j \in Id \ {i} : tmp'[j] = tmp[j]
      /\ tmp' = tmp \/ Mutating(c)
  <2>1. sidecar' \in Spoilt(sidecar, r, "final") /\ tmp' \in Spoilt(tmp, r, "tmp")
    BY DEF IOError
  <2>2. CASE r.pc = "write"
    <3>1. r.fd = "final" /\ sidecar[i] = Torn
      BY <1>4, <2>2 DEF Counts
    <3>2. [sidecar EXCEPT ![i] = Torn] = sidecar
      BY <1>2, <3>1
    <3> QED BY <2>1, <2>2, <3>1, <3>2 DEF Spoilt
  <2>3. CASE r.pc = "tmpWrite"
    BY <1>2, <1>4, <2>1, <2>3 DEF Counts, Spoilt
  <2>4. CASE r.pc \notin {"write", "tmpWrite"}
    BY <2>1, <2>4 DEF Spoilt
  <2> QED BY <2>2, <2>3, <2>4
<1>6. Removing' = Removing
  BY <1>2, <1>3, SameRemoving DEF Awaitable, Deleting
<1>7. ~Mutating(c)' /\ call'[c].pc \notin Deleting
  BY <1>3 DEF Mutating, Running, Deleting
<1>8. SerialInv'
  BY <1>1, <1>3, <1>5, <1>7, StepKeepsSerial
<1>9. Serves
  BY <1>2, <1>5, <1>6, SameLife
<1> QED BY <1>8, <1>9

LEMMA StorageStepServes ==
  ASSUME SerialInv, NEW c \in Call, StorageStep(c)
  PROVE  SerialInv' /\ Serves
BY ReadSidecarServes, FillCacheServes, CheckStatusServes, OpenExclusiveServes,
   OpenTmpServes, WriteServes, RenameServes, CommitServes, RmServes, IOErrorServes
   DEF StorageStep

LEMMA LoadedGoesOn ==
  ASSUME NEW r, DOMAIN r = DOMAIN Idle, r = [x \in DOMAIN Idle |-> r[x]]
  PROVE  /\ Loaded(r).op = r.op /\ Loaded(r).id = r.id
         /\ Loaded(r).pc \in {"stat", "rm", "done"}
         /\ Loaded(r).pc = "rm" => r.op = "remove"
BY DEF Loaded, Ended, Idle

\* A call begins only where no other mutates the same artifact.
LEMMA InvokeServes ==
  ASSUME Overlap = {}, SerialInv, NEW c \in Call, Invoke(c)
  PROVE  SerialInv' /\ Serves
<1>1. StorageInv'
  BY InvokeKeeps DEF SerialInv
<1>2. call \in [Call -> CallType] /\ sidecar \in [Id -> OnDisk]
  BY CallFacts
<1>3. PICK op \in Op, i \in Id, m \in Meta \cup {Null} :
        /\ \A d \in Call \ {c} :
             Running(d) /\ call[d].id = i => ~({op, call[d].op} \subseteq Mutator)
        /\ Begin(c, op, i, m)
  BY DEF Invoke
<1>4. /\ call'[c].op = op /\ call'[c].id = i
      /\ call'[c].pc \in {"open", "read", "stat", "rm", "done"}
      /\ call'[c].pc = "open" => op = "reserve"
      /\ call'[c].pc = "rm" => op = "remove"
      /\ \A d \in Call \ {c} : call'[d] = call[d]
  <2> DEFINE r == [Idle EXCEPT !.op = op, !.id = i, !.meta = m, !.got = Cached(c, i)]
  <2>1. \/ /\ op \in {"reserve", "markReady"}
           /\ call' = [call EXCEPT ![c] = [r EXCEPT !.got = NoFile,
                         !.pc = IF op = "reserve" THEN "open" ELSE "read"]]
        \/ call' = [call EXCEPT ![c] = [r EXCEPT !.pc = "read"]]
        \/ call' = [call EXCEPT ![c] = Loaded(r)]
    BY <1>3 DEF Begin
  <2>2. r.op = op /\ r.id = i /\ DOMAIN r = DOMAIN Idle
        /\ r = [x \in DOMAIN Idle |-> r[x]]
    BY DEF Idle
  <2>3. CASE call' = [call EXCEPT ![c] = Loaded(r)]
    <3> HIDE DEF r
    <3> QED BY <1>2, <2>2, <2>3, LoadedGoesOn
  <2>4. CASE call' = [call EXCEPT ![c] = [r EXCEPT !.pc = "read"]]
    BY <1>2, <2>4 DEF Idle
  <2>5. CASE /\ op \in {"reserve", "markReady"}
             /\ call' = [call EXCEPT ![c] = [r EXCEPT !.got = NoFile,
                         !.pc = IF op = "reserve" THEN "open" ELSE "read"]]
    BY <1>2, <2>5 DEF Idle
  <2> QED BY <2>1, <2>3, <2>4, <2>5
<1>5. ~Running(c) /\ call[c].pc \notin Deleting /\ UNCHANGED <<sidecar, tmp>>
  BY <1>3 DEF Invoke, Running, Begin, Deleting
<1>6. \A d \in Call \ {c} : Mutating(d)' <=> Mutating(d)
  BY <1>4 DEF Mutating, Running
<1>7. \A d \in Call \ {c} : Mutating(c)' /\ Mutating(d) => call[d].id # i
  BY <1>3, <1>4 DEF Mutating
<1>8. Alone'
  BY <1>4, <1>6, <1>7 DEF SerialInv, Alone
<1>9. Counts(call'[c], sidecar'[i], tmp'[i])
  BY <1>4 DEF Counts
<1>10. SerialInv'
  BY <1>1, <1>4, <1>5, <1>6, <1>8, <1>9 DEF SerialInv, Deleting
<1>11. Removing' \in {Removing, Removing \cup {i}}
  BY <1>4, <1>5 DEF Removing
<1>12. Serves
  BY <1>2, <1>5, <1>11, SameLife
<1> QED BY <1>10, <1>12

\* A crash: the calls of one process are gone, the disk is as it was.
LEMMA CrashServes ==
  ASSUME SerialInv, NEW p \in Proc, CrashStorage(p)
  PROVE  SerialInv' /\ Serves
<1>1. StorageInv'
  BY CrashStorageKeeps DEF SerialInv
<1>2. UNCHANGED <<sidecar, tmp>> /\ sidecar \in [Id -> OnDisk]
  BY CallFacts DEF CrashStorage, SerialInv, StorageInv
<1>3. \A d \in Call : call'[d] = call[d] \/ call'[d].pc = "idle"
  BY DEF CrashStorage, Idle
<1>4. \A d \in Call : Mutating(d)' => Mutating(d) /\ call'[d] = call[d]
  BY <1>3 DEF Mutating, Running
<1>5. SerialInv'
  <2>1. Alone'
    BY <1>4 DEF SerialInv, Alone
  <2>2. \A d \in Call : call'[d].pc \in Deleting => call'[d].op = "remove"
    BY <1>3 DEF SerialInv, Deleting
  <2> QED BY <1>1, <1>2, <1>4, <2>1, <2>2 DEF SerialInv
<1>6. Removing' \in SUBSET Removing
  BY <1>3 DEF Removing, Deleting
<1>7. Serves
  BY <1>2, <1>6, SameLife
<1> QED BY <1>5, <1>7

\* A step that touches neither a sidecar, a tmp file nor a call.
LEMMA ApartServes ==
  ASSUME SerialInv, StorageInv', UNCHANGED <<sidecar, tmp, call>>
  PROVE  SerialInv' /\ Serves
<1>1. SerialInv'
  BY DEF SerialInv, Alone, Mutating, Running
<1>2. Removing' = Removing /\ sidecar \in [Id -> OnDisk]
  BY DEF Removing, SerialInv, StorageInv
<1> QED BY <1>1, <1>2, SameLife

LEMMA NextServes ==
  ASSUME Overlap = {}, SerialInv, [NextStorage]_storageVars
  PROVE  SerialInv' /\ Serves
<1>1. CASE \E c \in Call : Invoke(c)
  BY <1>1, InvokeServes
<1>2. CASE \E c \in Call : StorageStep(c)
  BY <1>2, StorageStepServes
<1>3. CASE \E p \in Proc : CrashStorage(p)
  BY <1>3, CrashServes
<1>4. CASE (\E i \in Id : Deposit(i)) \/ UNCHANGED storageVars
  <2>1. StorageInv'
    BY NextStorageKeeps, <1>4 DEF SerialInv, NextStorage
  <2> QED BY <1>4, <2>1, ApartServes DEF Deposit, storageVars
<1> QED BY <1>1, <1>2, <1>3, <1>4 DEF NextStorage

LEMMA InitSerial == InitStorage => SerialInv /\ Lifecycle!Init
<1> SUFFICES ASSUME InitStorage PROVE SerialInv /\ Lifecycle!Init
  OBVIOUS
<1>1. \A c \in Call : call[c].pc = "idle" /\ ~Mutating(c)
  BY DEF InitStorage, Idle, Mutating, Running
<1>2. SerialInv
  BY <1>1, InitStorageHolds DEF SerialInv, Alone, Deleting
<1>3. Lifecycle!Init
  BY <1>1 DEF InitStorage, Lifecycle!Init, Lifecycle!Nothing, Parse, NoFile, Torn, File, Deleting
<1> QED BY <1>2, <1>3

\* One mutating call at a time on an artifactId: what such a call counts on, of
\* its sidecar and its tmp file, stays true from step to step.
THEOREM SerialInvariant ==
  ASSUME Overlap = {}
  PROVE  SpecStorage => []SerialInv
<1>1. SerialInv /\ [NextStorage]_storageVars => SerialInv'
  BY NextServes
<1> QED BY <1>1, InitSerial, PTL DEF SpecStorage

\* Then no readable sidecar is ever replaced by an unreadable one, crashes
\* included: writeSidecar's promise.
THEOREM ReadableAlwaysStays ==
  ASSUME Overlap = {}
  PROVE  SpecStorage => ReadableStaysReadable
<1>1. SerialInv /\ [NextStorage]_storageVars =>
        [\A i \in Id : sidecar[i] \in Parsed \ {NoFile} => sidecar'[i] # Torn]_sidecar
  BY NextServes DEF Serves
<1> QED BY <1>1, SerialInvariant, PTL DEF SpecStorage, ReadableStaysReadable

\* And then the adapter implements ArtifactLifecycle: an artifactId is reserved,
\* made ready with the metadata of its reservation, and forgotten only while its
\* removal is under way.
THEOREM LifecycleImplemented ==
  ASSUME Overlap = {}
  PROVE  SpecStorage => ImplementsLifecycle
<1>1. SerialInv /\ [NextStorage]_storageVars => [Lifecycle!Next]_(Lifecycle!vars)
  BY NextServes DEF Serves, LifeStep
<1> QED BY <1>1, InitSerial, SerialInvariant, PTL
        DEF SpecStorage, ImplementsLifecycle, Lifecycle!Spec
=============================================================================
