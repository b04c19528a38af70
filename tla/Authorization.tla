--------------------------- MODULE Authorization ---------------------------
(***************************************************************************)
(* Who may act on which artifact: runAuthorize and prepareArtifactRequest  *)
(* of src/core.ts in front of the tus server and the artifact handlers,    *)
(* with createCapabilityAuthorize as the authorize hook.                   *)
(*                                                                         *)
(* A request takes two steps, for others run between them: it is approved  *)
(* (metadata or URL read, kind and relation looked up, token checked), and *)
(* then carried out, by the tus server on what that read for itself.       *)
(* Rejections answer 401 or 403, change nothing, and are left out.         *)
(*                                                                         *)
(* Around the requests time passes, tokens are issued, and the signing     *)
(* keys are rotated, process by process, as OPERATIONS.md prescribes.      *)
(* Storage is one sidecar per artifactId that a request sees or changes at *)
(* once; LocalStorage and S3Storage say how it really does.                *)
(***************************************************************************)
EXTENDS UploadMetadata, CapabilityTokens, FiniteSets

CONSTANTS
  Server,      \* server processes
  Key, first,  \* key ids, and the one in use at the start
  Request,     \* slots for requests in flight
  Header,      \* Upload-Metadata headers clients send
  Url,         \* upload URLs clients send
  MaxTime,     \* bound: how long the model runs
  MaxTokens    \* bound: how many tokens are issued

ASSUME KeyAssumption == first \in Key
ASSUME InputAssumption == Header \subseteq Seq(Pairs) /\ Url \subseteq Seq(Segments)
ASSUME NobodyAssumption == Nobody \notin Id /\ Nobody # Malformed
ASSUME BoundAssumption == MaxTime \in Nat /\ MaxTokens \in Nat

VARIABLES
  clock,     \* the true time
  keys,      \* the keys each process verifies with
  signer,    \* the key each process signs with
  tokens,    \* tokens issued, each with the true time it was issued at
  sidecar,   \* what is stored of each artifact, and (history) who created it
  request    \* the request in each slot

vars == <<clock, keys, signer, tokens, sidecar, request>>

-----------------------------------------------------------------------------

Nothing == [kind |-> video, ext |-> Absent, rel |-> Absent, by |-> Absent]
Known(i) == sidecar[i] # Nothing

\* What authorize was told, what the tus server or handler will act on, the session whose
\* token approved it, and (history) whether that token's lifetime was over by more than
\* the tolerance and the error of the two clocks it was issued and checked by.
Unseen == [id |-> Absent, kind |-> video, rel |-> Absent]
Idle == [op |-> "none", seen |-> Unseen, target |-> Refused, session |-> Nobody, late |-> FALSE]

\* What a client may have at hand: a token of this deployment, or of another one that
\* shares the key, a mangled one, or none.
AtHand == {Nobody, Malformed} \cup {[t EXCEPT !.issuer = x] : t \in tokens, x \in Issuer}

Init ==
  /\ clock = 0
  /\ keys = [s \in Server |-> {first}]
  /\ signer = [s \in Server |-> first]
  /\ tokens = {}
  /\ sidecar = [i \in Id |-> Nothing]
  /\ request = [r \in Request |-> Idle]

-----------------------------------------------------------------------------
(* Time, tokens and keys.                                                  *)

Tick ==
  /\ clock < MaxTime
  /\ clock' = clock + 1
  /\ UNCHANGED <<keys, signer, tokens, sidecar, request>>

\* A pairing link is made: its token names the artifact that anchors the session.
Issue(s, a) ==
  /\ Cardinality(tokens) < MaxTokens
  /\ \E now \in Readings(clock) :
       tokens' = tokens \cup {Issued(a, signer[s], now, clock)}
  /\ UNCHANGED <<clock, keys, signer, sidecar, request>>

\* A process learns a key that is not in use anywhere.
Introduce(s, k) ==
  /\ k \notin {signer[p] : p \in Server} /\ k \notin keys[s]
  /\ keys' = [keys EXCEPT ![s] = @ \cup {k}]
  /\ UNCHANGED <<clock, signer, tokens, sidecar, request>>

\* Issuance switches to a key every process knows by now.
Switch(s, k) ==
  /\ \A p \in Server : k \in keys[p]
  /\ signer' = [signer EXCEPT ![s] = k]
  /\ UNCHANGED <<clock, keys, tokens, sidecar, request>>

\* A key nobody signs with is dropped once the last of its tokens has expired.
Retire(s, k) ==
  /\ k \in keys[s] /\ k \notin {signer[p] : p \in Server}
  /\ \A t \in tokens : t.kid = k => t.at + Expiry < clock
  /\ keys' = [keys EXCEPT ![s] = @ \ {k}]
  /\ UNCHANGED <<clock, signer, tokens, sidecar, request>>

-----------------------------------------------------------------------------
(* Requests, approved.                                                     *)

Asks(s, t, id, rel) == \E now \in Readings(clock) : Authorizes(t, now, keys[s], id, rel)

Approve(r, op, seen, target, t) ==
  /\ request' = [request EXCEPT ![r] =
       [op |-> op, seen |-> seen, target |-> target,
        session |-> IF t = Nobody THEN Nobody ELSE t.artifactId,
        late |-> t # Nobody /\ clock > t.at + Expiry + Tolerance + 2 * Skew]]
  /\ UNCHANGED <<clock, keys, signer, tokens, sidecar>>

\* An artifact read from a URL; its kind and relation are storage's, not the request's.
The(i) == [Unseen EXCEPT !.id = i]

\* What the two readers make of each header and of each URL.
CreateViews == {[seen |-> Seen(h), target |-> Named(h)] : h \in Header}
PatchViews == {[seen |-> SeenTarget(u), target |-> TusTarget(u)] : u \in Url}

\* (Slot r is idle in the approvals below: see Arrival.)

\* POST /upload: without an artifactId there is nobody to ask about, and the naming
\* function is left to refuse.
ApproveCreate(r, s, v, t) ==
  IF v.seen.id = Absent
  THEN Approve(r, "create", v.seen, v.target, Nobody)
  ELSE /\ Asks(s, t, v.seen.id, v.seen.rel)
       /\ Approve(r, "create", v.seen, v.target, t)

\* PATCH, HEAD or DELETE /upload/...: an artifactId that cannot be resolved is a 403.
ApprovePatch(r, s, v, t) ==
  /\ v.seen # Absent
  /\ Asks(s, t, v.seen, sidecar[v.seen].rel)
  /\ Approve(r, "patch", The(v.seen), v.target, t)

\* GET and DELETE /artifacts/...: a watch link may carry its token in the query.
ApproveArtifact(r, s, op, i, t, q) ==
  LET u == Presented(t, IF op = "get" THEN q ELSE Nobody)
  IN  /\ Asks(s, u, i, sidecar[i].rel)
      /\ Approve(r, op, The(i), The(i), u)

-----------------------------------------------------------------------------
(* Requests, carried out.                                                  *)

Answered(r) == request' = [request EXCEPT ![r] = Idle]

\* reserveUpload, unless the name was refused (400) or is taken (409).
Create(r) ==
  LET q == request[r]
  IN  /\ q.op = "create"
      /\ sidecar' = IF q.target = Refused \/ Known(q.target.id) THEN sidecar
                    ELSE [sidecar EXCEPT ![q.target.id] =
                            [kind |-> q.target.kind, ext |-> q.target.ext,
                             rel |-> q.target.rel, by |-> q.session]]
      /\ Answered(r)
      /\ UNCHANGED <<clock, keys, signer, tokens>>

\* The bytes or the offset of an upload are not in the sidecar, nor is a GET's answer.
Serve(r) ==
  /\ request[r].op \in {"patch", "get"}
  /\ Answered(r)
  /\ UNCHANGED <<clock, keys, signer, tokens, sidecar>>

\* remove
Delete(r) ==
  /\ request[r].op = "delete"
  /\ sidecar' = [sidecar EXCEPT ![request[r].target.id] = Nothing]
  /\ Answered(r)
  /\ UNCHANGED <<clock, keys, signer, tokens>>

-----------------------------------------------------------------------------

Environment ==
  \/ Tick
  \/ \E s \in Server : \/ \E a \in Id : Issue(s, a)
                       \/ \E k \in Key : Introduce(s, k) \/ Switch(s, k) \/ Retire(s, k)

Arrival ==
  \E r \in {x \in Request : request[x] = Idle}, s \in Server, t \in AtHand :
    \/ \E v \in CreateViews : ApproveCreate(r, s, v, t)
    \/ \E v \in PatchViews : ApprovePatch(r, s, v, t)
    \/ \E op \in {"get", "delete"}, i \in Id, q \in AtHand : ApproveArtifact(r, s, op, i, t, q)

Next == Environment \/ Arrival \/ (\E r \in Request : Create(r) \/ Serve(r) \/ Delete(r))

Spec == Init /\ [][Next]_vars

-----------------------------------------------------------------------------
(* Types.                                                                  *)

Token == [artifactId : Id, iat : Int, exp : Int, kid : Key, issuer : Issuer, at : Nat]

ASSUME TokenAssumption == Malformed \notin Token /\ Nobody \notin Token

\* Every variable has its type.
TypeOK ==
  /\ clock \in Nat
  /\ keys \in [Server -> SUBSET Key]
  /\ signer \in [Server -> Key]
  /\ tokens \subseteq Token
  /\ \A i \in Id : Known(i) => sidecar[i].kind \in Kind /\ sidecar[i].rel \in Id \cup {Absent}
  /\ \A r \in Request : request[r].session \in Id \cup {Nobody}

-----------------------------------------------------------------------------
(* Properties.                                                             *)

\* A request acts on the artifact it was approved for.  A create reserves exactly the
\* id and kind, and the relation if there was one, that authorize was told, however the
\* header orders its aliases and whatever it leaves blank; a header the core finds no id
\* in is refused by the naming function; a PATCH that goes to an upload the server made
\* goes to the one whose id was read from the URL (src/core.ts:126-131 and :199-206).
\* Not promised, for the code does not do it: a padded relation is stored though authorize
\* was told of none, and an upload id the server never made is approved as the artifact
\* in its second component and used as the path it is.
ActsOnTheApproved ==
  \A r \in Request :
    LET q == request[r]
    IN  /\ q.op = "create" /\ q.target # Refused =>
             /\ q.seen.id # Absent /\ q.target.id = q.seen.id /\ q.target.kind = q.seen.kind
             /\ q.seen.rel # Absent => q.target.rel = q.seen.rel
        /\ q.op = "patch" /\ q.target.at = "upload" => q.target.id = q.seen.id

\* Whoever created an artifact can go on with it: the session the creating token names
\* is the artifact or its stored relation, so later requests, which are judged by what
\* storage says, are not refused to the client that was allowed to create it.
CreatorKeepsAccess ==
  \A i \in Id : Known(i) => sidecar[i].by \in {i, sidecar[i].rel}

\* A token opens nothing after its lifetime, but for the tolerance and the error of the
\* two clocks it was issued and checked by.
AcceptedInTime == \A r \in Request : ~request[r].late

\* Until it expires, every process accepts a token at whatever its clock reads, through
\* any rotation of keys, if the tolerance covers the error of two clocks.
LiveTokenAccepted ==
  2 * Skew <= Tolerance =>
    \A t \in tokens, s \in Server, now \in Readings(clock) :
      clock <= t.at + Expiry => Accepts(t, now, keys[s])
=============================================================================
