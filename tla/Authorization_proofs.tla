------------------------- MODULE Authorization_proofs -------------------------
(***************************************************************************)
(* The two readings of a header agree, whatever the client sends, and of a *)
(* URL, if the upload in it is one the server made; so requests act on     *)
(* what they were approved for, and tokens live as long as they should     *)
(* through any rotation of keys, for every number of processes, keys,      *)
(* tokens and requests.                                                    *)
(***************************************************************************)
EXTENDS Authorization, TLAPS

\* In a header without a key twice, the first, the last and the only value of a key are
\* the same.
LEMMA OneValue ==
  ASSUME NEW h \in Seq(Pairs), WellFormed(h), NEW k
  PROVE  /\ Earliest(h, Given(h, k)) = ValueOf(h, k)
         /\ Latest(h, Given(h, k)) = ValueOf(h, k)
<1>1. CASE \E n \in 1..Len(h) : h[n].key = k
  <2>1. PICK n \in 1..Len(h) : h[n].key = k
    BY <1>1
  <2>2. ValueOf(h, k) = h[n].value
    BY <2>1 DEF ValueOf, WellFormed
  <2>3. CASE h[n].value = Absent
    <3>1. Given(h, k) = {}
      BY <2>1, <2>3 DEF Given, WellFormed
    <3> QED
      BY <2>2, <2>3, <3>1 DEF Earliest, Latest
  <2>4. CASE h[n].value # Absent
    <3>1. Given(h, k) = {n}
      BY <2>1, <2>4 DEF Given, WellFormed
    <3> QED
      BY <2>2, <3>1 DEF Earliest, Latest
  <2> QED
    BY <2>3, <2>4
<1>2. CASE ~\E n \in 1..Len(h) : h[n].key = k
  <2>1. Given(h, k) = {}
    BY <1>2 DEF Given
  <2> QED
    BY <1>2, <2>1 DEF ValueOf, Earliest, Latest
<1> QED
  BY <1>1, <1>2

\* What the core and the naming function make of a header that is not refused.
LEMMA ReadingsAgree ==
  ASSUME NEW h \in Seq(Pairs), Named(h) # Refused
  PROVE  /\ Named(h).id \in Id /\ Named(h).id = Seen(h).id /\ Seen(h).id # Absent
         /\ Named(h).kind \in Kind /\ Named(h).kind = Seen(h).kind
         /\ Named(h).rel \in Id \cup {Absent}
         /\ Seen(h).rel # Absent => Named(h).rel = Seen(h).rel
<1> DEFINE rel == Trim(ValueOf(h, "relatedTo"))
           id == Trim(FirstGiven(ValueOf(h, "artifactId"), ValueOf(h, "videoid"),
                                 ValueOf(h, "projectid")))
<1>1. /\ WellFormed(h) /\ IsUuid(id)
      /\ Named(h).id = id.word
      /\ Named(h).kind = ParseKind(ValueOf(h, "kind"))
      /\ Named(h).rel = IF IsUuid(rel) THEN rel.word ELSE Absent
  BY DEF Named, NamedWith
<1>2. Seen(h).id = Named(h).id /\ Named(h).id \in Id /\ Named(h).id # Absent
  BY <1>1, OneValue, WordAssumption DEF Seen, SeenId, IsUuid
<1>3. Seen(h).kind = Named(h).kind /\ Named(h).kind \in Kind
  BY <1>1, OneValue, KindAssumption DEF Seen, ParseKind
<1>4. Named(h).rel \in Id \cup {Absent}
  BY <1>1 DEF IsUuid
<1>5. ASSUME Seen(h).rel # Absent PROVE Named(h).rel = Seen(h).rel
  <2> DEFINE N == {n \in Given(h, "relatedTo") : IsUuid(h[n].value)}
  <2>1. N # {} /\ Seen(h).rel = Earliest(h, N).word
    BY <1>5 DEF Seen, SeenRelation, Earliest
  <2>2. PICK n \in N : TRUE
    BY <2>1
  <2>3. N = {n} /\ ValueOf(h, "relatedTo") = h[n].value
    BY <1>1, <2>2 DEF Given, WellFormed, ValueOf
  <2>4. Earliest(h, {n}) = h[n].value
    BY <2>2 DEF Earliest, Given
  <2>5. h[n].value \in [word : Word, padded : BOOLEAN] /\ IsUuid(h[n].value)
    <3>1. n \in 1..Len(h) /\ h[n].value # Absent /\ IsUuid(h[n].value)
      BY <2>2 DEF Given
    <3>2. h[n] \in Pairs
      BY <3>1
    <3> QED
      BY <3>1, <3>2 DEF Pairs
  <2>6. IsUuid(rel) /\ rel.word = h[n].value.word
    BY <2>3, <2>5, WordAssumption DEF Trim, IsUuid, Text
  <2> QED
    BY <1>1, <2>1, <2>3, <2>4, <2>6
<1> QED
  BY <1>2, <1>3, <1>4, <1>5

\* The upload @tus/server finds in a URL, if the server made it, is the one the core
\* asked about.
LEMMA TargetsAgree ==
  ASSUME NEW u \in Seq(Segments), SeenTarget(u) # Absent, TusTarget(u).at = "upload"
  PROVE  TusTarget(u).id = SeenTarget(u)
<1> DEFINE ends == {n \in 1..Len(u) : u[n] # Empty
                      /\ (n = Len(u) \/ (n = Len(u) - 1 /\ u[Len(u)] = Empty))}
<1>1. CASE Len(u) > 1 /\ u[Len(u)] = Empty
  <2> DEFINE w == SubSeq(u, 1, Len(u) - 1)
  <2>1. Len(u) \in Nat /\ Len(w) = Len(u) - 1 /\ w[Len(u) - 1] = u[Len(u) - 1]
    BY <1>1
  <2>2. /\ u[Len(u) - 1].at \in {"upload", "foreign"}
        /\ SeenTarget(u) = u[Len(u) - 1].id
    BY <1>1, <2>1 DEF SeenTarget, ArtifactOf
  <2> HIDE DEF w
  <2>3. ends = {Len(u) - 1}
    BY <1>1, <2>2 DEF Empty
  <2>4. TusTarget(u) = u[Len(u) - 1]
    BY <2>3 DEF TusTarget
  <2> QED
    BY <2>2, <2>4
<1>2. CASE ~(Len(u) > 1 /\ u[Len(u)] = Empty)
  <2>1. /\ u # <<>> /\ u[Len(u)].at \in {"upload", "foreign"}
        /\ SeenTarget(u) = u[Len(u)].id
    BY <1>2 DEF SeenTarget, ArtifactOf
  <2>2. Len(u) \in 1..Len(u)
    BY <2>1
  <2>3. ends = {Len(u)}
    BY <2>1, <2>2 DEF Empty
  <2>4. TusTarget(u) = u[Len(u)]
    BY <2>3 DEF TusTarget
  <2> QED
    BY <2>1, <2>4
<1> QED
  BY <1>1, <1>2

-----------------------------------------------------------------------------
\* Which of a token's claims follow from its issuing, and which process knows its key.
TokenInv ==
  /\ clock \in Nat
  /\ keys \in [Server -> SUBSET Key] /\ signer \in [Server -> Key]
  /\ tokens \subseteq Token
  /\ \A p, s \in Server : signer[p] \in keys[s]
  /\ \A t \in tokens :
       /\ t.iat \in Readings(t.at) /\ t.exp = t.iat + Expiry /\ t.issuer = issuer
       /\ t.at <= clock
       /\ \A s \in Server : clock <= t.at + Expiry => t.kid \in keys[s]

\* Of requests in flight, and of what is stored: what was approved holds of what is done.
Approved(q) ==
  /\ q.session \in Id \cup {Nobody} /\ ~q.late
  /\ q.op = "create" /\ q.target # Refused =>
       /\ q.target.id \in Id /\ q.target.kind \in Kind /\ q.target.rel \in Id \cup {Absent}
       /\ q.seen.id # Absent /\ q.target.id = q.seen.id /\ q.target.kind = q.seen.kind
       /\ q.seen.rel # Absent => q.target.rel = q.seen.rel
       /\ q.session \in {q.target.id, q.target.rel}
  /\ q.op = "patch" /\ q.target.at = "upload" => q.target.id = q.seen.id
RequestInv ==
  /\ DOMAIN request = Request /\ DOMAIN sidecar = Id
  /\ \A r \in Request : Approved(request[r])
  /\ \A i \in Id : Known(i) =>
       /\ sidecar[i].kind \in Kind /\ sidecar[i].rel \in Id \cup {Absent}
       /\ sidecar[i].by \in {i, sidecar[i].rel}

\* Keys are introduced everywhere before any process signs with them, and retired only
\* when no live token needs them.
LEMMA TokenInvariant == Spec => []TokenInv
<1>1. Init => TokenInv
  BY KeyAssumption DEF Init, TokenInv
<1>2. TokenInv /\ [Next]_vars => TokenInv'
  <2> SUFFICES ASSUME TokenInv, [Next]_vars PROVE TokenInv'
    OBVIOUS
  <2>1. CASE Tick
    <3>1. clock' = clock + 1 /\ UNCHANGED <<keys, signer, tokens>>
      BY <2>1 DEF Tick
    <3>2. \A t \in tokens : t.at \in Nat /\ t.at + Expiry \in Nat
      BY LifetimeAssumption DEF TokenInv, Token
    <3>3. \A t \in tokens :
            t.at <= clock' /\ (clock' <= t.at + Expiry => clock <= t.at + Expiry)
      BY <3>1, <3>2 DEF TokenInv
    <3> QED
      BY <3>1, <3>3 DEF TokenInv
  <2>2. ASSUME NEW s \in Server, NEW a \in Id, Issue(s, a) PROVE TokenInv'
    <3>1. PICK now \in Readings(clock) : tokens' = tokens \cup {Issued(a, signer[s], now, clock)}
      BY <2>2 DEF Issue
    <3> DEFINE t == Issued(a, signer[s], now, clock)
    <3>2. t \in Token /\ t.iat \in Readings(t.at) /\ t.exp = t.iat + Expiry
          /\ t.issuer = issuer /\ t.at = clock /\ t.kid = signer[s]
      BY LifetimeAssumption DEF TokenInv, Token, Issued, Readings
    <3> QED
      BY <2>2, <3>1, <3>2 DEF Issue, TokenInv
  <2>3. ASSUME NEW s \in Server, NEW k \in Key, Introduce(s, k) PROVE TokenInv'
    BY <2>3 DEF Introduce, TokenInv
  <2>4. ASSUME NEW s \in Server, NEW k \in Key, Switch(s, k) PROVE TokenInv'
    BY <2>4 DEF Switch, TokenInv
  <2>5. ASSUME NEW s \in Server, NEW k \in Key, Retire(s, k) PROVE TokenInv'
    <3>1. \A t \in tokens, p \in Server : clock <= t.at + Expiry => t.kid \in keys'[p]
      BY <2>5, LifetimeAssumption DEF Retire, TokenInv, Token
    <3> QED
      BY <2>5, <3>1 DEF Retire, TokenInv
  <2>6. CASE UNCHANGED <<clock, keys, signer, tokens>>
    BY <2>6 DEF TokenInv
  <2> QED
    <3>1. Arrival => UNCHANGED <<clock, keys, signer, tokens>>
      <4>1. \A r, s, v, t : ApproveCreate(r, s, v, t) => UNCHANGED <<clock, keys, signer, tokens>>
        BY DEF ApproveCreate, Approve
      <4>2. \A r, s, v, t : ApprovePatch(r, s, v, t) => UNCHANGED <<clock, keys, signer, tokens>>
        BY DEF ApprovePatch, Approve
      <4>3. \A r, s, op, i, t, q :
              ApproveArtifact(r, s, op, i, t, q) => UNCHANGED <<clock, keys, signer, tokens>>
        BY DEF ApproveArtifact, Approve
      <4> QED
        BY <4>1, <4>2, <4>3 DEF Arrival
    <3>2. CASE Environment
      BY <2>1, <2>2, <2>3, <2>4, <2>5, <3>2 DEF Environment
    <3>3. (\E r \in Request : Create(r) \/ Serve(r) \/ Delete(r)) \/ UNCHANGED vars
            => UNCHANGED <<clock, keys, signer, tokens>>
      BY DEF Create, Serve, Delete, vars
    <3> QED
      BY <2>6, <3>1, <3>2, <3>3 DEF Next
<1> QED
  BY <1>1, <1>2, PTL DEF Spec

\* A token that opened something is one of this deployment's, named the artifact or its
\* relation, and was within its lifetime.
LEMMA Opened ==
  ASSUME TokenInv, NEW s \in Server, NEW t \in AtHand, NEW id, NEW rel, Asks(s, t, id, rel)
  PROVE  /\ t # Nobody /\ t.artifactId \in Id /\ t.artifactId \in {id, rel}
         /\ ~(clock > t.at + Expiry + Tolerance + 2 * Skew)
<1>1. PICK now \in Readings(clock) : Authorizes(t, now, keys[s], id, rel)
  BY DEF Asks
<1>2. t # Nobody /\ Accepts(t, now, keys[s]) /\ t.artifactId \in {id, rel}
  BY <1>1 DEF Authorizes, Verified
<1>3. PICK u \in tokens, x \in Issuer : t = [u EXCEPT !.issuer = x]
  BY <1>2 DEF AtHand, Accepts
<1>4. u \in Token /\ u.iat \in Readings(u.at) /\ u.exp = u.iat + Expiry
  BY DEF TokenInv
<1>5. t.artifactId = u.artifactId /\ t.at = u.at /\ t.exp = u.exp
  BY <1>3, <1>4 DEF Token
<1> QED
  BY <1>2, <1>4, <1>5, LifetimeAssumption DEF TokenInv, Token, Accepts, Readings

\* What is approved is fit to be carried out.
LEMMA ApprovalIsKept ==
  ASSUME RequestInv, NEW r \in Request, NEW q, request' = [request EXCEPT ![r] = q],
         Approved(q), UNCHANGED sidecar
  PROVE  RequestInv'
BY DEF RequestInv, Approved, Known

\* Every request in flight is approved for what it will act on, and every stored artifact
\* is open to whoever created it.
LEMMA RequestInvariant == Spec => []RequestInv
<1>1. Init => RequestInv
  BY DEF Init, RequestInv, Approved, Idle, Refused, Known
<1>2. TokenInv /\ RequestInv /\ [Next]_vars => RequestInv'
  <2> SUFFICES ASSUME TokenInv, RequestInv, [Next]_vars PROVE RequestInv'
    OBVIOUS
  <2> USE DEF Approve
  <2>1. ASSUME NEW r \in Request, NEW s \in Server, NEW t \in AtHand, NEW v \in CreateViews,
               ApproveCreate(r, s, v, t)
        PROVE  RequestInv'
    <3>1. PICK h \in Header : v.seen = Seen(h) /\ v.target = Named(h)
      BY DEF CreateViews
    <3>2. h \in Seq(Pairs)
      BY InputAssumption
    <3>3. CASE Seen(h).id = Absent
      <4>1. Named(h) = Refused
        BY <3>2, <3>3, ReadingsAgree
      <4> QED
        <5>1. Approved([op |-> "create", seen |-> v.seen, target |-> v.target,
                        session |-> Nobody, late |-> FALSE])
          BY <3>1, <4>1 DEF Approved
        <5>2. request' = [request EXCEPT ![r] =
                [op |-> "create", seen |-> v.seen, target |-> v.target,
                 session |-> Nobody, late |-> FALSE]] /\ UNCHANGED sidecar
          BY <2>1, <3>1, <3>3 DEF ApproveCreate
        <5> QED
          BY <5>1, <5>2, ApprovalIsKept
    <3>4. CASE Seen(h).id # Absent
      <4>1. /\ t # Nobody /\ t.artifactId \in Id /\ t.artifactId \in {Seen(h).id, Seen(h).rel}
            /\ ~(clock > t.at + Expiry + Tolerance + 2 * Skew)
        BY <2>1, <3>1, <3>4, Opened DEF ApproveCreate
      <4>2. Named(h) # Refused => t.artifactId \in {Named(h).id, Named(h).rel}
        BY <3>2, <4>1, ReadingsAgree, WordAssumption
      <4>3. Approved([op |-> "create", seen |-> Seen(h), target |-> Named(h),
                      session |-> t.artifactId, late |-> FALSE])
        BY <3>2, <4>1, <4>2, ReadingsAgree DEF Approved
      <4> QED
        BY <2>1, <3>1, <3>4, <4>1, <4>3, ApprovalIsKept DEF ApproveCreate
    <3> QED
      BY <3>3, <3>4
  <2>2. ASSUME NEW r \in Request, NEW s \in Server, NEW t \in AtHand, NEW v \in PatchViews,
               ApprovePatch(r, s, v, t)
        PROVE  RequestInv'
    <3>1. PICK u \in Url : v.seen = SeenTarget(u) /\ v.target = TusTarget(u)
      BY DEF PatchViews
    <3>2. /\ t # Nobody /\ t.artifactId \in Id
          /\ ~(clock > t.at + Expiry + Tolerance + 2 * Skew)
      BY <2>2, Opened DEF ApprovePatch
    <3>3. v.target.at = "upload" => v.target.id = The(v.seen).id
      BY <2>2, <3>1, InputAssumption, TargetsAgree DEF ApprovePatch, The, Unseen
    <3>4. Approved([op |-> "patch", seen |-> The(v.seen), target |-> v.target,
                    session |-> t.artifactId, late |-> FALSE])
      BY <3>2, <3>3 DEF Approved
    <3> QED
      BY <2>2, <3>2, <3>4, ApprovalIsKept DEF ApprovePatch
  <2>3. ASSUME NEW r \in Request, NEW s \in Server, NEW op \in {"get", "delete"}, NEW i \in Id,
               NEW t \in AtHand, NEW p \in AtHand, ApproveArtifact(r, s, op, i, t, p)
        PROVE  RequestInv'
    <3> DEFINE u == Presented(t, IF op = "get" THEN p ELSE Nobody)
    <3>1. u \in AtHand
      BY DEF Presented, AtHand
    <3>2. /\ u # Nobody /\ u.artifactId \in Id
          /\ ~(clock > u.at + Expiry + Tolerance + 2 * Skew)
      BY <2>3, <3>1, Opened DEF ApproveArtifact
    <3>3. Approved([op |-> op, seen |-> The(i), target |-> The(i),
                    session |-> u.artifactId, late |-> FALSE])
      BY <3>2 DEF Approved
    <3> QED
      BY <2>3, <3>2, <3>3, ApprovalIsKept DEF ApproveArtifact
  <2>4. ASSUME NEW r \in Request, Create(r) \/ Serve(r) \/ Delete(r) PROVE RequestInv'
    <3>1. DOMAIN request' = Request /\ \A p \in Request : Approved(request'[p])
      BY <2>4 DEF Create, Serve, Delete, Answered, RequestInv, Approved, Idle, Refused
    <3>2. CASE sidecar' = sidecar
      BY <3>1, <3>2 DEF RequestInv, Known
    <3>3. CASE Delete(r)
      BY <3>1, <3>3 DEF RequestInv, Known, Delete
    <3>4. CASE Create(r) /\ sidecar' # sidecar
      <4>1. Approved(request[r])
        BY DEF RequestInv
      <4> QED
        BY <3>1, <3>4, <4>1 DEF RequestInv, Known, Create, Approved
    <3> QED
      BY <2>4, <3>2, <3>3, <3>4 DEF Serve
  <2>5. CASE UNCHANGED <<request, sidecar>>
    BY <2>5 DEF RequestInv, Known
  <2> QED
    <3>1. Environment \/ UNCHANGED vars => UNCHANGED <<request, sidecar>>
      BY DEF Environment, Tick, Issue, Introduce, Switch, Retire, vars
    <3>2. CASE Arrival
      BY <2>1, <2>2, <2>3, <3>2 DEF Arrival
    <3> QED
      BY <2>4, <2>5, <3>1, <3>2 DEF Next
<1> QED
  BY <1>1, <1>2, TokenInvariant, PTL DEF Spec

-----------------------------------------------------------------------------
\* Every variable always has its type.
THEOREM TypeCorrect == Spec => []TypeOK
<1>1. TokenInv /\ RequestInv => TypeOK
  BY DEF TokenInv, RequestInv, Approved, TypeOK
<1> QED
  BY <1>1, TokenInvariant, RequestInvariant, PTL

\* Whatever header a client sends, the tus server reserves the artifact, of the kind and
\* under the relation, that authorize was told; and from a URL of any shape, if it names
\* an upload the server made, the server takes the one authorize was asked about.
THEOREM ActsOnTheApprovedHolds == Spec => []ActsOnTheApproved
<1>1. RequestInv => ActsOnTheApproved
  BY DEF RequestInv, Approved, ActsOnTheApproved
<1> QED
  BY <1>1, RequestInvariant, PTL

\* A stored artifact is always open to the session that created it.
THEOREM CreatorKeepsAccessHolds == Spec => []CreatorKeepsAccess
<1>1. RequestInv => CreatorKeepsAccess
  BY DEF RequestInv, CreatorKeepsAccess
<1> QED
  BY <1>1, RequestInvariant, PTL

\* No token opens anything once its lifetime is over by more than the tolerance and the
\* error of two clocks.
THEOREM AcceptedInTimeHolds == Spec => []AcceptedInTime
<1>1. RequestInv => AcceptedInTime
  BY DEF RequestInv, Approved, AcceptedInTime
<1> QED
  BY <1>1, RequestInvariant, PTL

\* Through any rotation of keys, a live token is accepted by every process at every
\* reading of its clock, if the tolerance covers the error of two clocks.
THEOREM LiveTokenAcceptedHolds == Spec => []LiveTokenAccepted
<1>1. ASSUME TokenInv, 2 * Skew <= Tolerance, NEW t \in tokens, NEW s \in Server,
             NEW now \in Readings(clock), clock <= t.at + Expiry
      PROVE  Accepts(t, now, keys[s])
  <2>1. t \in Token /\ t # Malformed
    BY <1>1, TokenAssumption DEF TokenInv
  <2>2. t.iat <= now + Tolerance /\ t.exp >= now - Tolerance
    BY <1>1, <2>1, LifetimeAssumption DEF TokenInv, Token, Readings
  <2> QED
    BY <1>1, <2>1, <2>2 DEF TokenInv, Accepts
<1>2. TokenInv => LiveTokenAccepted
  BY <1>1 DEF LiveTokenAccepted
<1> QED
  BY <1>2, TokenInvariant, PTL
===============================================================================
