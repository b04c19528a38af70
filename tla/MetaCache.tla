----------------------------- MODULE MetaCache -----------------------------
(***************************************************************************)
(* What both storage adapters keep of an artifact, and the in-memory cache *)
(* (metaCache) each keeps it in: a Map in insertion order whose size       *)
(* cacheSet bounds by dropping the oldest key.                             *)
(***************************************************************************)
EXTENDS Naturals, Sequences, FiniteSets

CONSTANTS
  Id,           \* artifactIds
  Meta,         \* what one create request says of its upload
  Proc,         \* server processes on one workspace directory or bucket
  Call,         \* slots for adapter calls in flight
  procOf,       \* the process each slot belongs to
  CacheLimit,   \* metaCacheLimit
  Null

ASSUME ProcAssumption == procOf \in [Call -> Proc]
ASSUME LimitAssumption == CacheLimit \in Nat
ASSUME NullAssumption == Null \notin Id \cup Meta

VARIABLE cache   \* metaCache of each process: its entries and their order

\* A sidecar or a cache entry: the state of an upload and its metadata.
File(s, m) == [state |-> s, meta |-> m]
NoFile == File("none", Null)
Parsed == {NoFile} \cup [state : {"uploading", "ready"}, meta : Meta]

\* (Mistake: a reservation without a status, which reads as ready.)
ContentWithoutStatus(r) == File("ready", r.meta)

\* What a call writes: a reservation, or the sidecar it read, now ready.
Content(r) == File(IF r.op = "reserve" THEN "uploading" ELSE "ready", r.meta)

-----------------------------------------------------------------------------

EmptyCache == [entry |-> [i \in Id |-> NoFile], order |-> <<>>]

Without(order, i) ==
  IF \E n \in 1..Len(order) : order[n] = i
  THEN LET n == CHOOSE n \in 1..Len(order) : order[n] = i
       IN  SubSeq(order, 1, n - 1) \o SubSeq(order, n + 1, Len(order))
  ELSE order

CacheDelete(k, i) ==
  [entry |-> [k.entry EXCEPT ![i] = NoFile], order |-> Without(k.order, i)]

\* cacheSet: the key moves to the end, then the oldest is dropped if too many.
CacheSet(k, i, e) ==
  LET order == Append(Without(k.order, i), i)
      entry == [k.entry EXCEPT ![i] = e]
  IN  IF Len(order) > CacheLimit
      THEN [entry |-> [entry EXCEPT ![Head(order)] = NoFile],
            order |-> Tail(order)]
      ELSE [entry |-> entry, order |-> order]

\* The cache of a call's process.
Cached(c, i) == cache[procOf[c]].entry[i]
SetCache(c, k) == cache' = [cache EXCEPT ![procOf[c]] = k]

-----------------------------------------------------------------------------

\* A Map of at most CacheLimit keys: every key that has an entry is in the order, once.
Has(order, i) == \E n \in 1..Len(order) : order[n] = i
IsMap(k) ==
  /\ Len(k.order) <= CacheLimit
  /\ \A m, n \in 1..Len(k.order) : k.order[m] = k.order[n] => m = n
  /\ \A i \in Id : k.entry[i] # NoFile => Has(k.order, i)
CacheType == {k \in [entry : [Id -> Parsed], order : Seq(Id)] : IsMap(k)}

\* However long a process runs, it caches no more artifacts than the limit allows.
CachesStayBounded ==
  \A p \in Proc : Cardinality({i \in Id : cache[p].entry[i] # NoFile}) <= CacheLimit

\* A file or a cache entry of artifact i whose "ready" is not made up, if done
\* are the ids markReady was called for.
Honest(i, f, done) == f.state = "ready" => i \in done
=============================================================================
