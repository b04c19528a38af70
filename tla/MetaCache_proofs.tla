-------------------------- MODULE MetaCache_proofs --------------------------
(***************************************************************************)
(* What the operations of the metadata cache return, for any cache limit.  *)
(***************************************************************************)
EXTENDS MetaCache, SequenceTheorems, FiniteSetTheorems, TLAPS

\* Keys in the order they were set, each once.
Distinct(q) == \A m, n \in 1..Len(q) : q[m] = q[n] => m = n

\* Removing a key closes the gap it leaves.
LEMMA WithoutPlaces ==
  ASSUME NEW q \in Seq(Id), NEW i, NEW n \in 1..Len(q),
         n = CHOOSE m \in 1..Len(q) : q[m] = i, q[n] = i
  PROVE  /\ Without(q, i) \in Seq(Id)
         /\ Len(Without(q, i)) = Len(q) - 1
         /\ \A m \in 1..Len(q) - 1 :
              Without(q, i)[m] = IF m < n THEN q[m] ELSE q[m + 1]
<1> DEFINE left == SubSeq(q, 1, n - 1)
           right == SubSeq(q, n + 1, Len(q))
<1>1. /\ Len(q) \in Nat /\ n \in Nat /\ n >= 1 /\ n <= Len(q)
      /\ \A m \in 1..Len(q) : q[m] \in Id
  BY LenProperties, ElementOfSeq
<1>2. /\ left \in Seq(Id) /\ Len(left) = n - 1
      /\ \A m \in 1..n - 1 : left[m] = q[m]
  BY <1>1
<1>3. /\ right \in Seq(Id) /\ Len(right) = Len(q) - n
      /\ \A m \in 1..Len(q) - n : right[m] = q[n + m]
  BY <1>1
<1>4. Without(q, i) = left \o right
  BY DEF Without
<1> HIDE DEF left, right
<1>5. /\ left \o right \in Seq(Id)
      /\ Len(left \o right) = Len(left) + Len(right)
      /\ \A m \in 1 .. Len(left) + Len(right) :
           (left \o right)[m] = IF m <= Len(left) THEN left[m] ELSE right[m - Len(left)]
  BY <1>2, <1>3, ConcatProperties
<1>6. Len(left) + Len(right) = Len(q) - 1
  BY <1>1, <1>2, <1>3
<1>7. ASSUME NEW m \in 1..Len(q) - 1
      PROVE  Without(q, i)[m] = IF m < n THEN q[m] ELSE q[m + 1]
  <2>1. Without(q, i)[m] = IF m <= Len(left) THEN left[m] ELSE right[m - Len(left)]
    BY <1>4, <1>5, <1>6
  <2>2. CASE m < n
    <3>1. m \in 1..n - 1 /\ m <= Len(left)
      BY <1>1, <1>2, <2>2
    <3> QED BY <1>2, <2>1, <2>2, <3>1
  <2>3. CASE ~(m < n)
    <3>1. /\ ~(m <= Len(left)) /\ m - Len(left) \in 1..Len(q) - n
          /\ n + (m - Len(left)) = m + 1
      BY <1>1, <1>2, <2>3
    <3> QED BY <1>3, <2>1, <2>3, <3>1
  <2> QED BY <2>2, <2>3
<1> QED BY <1>4, <1>5, <1>6, <1>7

\* It leaves the other keys, each once, in a shorter order if the key was there.
LEMMA WithoutFacts ==
  ASSUME NEW q \in Seq(Id), Distinct(q), NEW i
  PROVE  /\ Without(q, i) \in Seq(Id) /\ Distinct(Without(q, i))
         /\ ~Has(Without(q, i), i)
         /\ \A j : j # i /\ Has(q, j) => Has(Without(q, i), j)
         /\ Len(Without(q, i)) <= Len(q)
<1> DEFINE w == Without(q, i)
<1>1. Len(q) \in Nat
  BY LenProperties
<1>2. CASE Has(q, i)
  <2> DEFINE n == CHOOSE m \in 1..Len(q) : q[m] = i
  <2>1. n \in 1..Len(q) /\ q[n] = i
    BY <1>2 DEF Has
  <2> HIDE DEF n
  <2>2. /\ w \in Seq(Id) /\ Len(w) = Len(q) - 1
        /\ \A m \in 1..Len(q) - 1 : w[m] = IF m < n THEN q[m] ELSE q[m + 1]
    BY <2>1, WithoutPlaces DEF n
  <2> HIDE DEF w
  <2>3. ASSUME NEW a \in 1..Len(w), NEW b \in 1..Len(w), w[a] = w[b]
        PROVE  a = b
    BY <1>1, <2>1, <2>2, <2>3 DEF Distinct
  <2>4. ASSUME NEW a \in 1..Len(w), w[a] = i
        PROVE  FALSE
    BY <1>1, <2>1, <2>2, <2>4 DEF Distinct
  <2>5. ASSUME NEW j, j # i, NEW a \in 1..Len(q), q[a] = j
        PROVE  Has(w, j)
    <3>1. CASE a < n
      <4>1. a \in 1..Len(w) /\ w[a] = j
        BY <1>1, <2>1, <2>2, <2>5, <3>1
      <4> QED BY <4>1 DEF Has
    <3>2. CASE a > n
      <4>1. a - 1 \in 1..Len(w) /\ w[a - 1] = j
        BY <1>1, <2>1, <2>2, <2>5, <3>2
      <4> QED BY <4>1 DEF Has
    <3> QED BY <1>1, <2>1, <2>5, <3>1, <3>2
  <2>6. w \in Seq(Id) /\ Len(w) <= Len(q)
    BY <1>1, <2>2
  <2>7. Distinct(w) /\ ~Has(w, i)
    BY <2>3, <2>4 DEF Has, Distinct
  <2>8. \A j : j # i /\ Has(q, j) => Has(w, j)
    BY <2>5 DEF Has
  <2> QED BY <2>6, <2>7, <2>8 DEF w
<1>3. CASE ~Has(q, i)
  BY <1>1, <1>3 DEF Without, Has
<1> QED BY <1>2, <1>3

\* A key that is set becomes the last.
LEMMA AppendFacts ==
  ASSUME NEW q \in Seq(Id), Distinct(q), NEW i \in Id, ~Has(q, i)
  PROVE  /\ Append(q, i) \in Seq(Id) /\ Distinct(Append(q, i))
         /\ Len(Append(q, i)) = Len(q) + 1
         /\ \A j : j = i \/ Has(q, j) => Has(Append(q, i), j)
<1>1. Len(q) \in Nat
  BY LenProperties
<1>2. /\ Append(q, i) \in Seq(Id) /\ Len(Append(q, i)) = Len(q) + 1
      /\ \A n \in 1..Len(q) : Append(q, i)[n] = q[n]
      /\ Append(q, i)[Len(q) + 1] = i
  BY AppendProperties
<1>3. \A n \in 1..Len(q) : q[n] # i
  BY DEF Has
<1>4. Distinct(Append(q, i))
  BY <1>1, <1>2, <1>3 DEF Distinct
<1>5. Len(q) + 1 \in 1..Len(Append(q, i)) /\ 1..Len(q) \subseteq 1..Len(Append(q, i))
  BY <1>1, <1>2
<1> QED BY <1>1, <1>2, <1>4, <1>5 DEF Has

\* Dropping the oldest key leaves the others.
LEMMA TailFacts ==
  ASSUME NEW q \in Seq(Id), Distinct(q), Len(q) > 0
  PROVE  /\ Tail(q) \in Seq(Id) /\ Distinct(Tail(q)) /\ Head(q) \in Id
         /\ Len(Tail(q)) = Len(q) - 1
         /\ \A j : j # Head(q) /\ Has(q, j) => Has(Tail(q), j)
<1>1. Len(q) \in Nat /\ q # <<>>
  BY LenProperties
<1>2. /\ Tail(q) \in Seq(Id) /\ Head(q) \in Id /\ Len(Tail(q)) = Len(q) - 1
      /\ \A n \in 1..Len(Tail(q)) : Tail(q)[n] = q[n + 1]
  BY <1>1, HeadTailProperties
<1>3. Head(q) = q[1]
  BY <1>1
<1>4. Distinct(Tail(q))
  BY <1>1, <1>2 DEF Distinct
<1>5. ASSUME NEW j, j # Head(q), NEW n \in 1..Len(q), q[n] = j
      PROVE  Has(Tail(q), j)
  <2>1. n - 1 \in 1..Len(Tail(q)) /\ Tail(q)[n - 1] = j
    BY <1>1, <1>2, <1>3, <1>5
  <2> QED BY <2>1 DEF Has
<1> QED BY <1>2, <1>4, <1>5 DEF Has

\* cacheSet keeps the cache a Map within its limit; every entry afterwards is the new
\* one, an old one, or evicted.
LEMMA CacheSetFacts ==
  ASSUME NEW k \in CacheType, NEW i \in Id, NEW e \in Parsed
  PROVE  /\ CacheSet(k, i, e) \in CacheType
         /\ \A j \in Id : \/ CacheSet(k, i, e).entry[j] \in {NoFile, k.entry[j]}
                          \/ j = i /\ CacheSet(k, i, e).entry[j] = e
<1> DEFINE order == Append(Without(k.order, i), i)
           entry == [k.entry EXCEPT ![i] = e]
<1>1. /\ k.order \in Seq(Id) /\ k.entry \in [Id -> Parsed] /\ Distinct(k.order)
      /\ Len(k.order) \in Nat /\ Len(k.order) <= CacheLimit
      /\ \A j \in Id : k.entry[j] # NoFile => Has(k.order, j)
  BY LenProperties DEF CacheType, IsMap, Distinct
<1> DEFINE others == Without(k.order, i)
<1>2. /\ others \in Seq(Id) /\ Distinct(others) /\ ~Has(others, i)
      /\ \A j : j # i /\ Has(k.order, j) => Has(others, j)
      /\ Len(others) <= Len(k.order)
  BY <1>1, WithoutFacts
<1> HIDE DEF others
<1>3. /\ order \in Seq(Id) /\ Distinct(order) /\ Len(order) = Len(others) + 1
      /\ \A j : j = i \/ Has(others, j) => Has(order, j)
  BY <1>2, AppendFacts DEF others
<1> HIDE DEF order
<1>4. Len(others) \in Nat /\ Len(order) \in Nat /\ Len(order) > 0 /\ Len(order) <= CacheLimit + 1
  BY <1>1, <1>2, <1>3, LenProperties, LimitAssumption
<1>5. /\ Tail(order) \in Seq(Id) /\ Distinct(Tail(order)) /\ Head(order) \in Id
      /\ Len(Tail(order)) = Len(order) - 1
      /\ \A j : j # Head(order) /\ Has(order, j) => Has(Tail(order), j)
  BY <1>3, <1>4, TailFacts
<1>6. /\ NoFile \in Parsed /\ entry \in [Id -> Parsed]
      /\ \A j \in Id : entry[j] = IF j = i THEN e ELSE k.entry[j]
  BY <1>1 DEF Parsed
<1>7. \A j \in Id : entry[j] # NoFile => Has(order, j)
  BY <1>1, <1>2, <1>3, <1>6
<1> HIDE DEF entry
<1> DEFINE kept == [entry EXCEPT ![Head(order)] = NoFile]
<1>8. /\ kept \in [Id -> Parsed]
      /\ \A j \in Id : kept[j] = IF j = Head(order) THEN NoFile ELSE entry[j]
  BY <1>5, <1>6
<1> HIDE DEF kept
<1>9. CacheSet(k, i, e) = IF Len(order) > CacheLimit
                          THEN [entry |-> kept, order |-> Tail(order)]
                          ELSE [entry |-> entry, order |-> order]
  BY DEF CacheSet, order, entry, kept
<1>10. CASE Len(order) > CacheLimit
  <2>1. Len(Tail(order)) <= CacheLimit
    BY <1>4, <1>5, LimitAssumption
  <2>2. [entry |-> kept, order |-> Tail(order)] \in CacheType
    BY <1>5, <1>7, <1>8, <2>1 DEF CacheType, IsMap, Distinct
  <2> QED BY <1>6, <1>8, <1>9, <1>10, <2>2
<1>11. CASE ~(Len(order) > CacheLimit)
  <2>1. Len(order) <= CacheLimit
    BY <1>4, <1>11, LimitAssumption
  <2>2. [entry |-> entry, order |-> order] \in CacheType
    BY <1>3, <1>6, <1>7, <2>1 DEF CacheType, IsMap, Distinct
  <2> QED BY <1>6, <1>9, <1>11, <2>2
<1> QED BY <1>10, <1>11

\* What was cached of the artifact before is gone.
LEMMA CacheSetReplaces ==
  ASSUME NEW k \in CacheType, NEW i \in Id, NEW e
  PROVE  CacheSet(k, i, e).entry[i] \in {NoFile, e}
BY DEF CacheSet, CacheType

LEMMA CacheDeleteFacts ==
  ASSUME NEW k \in CacheType, NEW i \in Id
  PROVE  /\ CacheDelete(k, i) \in CacheType
         /\ \A j \in Id : CacheDelete(k, i).entry[j] \in {NoFile, k.entry[j]}
<1> DEFINE entry == [k.entry EXCEPT ![i] = NoFile]
           order == Without(k.order, i)
<1>1. /\ k.order \in Seq(Id) /\ k.entry \in [Id -> Parsed] /\ Distinct(k.order)
      /\ Len(k.order) \in Nat /\ Len(k.order) <= CacheLimit
      /\ \A j \in Id : k.entry[j] # NoFile => Has(k.order, j)
  BY LenProperties DEF CacheType, IsMap, Distinct
<1>2. /\ order \in Seq(Id) /\ Distinct(order) /\ Len(order) <= Len(k.order)
      /\ \A j : j # i /\ Has(k.order, j) => Has(order, j)
  BY <1>1, WithoutFacts
<1> HIDE DEF order
<1>3. /\ entry \in [Id -> Parsed]
      /\ \A j \in Id : entry[j] = IF j = i THEN NoFile ELSE k.entry[j]
  BY <1>1 DEF Parsed
<1> HIDE DEF entry
<1>4. Len(order) <= CacheLimit
  BY <1>1, <1>2, LenProperties, LimitAssumption
<1>5. [entry |-> entry, order |-> order] \in CacheType
  BY <1>1, <1>2, <1>3, <1>4 DEF CacheType, IsMap, Distinct
<1>6. CacheDelete(k, i) = [entry |-> entry, order |-> order]
  BY DEF CacheDelete, entry, order
<1> QED BY <1>3, <1>5, <1>6

LEMMA EmptyCacheFacts ==
  EmptyCache \in CacheType /\ \A i \in Id : EmptyCache.entry[i] = NoFile
<1>1. NoFile \in Parsed /\ <<>> \in Seq(Id) /\ Len(<<>>) = 0
  BY DEF Parsed
<1> QED BY <1>1, LimitAssumption DEF EmptyCache, CacheType, IsMap

\* A cache caches no more artifacts than the limit allows: each is at its own place of an
\* order that is no longer than that.
LEMMA MapIsBounded ==
  ASSUME NEW k \in CacheType
  PROVE  Cardinality({i \in Id : k.entry[i] # NoFile}) <= CacheLimit
<1> DEFINE cached == {i \in Id : k.entry[i] # NoFile}
           n == Len(k.order)
           place == [i \in cached |-> CHOOSE m \in 1..n : k.order[m] = i]
<1>1. n \in Nat /\ n <= CacheLimit /\ \A i \in cached : Has(k.order, i)
  BY LenProperties DEF CacheType, IsMap
<1>2. \A i \in cached : place[i] \in 1..n /\ k.order[place[i]] = i
  BY <1>1 DEF Has
<1>3. place \in Injection(cached, 1..n)
  <2>1. place \in [cached -> 1..n]
    BY <1>2
  <2>2. \A i, j \in cached : place[i] = place[j] => i = j
    BY <1>2
  <2> QED BY <2>1, <2>2 DEF Injection, IsInjective
<1>4. IsFiniteSet(1..n) /\ Cardinality(1..n) = n
  BY <1>1, FS_Interval
<1>5. Cardinality(cached) <= n /\ IsFiniteSet(cached)
  BY <1>3, <1>4, FS_Injection
<1>6. Cardinality(cached) \in Nat
  BY <1>5, FS_CardinalityType
<1> HIDE DEF cached, n
<1>7. Cardinality(cached) <= CacheLimit
  BY <1>1, <1>5, <1>6, LimitAssumption
<1> QED BY <1>7 DEF cached

\* Caching an honest entry, or dropping one, keeps every entry honest.
LEMMA CacheSetIsHonest ==
  ASSUME NEW done, NEW k \in CacheType, NEW i \in Id, NEW e \in Parsed,
         \A j \in Id : Honest(j, k.entry[j], done), Honest(i, e, done)
  PROVE  /\ CacheSet(k, i, e) \in CacheType
         /\ \A j \in Id : Honest(j, CacheSet(k, i, e).entry[j], done)
<1>1. \A j \in Id : Honest(j, NoFile, done)
  BY DEF Honest, NoFile, File
<1>2. \A j \in Id : Honest(j, CacheSet(k, i, e).entry[j], done)
  BY <1>1, CacheSetFacts
<1> QED BY <1>2, CacheSetFacts

LEMMA CacheDeleteIsHonest ==
  ASSUME NEW done, NEW k \in CacheType, NEW i \in Id,
         \A j \in Id : Honest(j, k.entry[j], done)
  PROVE  /\ CacheDelete(k, i) \in CacheType
         /\ \A j \in Id : Honest(j, CacheDelete(k, i).entry[j], done)
BY CacheDeleteFacts DEF Honest, NoFile, File
=============================================================================
