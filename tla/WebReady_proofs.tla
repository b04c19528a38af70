---------------------------- MODULE WebReady_proofs ----------------------------
(***************************************************************************)
(* Theorems about WebReady.  First, that scanMoovPosition's walk finds what*)
(* the layout says, for every sequence of boxes and every length: the walk *)
(* is a recursive function, so its existence and its invariant are proved  *)
(* by induction, from the library's theorem that finite sets are well      *)
(* founded.  Then, for every number of artifacts, uploads and concurrent   *)
(* ensureWebReady jobs, and every set of file layouts, that what is served *)
(* is whole, its own upload's, and never less web-ready than before.       *)
(***************************************************************************)
EXTENDS WebReady, FiniteSetTheorems, TLAPS

-----------------------------------------------------------------------------
(* Induction and recursion up to a number.                                 *)

\* Every set of natural numbers but the empty one has a least element.
LEMMA LeastNumber ==
  ASSUME NEW T \in SUBSET Nat, T # {}
  PROVE  \E x \in T : \A y \in T : x <= y
<1> DEFINE U == {0..n - 1 : n \in T}
<1>1. ASSUME NEW n \in Nat PROVE IsFiniteSet(0..n - 1) /\ 0..n - 1 \subseteq Nat
  <2>1. n - 1 \in Int
    OBVIOUS
  <2>2. IsFiniteSet(0..n - 1)
    BY <2>1, FS_Interval
  <2>3. 0..n - 1 \subseteq Nat
    OBVIOUS
  <2> QED BY <2>2, <2>3
<1>2. U \subseteq FiniteSubsetsOf(Nat) /\ U # {}
  BY <1>1 DEF FiniteSubsetsOf
<1>3. PICK s \in U : \A t \in U : ~ (<<t, s>> \in StrictSubsetOrdering(Nat))
  <2>1. IsWellFoundedOn(StrictSubsetOrdering(Nat), FiniteSubsetsOf(Nat))
    BY FS_StrictSubsetOrderingWellFounded
  <2> HIDE DEF U
  <2> QED BY <1>2, <2>1, WFMin
<1>4. PICK x \in T : s = 0..x - 1
  BY <1>3
<1>5. ASSUME NEW y \in T, y < x PROVE FALSE
  <2>1. 0..y - 1 \subseteq 0..x - 1 /\ y \in 0..x - 1 /\ y \notin 0..y - 1
    BY <1>5
  <2>2. ~ (0..y - 1 \subseteq 0..x - 1 /\ 0..y - 1 # 0..x - 1)
    BY <1>1, <1>3, <1>4 DEF StrictSubsetOrdering
  <2> QED BY <2>1, <2>2
<1> QED BY <1>5

\* Induction up to N: a set with 0 and with the successor of each of its elements below
\* N has every number up to N.
LEMMA InductionUpTo ==
  ASSUME NEW N \in Nat, NEW S, 0 \in S,
         \A n \in 0..N - 1 : n \in S => n + 1 \in S
  PROVE  0..N \subseteq S
<1> SUFFICES ASSUME NEW m \in 0..N, m \notin S PROVE FALSE
  OBVIOUS
<1> DEFINE T == {n \in 0..N : n \notin S}
<1>1. PICK x \in T : \A y \in T : x <= y
  <2>1. T \in SUBSET Nat /\ m \in T
    OBVIOUS
  <2> HIDE DEF T
  <2> QED BY <2>1, LeastNumber
<1>2. x # 0 /\ x - 1 \in 0..N - 1 /\ x - 1 \notin T
  BY <1>1
<1>3. (x - 1) + 1 = x /\ x \notin S /\ x - 1 \in S
  BY <1>1, <1>2
<1> QED BY <1>2, <1>3

\* Primitive recursion: w starts at a and goes on by step.
Recurs(w, N, V, a, step) ==
  w \in [0..N -> V] /\ w[0] = a /\ \A n \in 1..N : w[n] = step[n][w[n - 1]]

\* There is such a function, whatever a and step are.
LEMMA RecursionExists ==
  ASSUME NEW N \in Nat, NEW V, NEW a \in V, NEW step \in [1..N -> [V -> V]]
  PROVE  \E w : Recurs(w, N, V, a, step)
<1> DEFINE Partial(k, w) == w[0] = a /\ \A n \in 1..k : w[n] = step[n][w[n - 1]]
           S == {k \in 0..N : \E w \in [0..k -> V] : Partial(k, w)}
<1>1. 0 \in S
  <2> DEFINE w == [n \in 0..0 |-> a]
  <2>1. w \in [0..0 -> V] /\ Partial(0, w)
    OBVIOUS
  <2>2. \E u \in [0..0 -> V] : Partial(0, u)
    <3> HIDE DEF w, Partial
    <3> QED BY <2>1
  <2> QED BY <2>2
<1>2. ASSUME NEW k \in 0..N - 1, k \in S PROVE k + 1 \in S
  <2>1. PICK w \in [0..k -> V] : Partial(k, w)
    BY <1>2
  <2> DEFINE v == [n \in 0..k + 1 |-> IF n = k + 1 THEN step[k + 1][w[k]] ELSE w[n]]
  <2>2. v \in [0..k + 1 -> V]
    OBVIOUS
  <2>3. Partial(k + 1, v)
    <3>1. v[0] = a
      BY <2>1
    <3>2. ASSUME NEW n \in 1..k + 1 PROVE v[n] = step[n][v[n - 1]]
      <4>1. CASE n = k + 1
        <5>1. v[n] = step[k + 1][w[k]] /\ n - 1 = k /\ v[k] = w[k]
          BY <4>1
        <5> QED BY <4>1, <5>1
      <4>2. CASE n \in 1..k
        <5>1. v[n] = w[n] /\ v[n - 1] = w[n - 1]
          BY <4>2
        <5> QED BY <2>1, <4>2, <5>1
      <4> QED BY <4>1, <4>2
    <3> QED BY <3>1, <3>2
  <2>4. \E u \in [0..k + 1 -> V] : Partial(k + 1, u)
    <3> HIDE DEF v, Partial
    <3> QED BY <2>2, <2>3
  <2>5. k + 1 \in 0..N
    OBVIOUS
  <2> QED BY <2>4, <2>5
<1>3. N \in S
  <2> HIDE DEF S
  <2>1. 0..N \subseteq S
    BY <1>1, <1>2, InductionUpTo
  <2> QED BY <2>1
<1> QED BY <1>3 DEF Recurs

-----------------------------------------------------------------------------
(* The walk over the boxes of a file.                                      *)

\* The state of scanMoovPosition's loop after each box, and where each box ends.
Walk == [room : Nat, sawMdat : BOOLEAN, found : {"none", "front", "end", "unknown"}]
IsWalk(f, walk) ==
  /\ walk \in [0..Len(f.boxes) -> Walk]
  /\ walk[0] = [room |-> f.size, sawMdat |-> FALSE, found |-> "none"]
  /\ \A n \in 1..Len(f.boxes) : walk[n] = Turn(f, walk[n - 1], n)
  /\ Scan(f) = IF walk[Len(f.boxes)].found = "none" THEN "unknown"
               ELSE walk[Len(f.boxes)].found
IsEnd(f, end) ==
  /\ end \in [0..Len(f.boxes) -> Nat]
  /\ end[0] = 0
  /\ \A n \in 1..Len(f.boxes) : end[n] = end[n - 1] + f.boxes[n].size
  /\ Reachable(f) = {n \in 1..Len(f.boxes) :
         /\ end[n - 1] + HeaderSize(f.boxes[n]) <= f.size
         /\ f.boxes[n].enc = "rest" \/ Sized(f.boxes[n])
         /\ \A k \in 1..n - 1 : Sized(f.boxes[k])}

\* The parts of a layout have their types.
LEMMA LayoutFacts ==
  ASSUME NEW f \in Layout
  PROVE  /\ Len(f.boxes) \in Nat /\ f.size \in Nat
         /\ \A n \in 1..Len(f.boxes) :
              /\ f.boxes[n].size \in Nat
              /\ f.boxes[n].enc \in {"short", "long", "rest", "huge"}
              /\ HeaderSize(f.boxes[n]) \in {8, 16}
<1>1. f.boxes \in Seq(Boxes) /\ f.size \in Nat
  BY DEF Layout
<1>2. ASSUME NEW n \in 1..Len(f.boxes) PROVE f.boxes[n] \in Boxes
  BY <1>1
<1>3. ASSUME NEW b \in Boxes
      PROVE  /\ b.size \in Nat
             /\ b.enc \in {"short", "long", "rest", "huge"}
             /\ HeaderSize(b) \in {8, 16}
  BY DEF Boxes, HeaderSize
<1>4. Len(f.boxes) \in Nat
  BY <1>1
<1> QED BY <1>1, <1>2, <1>3, <1>4

\* A turn's state is one.
LEMMA TurnType ==
  ASSUME NEW f \in Layout, NEW n \in 1..Len(f.boxes), NEW w \in Walk
  PROVE  Turn(f, w, n) \in Walk
<1> DEFINE b == f.boxes[n]
           size == BoxSize(b, w.room)
<1>1. size \in Nat /\ w.room \in Nat
  BY LayoutFacts DEF BoxSize, Walk
<1>2. (w.sawMdat \/ b.type = "mdat") \in BOOLEAN
  OBVIOUS
<1>3. (IF size > w.room THEN 0 ELSE w.room - size) \in Nat
  BY <1>1
<1> HIDE DEF b, size
<1>4. /\ [w EXCEPT !.found = "unknown"] \in Walk
      /\ [w EXCEPT !.found = IF w.sawMdat THEN "end" ELSE "front"] \in Walk
      /\ [w EXCEPT !.sawMdat = w.sawMdat \/ b.type = "mdat",
                   !.room = IF size > w.room THEN 0 ELSE w.room - size] \in Walk
  BY <1>2, <1>3 DEF Walk
<1> QED BY <1>4 DEF Turn, b, size

\* The recursion that defines Scan is well founded.
LEMMA ScanUnfolds ==
  ASSUME NEW f \in Layout
  PROVE  \E walk : IsWalk(f, walk)
<1> DEFINE N == Len(f.boxes)
           a == [room |-> f.size, sawMdat |-> FALSE, found |-> "none"]
           step == [n \in 1..N |-> [w \in Walk |-> Turn(f, w, n)]]
           Good(w) == w = [n \in 0..N |-> IF n = 0 THEN a ELSE Turn(f, w[n - 1], n)]
           walk == CHOOSE w : Good(w)
<1>1. N \in Nat /\ a \in Walk
  BY LayoutFacts DEF Walk
<1>2. step \in [1..N -> [Walk -> Walk]]
  BY TurnType
<1>3. PICK w : Recurs(w, N, Walk, a, step)
  <2> HIDE DEF N, a, step
  <2> QED BY <1>1, <1>2, RecursionExists
<1>4. w \in [0..N -> Walk] /\ w[0] = a /\ \A n \in 1..N : w[n] = step[n][w[n - 1]]
  BY <1>3 DEF Recurs
<1>5. Good(w)
  <2>1. \A n \in 1..N : w[n] = Turn(f, w[n - 1], n)
    <3> SUFFICES ASSUME NEW n \in 1..N PROVE w[n] = Turn(f, w[n - 1], n)
      OBVIOUS
    <3>1. n - 1 \in 0..N /\ w[n - 1] \in Walk
      BY <1>1, <1>4
    <3> QED BY <1>4, <3>1
  <2> HIDE DEF N, a, step
  <2> QED BY <1>1, <1>4, <2>1
<1>6. Good(walk)
  BY <1>5
<1>7. Scan(f) = IF walk[N].found = "none" THEN "unknown" ELSE walk[N].found
  BY DEF Scan
<1>8. walk[0] = a /\ \A n \in 1..N : walk[n] = Turn(f, walk[n - 1], n)
  <2> HIDE DEF walk, a, N
  <2> QED BY <1>1, <1>6
<1>9. walk \in [0..N -> Walk]
  <2> DEFINE S == {n \in 0..N : walk[n] \in Walk}
  <2> HIDE DEF walk, a, N
  <2>1. 0 \in S
    BY <1>1, <1>8
  <2>2. ASSUME NEW n \in 0..N - 1, n \in S PROVE n + 1 \in S
    <3>1. n + 1 \in 1..N /\ (n + 1) - 1 = n
      BY <1>1
    <3>2. Turn(f, walk[n], n + 1) \in Walk
      BY <2>2, <3>1, TurnType DEF N
    <3> QED BY <1>8, <3>1, <3>2
  <2>3. 0..N \subseteq S
    <3> HIDE DEF S
    <3> QED BY <1>1, <2>1, <2>2, InductionUpTo
  <2> QED BY <1>6, <2>3
<1>10. IsWalk(f, walk)
  <2> HIDE DEF walk
  <2> QED BY <1>7, <1>8, <1>9 DEF IsWalk
<1> QED BY <1>10

\* So is the one of Reachable.
LEMMA ReachableUnfolds ==
  ASSUME NEW f \in Layout
  PROVE  \E end : IsEnd(f, end)
<1> DEFINE N == Len(f.boxes)
           next(n, x) == x + f.boxes[n].size
           step == [n \in 1..N |-> [e \in Nat |-> next(n, e)]]
           Good(e) == e = [n \in 0..N |-> IF n = 0 THEN 0 ELSE next(n, e[n - 1])]
           end == CHOOSE e : Good(e)
<1>1. N \in Nat /\ \A n \in 1..N : f.boxes[n].size \in Nat
  BY LayoutFacts
<1>2. step \in [1..N -> [Nat -> Nat]]
  BY <1>1
<1>3. PICK e : Recurs(e, N, Nat, 0, step)
  <2> HIDE DEF N, step
  <2> QED BY <1>1, <1>2, RecursionExists
<1>4. e \in [0..N -> Nat] /\ e[0] = 0 /\ \A n \in 1..N : e[n] = step[n][e[n - 1]]
  BY <1>3 DEF Recurs
<1>5. Good(e)
  <2>1. \A n \in 1..N : e[n] = next(n, e[n - 1])
    <3> SUFFICES ASSUME NEW n \in 1..N PROVE e[n] = next(n, e[n - 1])
      OBVIOUS
    <3>1. n - 1 \in 0..N /\ e[n - 1] \in Nat
      BY <1>1, <1>4
    <3> HIDE DEF next
    <3>2. step[n][e[n - 1]] = next(n, e[n - 1])
      BY <3>1
    <3> QED BY <1>4, <3>2
  <2> HIDE DEF N, step, next
  <2> QED BY <1>1, <1>4, <2>1
<1>6. Good(end)
  BY <1>5
<1>7. Reachable(f) = {n \in 1..N :
         /\ end[n - 1] + HeaderSize(f.boxes[n]) <= f.size
         /\ f.boxes[n].enc = "rest" \/ Sized(f.boxes[n])
         /\ \A k \in 1..n - 1 : Sized(f.boxes[k])}
  BY DEF Reachable
<1>8. end[0] = 0 /\ \A n \in 1..N : end[n] = next(n, end[n - 1])
  <2>1. N \in Nat
    BY <1>1
  <2> HIDE DEF end, next, N
  <2>2. end[0] = 0
    BY <1>6, <2>1
  <2>3. ASSUME NEW n \in 1..N PROVE end[n] = next(n, end[n - 1])
    <3>1. n \in 0..N /\ n # 0
      BY <2>1
    <3> QED BY <1>6, <3>1
  <2> QED BY <2>2, <2>3
<1>9. end \in [0..N -> Nat]
  <2> DEFINE S == {n \in 0..N : end[n] \in Nat}
  <2> HIDE DEF end, N
  <2>1. 0 \in S
    BY <1>1, <1>8
  <2>2. ASSUME NEW n \in 0..N - 1, n \in S PROVE n + 1 \in S
    <3>1. n + 1 \in 1..N /\ (n + 1) - 1 = n /\ end[n] \in Nat
      BY <1>1, <2>2
    <3>2. end[n + 1] = end[n] + f.boxes[n + 1].size
      BY <1>8, <3>1
    <3>3. f.boxes[n + 1].size \in Nat
      BY <1>1, <3>1
    <3> QED BY <3>1, <3>2, <3>3
  <2>3. 0..N \subseteq S
    <3> HIDE DEF S
    <3> QED BY <1>1, <2>1, <2>2, InductionUpTo
  <2> QED BY <1>6, <2>3
<1>10. IsEnd(f, end)
  <2> HIDE DEF end
  <2> QED BY <1>7, <1>8, <1>9 DEF IsEnd
<1> QED BY <1>10

\* While the walk goes on: the boxes behind it are reachable, none is the moov, and
\* the first is ftyp; it knows where it is and whether it saw an mdat.
Passed(f, n) ==
  \A k \in 1..n : /\ k \in Reachable(f) /\ f.boxes[k].type # "moov"
                  /\ k = 1 => f.boxes[k].type = "ftyp"
Room(f, end, n) ==
  IF (n > 0 /\ f.boxes[n].enc = "rest") \/ end[n] > f.size THEN 0 ELSE f.size - end[n]
Going(f, walk, end, n) ==
  /\ walk[n].found = "none" /\ walk[n].room = Room(f, end, n)
  /\ walk[n].sawMdat <=> \E k \in 1..n : f.boxes[k].type = "mdat"

\* What is left of a file and where a box ends are numbers.
LEMMA RoomType ==
  ASSUME NEW f \in Layout, NEW end, IsEnd(f, end), NEW n \in 0..Len(f.boxes)
  PROVE  Room(f, end, n) \in Nat /\ end[n] \in Nat
<1>1. f.size \in Nat /\ end[n] \in Nat
  BY LayoutFacts DEF IsEnd
<1> QED BY <1>1 DEF Room

\* What the walk gives up at, coming from boxes it has passed, is an unreachable box or
\* a first box that is not ftyp.
LEMMA GivesUpRight ==
  ASSUME NEW f \in Layout, NEW end, IsEnd(f, end),
         NEW n \in 0..Len(f.boxes) - 1, Passed(f, n)
  PROVE  GivesUp(f, n + 1, Room(f, end, n)) <=>
           \/ n + 1 \notin Reachable(f)
           \/ n = 0 /\ f.boxes[n + 1].type # "ftyp"
<1> DEFINE b == f.boxes[n + 1]
           room == Room(f, end, n)
<1>1. /\ n + 1 \in 1..Len(f.boxes) /\ (n + 1) - 1 = n /\ f.size \in Nat /\ end[n] \in Nat
      /\ room \in Nat
  BY LayoutFacts, RoomType
<1>2. /\ b.size \in Nat /\ b.enc \in {"short", "long", "rest", "huge"}
      /\ HeaderSize(b) = IF b.enc \in {"long", "huge"} THEN 16 ELSE 8
  BY <1>1, LayoutFacts DEF HeaderSize
<1>3. n + 1 \in Reachable(f) <=>
        /\ end[n] + HeaderSize(b) <= f.size
        /\ b.enc = "rest" \/ Sized(b)
        /\ \A k \in 1..n : Sized(f.boxes[k])
  BY <1>1 DEF IsEnd
<1>4. n > 0 => /\ f.boxes[n].enc = "rest" \/ Sized(f.boxes[n])
               /\ \A k \in 1..n - 1 : Sized(f.boxes[k])
  <2> SUFFICES ASSUME n > 0
               PROVE  /\ f.boxes[n].enc = "rest" \/ Sized(f.boxes[n])
                      /\ \A k \in 1..n - 1 : Sized(f.boxes[k])
    OBVIOUS
  <2>1. n \in Reachable(f) /\ n \in 1..Len(f.boxes)
    BY DEF Passed
  <2> QED BY <2>1, LayoutFacts DEF IsEnd
<1>5. n + 1 \in Reachable(f) <=>
        /\ end[n] + HeaderSize(b) <= f.size
        /\ b.enc = "rest" \/ Sized(b)
        /\ n > 0 => f.boxes[n].enc # "rest"
  <2>1. (\A k \in 1..n : Sized(f.boxes[k]))
          <=> (n > 0 => f.boxes[n].enc # "rest")
    <3>1. ASSUME NEW k \in 1..n, n > 0, f.boxes[n].enc # "rest"
          PROVE  Sized(f.boxes[k])
      <4>1. CASE k = n
        BY <1>4, <3>1, <4>1
      <4>2. CASE k \in 1..n - 1
        BY <1>4, <3>1, <4>2
      <4> QED BY <3>1, <4>1, <4>2
    <3>2. n > 0 => n \in 1..n
      BY <1>1
    <3> QED BY <3>1, <3>2 DEF Sized
  <2> QED BY <1>3, <2>1
<1>6. n + 1 \in Reachable(f) <=>
        room >= HeaderSize(b) /\ (b.enc = "rest" \/ Sized(b))
  <2>1. room = IF (n > 0 /\ f.boxes[n].enc = "rest") \/ end[n] > f.size THEN 0
               ELSE f.size - end[n]
    BY DEF Room
  <2>2. HeaderSize(b) \in Nat /\ HeaderSize(b) >= 8
    BY <1>2
  <2> HIDE DEF b, room
  <2> QED BY <1>1, <1>5, <2>1, <2>2
<1>7. GivesUp(f, n + 1, room) <=>
        \/ room < HeaderSize(b) \/ ~(b.enc = "rest" \/ Sized(b))
        \/ n = 0 /\ b.type # "ftyp"
  <2>1. GivesUp(f, n + 1, room) <=>
          \/ room < 8 \/ b.enc = "huge" \/ room < HeaderSize(b) \/ BoxSize(b, room) < 8
          \/ n = 0 /\ b.type # "ftyp"
    BY <1>1 DEF GivesUp
  <2>3. HeaderSize(b) >= 8
    BY <1>2
  <2>2. room >= HeaderSize(b) =>
          (b.enc = "huge" \/ BoxSize(b, room) < 8 <=> ~(b.enc = "rest" \/ Sized(b)))
    <3> HIDE DEF b, room
    <3> QED BY <1>1, <1>2, <2>3 DEF BoxSize, Sized
  <2> HIDE DEF b, room
  <2> QED BY <1>1, <1>2, <2>1, <2>2, <2>3
<1> HIDE DEF b, room
<1> QED BY <1>1, <1>2, <1>6, <1>7 DEF b, room

\* A walk that has passed boxes goes on from the next one it need not give up at, unless
\* that is the moov.
LEMMA GoesOn ==
  ASSUME NEW f \in Layout, NEW walk, IsWalk(f, walk), NEW end, IsEnd(f, end),
         NEW n \in 0..Len(f.boxes) - 1, Passed(f, n + 1), Going(f, walk, end, n)
  PROVE  Going(f, walk, end, n + 1)
<1> DEFINE b == f.boxes[n + 1]
           room == Room(f, end, n)
<1>1. /\ n + 1 \in 1..Len(f.boxes) /\ (n + 1) - 1 = n /\ f.size \in Nat /\ end[n] \in Nat
      /\ room \in Nat /\ n \in 0..Len(f.boxes)
  <2>1. Len(f.boxes) \in Nat /\ f.size \in Nat
    BY LayoutFacts
  <2>2. n \in 0..Len(f.boxes) /\ n + 1 \in 1..Len(f.boxes) /\ (n + 1) - 1 = n
    BY <2>1
  <2> QED BY <2>1, <2>2, RoomType
<1>2. Passed(f, n) /\ n + 1 \in Reachable(f) /\ b.type # "moov" /\ (n = 0 => b.type = "ftyp")
  BY <1>1 DEF Passed
<1>3. ~GivesUp(f, n + 1, room)
  BY <1>2, GivesUpRight
<1>4. walk[n] \in Walk /\ walk[n + 1] = Turn(f, walk[n], n + 1)
  BY <1>1 DEF IsWalk
<1>5. walk[n].found = "none" /\ walk[n].room = room
  BY DEF Going
<1>6. walk[n + 1] = [walk[n] EXCEPT !.sawMdat = walk[n].sawMdat \/ b.type = "mdat",
         !.room = IF BoxSize(b, room) > room THEN 0 ELSE room - BoxSize(b, room)]
  <2> HIDE DEF b, room
  <2> QED BY <1>2, <1>3, <1>4, <1>5 DEF Turn, b
<1>7. /\ walk[n + 1].found = "none"
      /\ walk[n + 1].room = IF BoxSize(b, room) > room THEN 0 ELSE room - BoxSize(b, room)
      /\ walk[n + 1].sawMdat <=> walk[n].sawMdat \/ b.type = "mdat"
  <2> HIDE DEF b, room
  <2> QED BY <1>4, <1>5, <1>6 DEF Walk
<1>8. walk[n + 1].sawMdat <=> \E k \in 1..n + 1 : f.boxes[k].type = "mdat"
  <2>1. (\E k \in 1..n + 1 : f.boxes[k].type = "mdat")
          <=> (\E k \in 1..n : f.boxes[k].type = "mdat") \/ b.type = "mdat"
    BY <1>1
  <2>2. walk[n].sawMdat <=> \E k \in 1..n : f.boxes[k].type = "mdat"
    BY DEF Going
  <2> QED BY <1>7, <2>1, <2>2
<1>9. (IF BoxSize(b, room) > room THEN 0 ELSE room - BoxSize(b, room)) = Room(f, end, n + 1)
  <2>1. /\ end[n + 1] = end[n] + b.size
        /\ HeaderSize(b) = IF b.enc \in {"long", "huge"} THEN 16 ELSE 8
        /\ b.size \in Nat /\ b.enc \in {"short", "long", "rest"}
        /\ end[n] + HeaderSize(b) <= f.size
    BY <1>1, <1>2, LayoutFacts DEF IsEnd, HeaderSize, Sized
  <2>2. n > 0 => f.boxes[n].enc # "rest"
    <3>1. \A k \in 1..(n + 1) - 1 : Sized(f.boxes[k])
      BY <1>1, <1>2 DEF IsEnd
    <3>2. n > 0 => n \in 1..(n + 1) - 1
      BY <1>1
    <3> QED BY <3>1, <3>2 DEF Sized
  <2>3. room = f.size - end[n]
    BY <1>1, <2>1, <2>2 DEF Room
  <2>4. n + 1 > 0
    BY <1>1
  <2>5. Room(f, end, n + 1) =
          IF b.enc = "rest" \/ end[n + 1] > f.size THEN 0 ELSE f.size - end[n + 1]
    BY <2>4 DEF Room
  <2>7. HeaderSize(b) \in Nat
    BY <2>1
  <2> HIDE DEF b, room
  <2>6. BoxSize(b, room) = IF b.enc = "rest" THEN room ELSE b.size
    BY DEF BoxSize
  <2>8. CASE b.enc = "rest"
    BY <1>1, <2>5, <2>6, <2>8
  <2>9. CASE b.enc # "rest"
    <3>1. BoxSize(b, room) = end[n + 1] - end[n] /\ end[n + 1] \in Nat
      BY <1>1, <2>1, <2>6, <2>7, <2>9
    <3>2. Room(f, end, n + 1) = IF end[n + 1] > f.size THEN 0 ELSE f.size - end[n + 1]
      BY <2>5, <2>9
    <3> QED BY <1>1, <2>3, <3>1, <3>2
  <2> QED BY <2>8, <2>9
<1> QED BY <1>7, <1>8, <1>9 DEF Going

\* A walk that has returned stays as it is.
LEMMA StaysFound ==
  ASSUME NEW f \in Layout, NEW walk, IsWalk(f, walk), NEW n \in 0..Len(f.boxes),
         walk[n].found # "none"
  PROVE  Scan(f) = walk[n].found
<1> DEFINE N == Len(f.boxes)
           S == {m \in 0..N : m < n \/ walk[m] = walk[n]}
<1>1. N \in Nat
  BY LayoutFacts
<1>2. 0 \in S
  BY <1>1
<1>3. ASSUME NEW m \in 0..N - 1, m \in S PROVE m + 1 \in S
  <2>1. m + 1 \in 1..N /\ (m + 1) - 1 = m
    BY <1>1
  <2>2. walk[m + 1] = Turn(f, walk[m], m + 1)
    BY <2>1 DEF IsWalk
  <2>3. CASE m < n
    BY <1>1, <2>1, <2>3
  <2>4. CASE walk[m] = walk[n]
    BY <2>1, <2>2, <2>4 DEF Turn
  <2> QED BY <1>3, <2>3, <2>4
<1>4. N \in S
  <2> HIDE DEF S, N
  <2>1. 0..N \subseteq S
    BY <1>1, <1>2, <1>3, InductionUpTo
  <2> QED BY <1>1, <2>1
<1>5. walk[N] = walk[n]
  BY <1>1, <1>4
<1> QED BY <1>5 DEF IsWalk

\* No box behind an unreachable one is reachable.
LEMMA UnreachableStays ==
  ASSUME NEW f \in Layout, NEW e \in 1..Len(f.boxes), e \notin Reachable(f),
         NEW n \in Reachable(f)
  PROVE  n < e
<1> DEFINE N == Len(f.boxes)
           S == {m \in 0..N : m < e \/ m \notin Reachable(f)}
<1>1. N \in Nat
  BY LayoutFacts
<1>2. PICK end : IsEnd(f, end)
  BY ReachableUnfolds
<1>3. ASSUME NEW m \in 0..N - 1, m \in S PROVE m + 1 \in S
  <2>1. m + 1 \in 1..N /\ (m + 1) - 1 = m
    BY <1>1
  <2>2. CASE m + 1 <= e
    BY <1>1, <2>1, <2>2
  <2>3. CASE m + 1 > e /\ m + 1 \in Reachable(f)
    <3>1. m \in 1..N /\ m - 1 \in 0..N /\ m \in 1..(m + 1) - 1
      BY <1>1, <2>3
    <3>2. end[m] + HeaderSize(f.boxes[m + 1]) <= f.size
      BY <1>2, <2>1, <2>3 DEF IsEnd
    <3>3. \A k \in 1..m : Sized(f.boxes[k])
      BY <1>2, <2>1, <2>3 DEF IsEnd
    <3>4. end[m] = end[m - 1] + f.boxes[m].size /\ f.boxes[m].size >= 8
      BY <1>2, <3>1, <3>3 DEF IsEnd, Sized
    <3>5. /\ f.boxes[m].size \in Nat /\ HeaderSize(f.boxes[m]) \in {8, 16}
          /\ HeaderSize(f.boxes[m + 1]) \in {8, 16} /\ f.size \in Nat
      BY <2>1, <3>1, LayoutFacts
    <3>6. end[m - 1] \in Nat
      BY <1>2, <3>1 DEF IsEnd
    <3>7. end[m - 1] + HeaderSize(f.boxes[m]) <= f.size
      <4> DEFINE a == end[m - 1]
                 h == HeaderSize(f.boxes[m])
                 g == HeaderSize(f.boxes[m + 1])
                 b == f.boxes[m].size
      <4>1. /\ a \in Nat /\ h \in {8, 16} /\ g \in {8, 16} /\ b \in Nat /\ f.size \in Nat
            /\ b >= 8
        BY <3>4, <3>5, <3>6
      <4>2. (a + b) + g <= f.size
        BY <3>2, <3>4
      <4> HIDE DEF a, h, g, b
      <4>3. a + h <= f.size
        BY <4>1, <4>2
      <4> QED BY <4>3 DEF a, h
    <3>8. m \in Reachable(f)
      <4>1. Sized(f.boxes[m])
        BY <3>1, <3>3
      <4>2. \A k \in 1..m - 1 : Sized(f.boxes[k])
        BY <3>1, <3>3
      <4> QED BY <1>2, <3>1, <3>7, <4>1, <4>2 DEF IsEnd
    <3> QED BY <1>1, <1>3, <2>3, <3>1, <3>8
  <2> QED BY <1>1, <2>1, <2>2, <2>3
<1>4. 0 \in S
  BY <1>1
<1>5. n \in 0..N
  BY <1>1, <1>2 DEF IsEnd
<1>6. 0..N \subseteq S
  <2> HIDE DEF S, N
  <2> QED BY <1>1, <1>3, <1>4, InductionUpTo
<1> QED BY <1>1, <1>5, <1>6

\* As long as it passes, the walk goes on.
LEMMA WalkGoesOn ==
  ASSUME NEW f \in Layout, NEW walk, IsWalk(f, walk), NEW end, IsEnd(f, end),
         NEW n \in 0..Len(f.boxes), Passed(f, n)
  PROVE  Going(f, walk, end, n)
<1> DEFINE S == {m \in 0..n : Going(f, walk, end, m)}
<1>1. n \in Nat /\ Len(f.boxes) \in Nat
  BY LayoutFacts
<1>2. 0 \in S
  <2>1. end[0] = 0 /\ f.size \in Nat
    BY LayoutFacts DEF IsEnd
  <2>2. Room(f, end, 0) = f.size
    BY <2>1 DEF Room
  <2>3. ~\E k \in 1..0 : f.boxes[k].type = "mdat"
    OBVIOUS
  <2> QED BY <1>1, <2>2, <2>3 DEF Going, IsWalk
<1>3. ASSUME NEW m \in 0..n - 1, m \in S PROVE m + 1 \in S
  <2>1. m \in 0..Len(f.boxes) - 1 /\ m + 1 \in 0..n
    BY <1>1
  <2>2. Passed(f, m + 1)
    BY <1>1, <2>1 DEF Passed
  <2> QED BY <1>3, <2>1, <2>2, GoesOn
<1>4. 0..n \subseteq S
  <2> HIDE DEF S
  <2> QED BY <1>1, <1>2, <1>3, InductionUpTo
<1> QED BY <1>1, <1>4

\* scanMoovPosition finds what the layout says, for every layout: what its comment
\* promises, except that it says "front" of a file with a moov and no mdat.
THEOREM ScanRight ==
  ASSUME NEW f \in Layout
  PROVE  Scan(f) = IF LacksMdat(f) THEN "front" ELSE MoovPosition(f)
<1> DEFINE N == Len(f.boxes)
           Stop == {n \in 1..N : \/ n \notin Reachable(f) \/ f.boxes[n].type = "moov"
                                 \/ n = 1 /\ f.boxes[n].type # "ftyp"}
<1>1. PICK walk, end : IsWalk(f, walk) /\ IsEnd(f, end)
  BY ScanUnfolds, ReachableUnfolds
<1>2. N \in Nat /\ Reachable(f) \subseteq 1..N
  BY <1>1, LayoutFacts DEF IsEnd
<1>3. CASE Stop = {}
  <2>1. Passed(f, N)
    BY <1>3 DEF Passed
  <2>2. walk[N].found = "none"
    BY <1>1, <1>2, <2>1, WalkGoesOn DEF Going
  <2>3. Scan(f) = "unknown"
    BY <1>1, <2>2 DEF IsWalk
  <2>4. At(f, "moov") = {}
    BY <1>2, <1>3 DEF At
  <2> QED BY <2>3, <2>4 DEF MoovPosition, LacksMdat
<1>4. CASE Stop # {}
  <2>1. PICK e \in Stop : \A n \in Stop : e <= n
    <3>1. Stop \in SUBSET Nat
      BY <1>2
    <3> HIDE DEF Stop
    <3> QED BY <1>4, <3>1, LeastNumber
  <2>2. /\ e \in 1..N /\ e - 1 \in 0..N - 1 /\ e - 1 \in 0..N /\ (e - 1) + 1 = e
    BY <1>2
  <2>3. Passed(f, e - 1)
    <3> SUFFICES ASSUME NEW k \in 1..e - 1
                 PROVE  /\ k \in Reachable(f) /\ f.boxes[k].type # "moov"
                        /\ k = 1 => f.boxes[k].type = "ftyp"
      BY DEF Passed
    <3>1. k \in 1..N /\ k < e
      BY <1>2, <2>2
    <3>2. k \notin Stop
      BY <2>1, <2>2, <3>1
    <3> QED BY <3>1, <3>2
  <2>4. Going(f, walk, end, e - 1)
    BY <1>1, <2>2, <2>3, WalkGoesOn
  <2>5. /\ walk[e - 1] \in Walk /\ walk[e] = Turn(f, walk[e - 1], e)
        /\ walk[e - 1].found = "none" /\ walk[e - 1].room = Room(f, end, e - 1)
        /\ walk[e - 1].sawMdat <=> \E k \in 1..e - 1 : f.boxes[k].type = "mdat"
    BY <1>1, <2>2, <2>4 DEF IsWalk, Going
  <2>6. GivesUp(f, e, walk[e - 1].room) <=>
          e \notin Reachable(f) \/ (e = 1 /\ f.boxes[e].type # "ftyp")
    <3>1. GivesUp(f, (e - 1) + 1, Room(f, end, e - 1)) <=>
            \/ (e - 1) + 1 \notin Reachable(f)
            \/ e - 1 = 0 /\ f.boxes[(e - 1) + 1].type # "ftyp"
      BY <1>1, <2>2, <2>3, GivesUpRight
    <3>2. e - 1 = 0 <=> e = 1
      BY <2>2
    <3> QED BY <2>2, <2>5, <3>1, <3>2
  <2>7. \A n \in At(f, "moov") : n >= e
    BY <1>2, <2>1 DEF At
  <2>8. CASE GivesUp(f, e, walk[e - 1].room)
    <3>1. walk[e].found = "unknown"
      BY <2>5, <2>8 DEF Turn, Walk
    <3>2. Scan(f) = "unknown"
      BY <1>1, <2>2, <3>1, StaysFound
    <3>3. CASE e \notin Reachable(f)
      <4>1. \A n \in Reachable(f) : n < e
        BY <2>2, <3>3, UnreachableStays
      <4>2. At(f, "moov") = {}
        BY <1>2, <2>2, <2>7, <4>1 DEF At
      <4> QED BY <3>2, <4>2 DEF MoovPosition, LacksMdat
    <3>4. CASE e = 1 /\ f.boxes[e].type # "ftyp"
      BY <3>2, <3>4 DEF MoovPosition, LacksMdat, At
    <3> QED BY <2>6, <2>8, <3>3, <3>4
  <2>9. CASE ~GivesUp(f, e, walk[e - 1].room)
    <3>1. e \in Reachable(f) /\ f.boxes[e].type = "moov" /\ e # 1
      BY <2>1, <2>2, <2>6, <2>9
    <3>2. walk[e].found = IF walk[e - 1].sawMdat THEN "end" ELSE "front"
      BY <2>5, <2>9, <3>1 DEF Turn, Walk
    <3>3. Scan(f) = IF walk[e - 1].sawMdat THEN "end" ELSE "front"
      BY <1>1, <2>2, <3>2, StaysFound
    <3>4. 1 \in At(f, "ftyp") /\ e \in At(f, "moov")
      <4>1. 1 \in 1..e - 1
        BY <2>2, <3>1
      <4> QED BY <2>3, <3>1, <4>1 DEF Passed, At
    <3>5. (\E m \in At(f, "mdat") : \A n \in At(f, "moov") : m < n)
            <=> walk[e - 1].sawMdat
      <4>1. ASSUME NEW m \in At(f, "mdat"), \A n \in At(f, "moov") : m < n
            PROVE  walk[e - 1].sawMdat
        <5>1. m \in 1..e - 1 /\ f.boxes[m].type = "mdat"
          BY <1>2, <2>2, <3>4, <4>1 DEF At
        <5> QED BY <2>5, <5>1
      <4>2. ASSUME walk[e - 1].sawMdat
            PROVE  \E m \in At(f, "mdat") : \A n \in At(f, "moov") : m < n
        <5>1. PICK m \in 1..e - 1 : f.boxes[m].type = "mdat"
          BY <2>5, <4>2
        <5>2. m \in At(f, "mdat")
          BY <2>3, <5>1 DEF Passed, At
        <5>3. \A n \in At(f, "moov") : m < n
          BY <1>2, <2>2, <2>7 DEF At
        <5> QED BY <5>2, <5>3
      <4> QED BY <4>1, <4>2
    <3>6. CASE At(f, "mdat") = {}
      BY <3>3, <3>4, <3>5, <3>6 DEF LacksMdat
    <3>7. CASE At(f, "mdat") # {}
      BY <3>3, <3>4, <3>5, <3>7 DEF MoovPosition, LacksMdat
    <3> QED BY <3>6, <3>7
  <2> QED BY <2>8, <2>9
<1> QED BY <1>3, <1>4

\* The scan says one of three things.
LEMMA ScanType ==
  ASSUME NEW f \in Layout
  PROVE  Scan(f) \in {"front", "end", "unknown"}
BY ScanRight DEF MoovPosition

\* What ffmpeg makes with +faststart is a layout whose moov the scan finds at the front.
LEMMA FaststartIsFront == Faststart \in Layout /\ Scan(Faststart) = "front"
<1> DEFINE f == Faststart
           box(type) == [type |-> type, enc |-> "short", size |-> 9]
<1>1. /\ f.boxes = <<box("ftyp"), box("moov"), box("mdat")>> /\ f.size = 27
      /\ f = [boxes |-> f.boxes, size |-> f.size]
  BY DEF Faststart
<1>2. box("ftyp") \in Boxes /\ box("moov") \in Boxes /\ box("mdat") \in Boxes
  BY DEF Boxes
<1>3. /\ f.boxes \in Seq(Boxes) /\ Len(f.boxes) = 3
      /\ f.boxes[1] = box("ftyp") /\ f.boxes[2] = box("moov") /\ f.boxes[3] = box("mdat")
  <2> HIDE DEF box, f
  <2> QED BY <1>1, <1>2
<1>4. f \in Layout
  <2>1. f.boxes \in Seq(Boxes) /\ f.size \in Nat
    BY <1>1, <1>3
  <2>2. f = [boxes |-> f.boxes, size |-> f.size]
    BY <1>1
  <2>3. \A bs \in Seq(Boxes), n \in Nat : [boxes |-> bs, size |-> n] \in Layout
    BY DEF Layout
  <2> HIDE DEF f
  <2> QED BY <2>1, <2>2, <2>3
<1>5. \A n \in 1..3 : /\ f.boxes[n].enc = "short" /\ f.boxes[n].size = 9
                      /\ HeaderSize(f.boxes[n]) = 8 /\ Sized(f.boxes[n])
  BY <1>3 DEF HeaderSize, Sized
<1>6. PICK end : IsEnd(f, end)
  <2> HIDE DEF f
  <2> QED BY <1>4, ReachableUnfolds
<1> HIDE DEF f
<1>7. end[0] = 0 /\ end[1] = 9 /\ end[2] = 18
  <2>1. end[0] = 0 /\ end[1] = end[0] + 9 /\ end[2] = end[1] + 9
    <3>1. 1 \in 1..3 /\ 2 \in 1..3 /\ 1 - 1 = 0 /\ 2 - 1 = 1
      OBVIOUS
    <3> HIDE DEF box
    <3> QED BY <1>3, <1>5, <1>6, <3>1 DEF IsEnd
  <2> QED BY <2>1
<1>8. 1 \in Reachable(f) /\ 2 \in Reachable(f) /\ Reachable(f) \subseteq 1..3
  <2>1. \A n \in 1..2 : end[n - 1] + 8 <= 27
    BY <1>7
  <2> HIDE DEF box
  <2> QED BY <1>1, <1>3, <1>5, <1>6, <2>1 DEF IsEnd
<1>9. 1 \in At(f, "ftyp") /\ At(f, "moov") = {2} /\ At(f, "mdat") \subseteq {3}
  BY <1>3, <1>8 DEF At
<1>10. LacksMdat(f) \/ MoovPosition(f) = "front"
  BY <1>9 DEF MoovPosition, LacksMdat
<1> QED BY <1>4, <1>10, ScanRight DEF f

-----------------------------------------------------------------------------
(* The types.                                                              *)

\* What the remux or transcode of bytes is made of is still bytes.
LEMMA RewrittenType ==
  ASSUME NEW b \in Content, NEW how
  PROVE  /\ Rewritten(b, how) \in Content /\ Rewritten(b, how).file = Faststart
         /\ Rewritten(b, how).of = b.of /\ Rewritten(b, how).state = b.state
BY DEF Rewritten, Content, Codec

\* A content with a state other than "none" is one, and has an upload and a layout.
LEMMA ContentFacts ==
  ASSUME NEW b \in Content \cup {NoBytes, Debris}
  PROVE  /\ b.state \in {"whole", "partial", "empty"} => b \in Content /\ b # NoBytes
         /\ b \in Content => /\ b.state \in {"whole", "partial", "empty"}
                             /\ b.of \in Upload /\ b.file \in Layout
         /\ b # NoBytes => b \in Content \cup {Debris}
         /\ b \in Content \cup {NoBytes} => b # Debris
BY FileAssumption, FaststartIsFront DEF Content, NoBytes, Debris

\* A job that reports is done, with nothing left to say about it.
LEMMA ReportFacts ==
  ASSUME TypeOK, NEW j \in Job, NEW a \in {"none", "remuxed", "transcoded", "skipped"},
         Report(j, a)
  PROVE  /\ job' \in [Job -> Call] /\ job'[j].pc = "done" /\ job'[j].action = a
         /\ \A k \in Job \ {j} : job'[k] = job[k]
BY DEF TypeOK, Report, Idle, NoBytes, Call

\* A job that goes on keeps everything but its place.
LEMMA GotoFacts ==
  ASSUME TypeOK, NEW j \in Job, NEW pc \in {"cleanup", "stat", "rename"}, Goto(j, pc)
  PROVE  /\ job' \in [Job -> Call] /\ job'[j].path = job[j].path
         /\ job'[j].pc = pc /\ job'[j].how = job[j].how
         /\ job'[j].input = job[j].input /\ job'[j].action = job[j].action
         /\ \A k \in Job \ {j} : job'[k] = job[k]
BY DEF TypeOK, Goto, Call

\* The types, with what they rest on: a running job has its artifact's path, how it
\* rewrites is set before it is used, what ffmpeg reads is bytes, and only a dead job
\* leaves debris.
Typed ==
  /\ TypeOK
  /\ \A j \in Job :
       /\ job[j].pc \notin Over => job[j].path \in Path
       /\ job[j].pc \in {"launch", "encode", "stat", "rename"} => job[j].how # Null
       /\ job[j].pc = "encode" => job[j].input \in Content
       /\ job[j].pc # "dead" => tmp[j] \in Content \cup {NoBytes}

\* Every step of a job keeps the types, and leaves no debris.
LEMMA TypedJobStep ==
  ASSUME Typed, NEW j \in Job, JobStep(j)
  PROVE  Typed' /\ tmp'[j] \in Content \cup {NoBytes}
<1> USE DEF TmpName
<1>0. TypeOK /\ UNCHANGED owner
  BY DEF Typed, JobStep, ScanMoov, NoBinaries, Probe, Launch, Encoded, VerifyTmp,
         Replace, Cleanup
<1>r. job[j] \in Call /\ job[j].path \in Path
  BY <1>0 DEF Typed, TypeOK, Call, Over, JobStep, ScanMoov, NoBinaries, Probe, Launch,
         Encoded, VerifyTmp, Replace, Cleanup
<1>t. tmp[j] \in Content \cup {NoBytes} /\ tmp \in [Job -> Content \cup {NoBytes, Debris}]
  BY <1>0 DEF Typed, TypeOK, JobStep, ScanMoov, NoBinaries, Probe, Launch, Encoded,
     VerifyTmp, Replace, Cleanup
<1> DEFINE Written == /\ tmp' \in [Job -> Content \cup {NoBytes, Debris}]
                      /\ tmp'[j] \in Content \cup {NoBytes}
                      /\ \A k \in Job \ {j} : tmp'[k] = tmp[k]
<1>u. UNCHANGED tmp => Written
  BY <1>t
<1>w. ASSUME NEW t \in Content \cup {NoBytes}, tmp' = [tmp EXCEPT ![j] = t] PROVE Written
  BY <1>t, <1>w
<1> SUFFICES /\ bytes' \in [Path -> Content \cup {NoBytes}]
             /\ Written
             /\ job' \in [Job -> Call]
             /\ job'[j].pc \notin Over => job'[j].path \in Path
             /\ job'[j].pc \in {"launch", "encode", "stat", "rename"} => job'[j].how # Null
             /\ job'[j].pc = "encode" => job'[j].input \in Content
             /\ \A k \in Job \ {j} : job'[k] = job[k]
  BY <1>0 DEF Typed, TypeOK, Over
<1> HIDE DEF Written
<1>1. CASE ScanMoov(j)
  <2>1. CASE Report(j, "skipped")
    BY <1>0, <1>1, <1>u, <2>1, ReportFacts DEF ScanMoov, TypeOK, Over
  <2>2. CASE ~Report(j, "skipped")
    <3>1. PICK atEnd \in BOOLEAN :
             job' = [job EXCEPT ![j].atEnd = atEnd, ![j].pc = "probe"]
      BY <1>1, <2>2 DEF ScanMoov
    <3> QED BY <1>0, <1>1, <1>r, <1>u, <3>1 DEF ScanMoov, TypeOK, Call
  <2> QED BY <2>1, <2>2
<1>2. CASE NoBinaries(j)
  BY <1>0, <1>2, <1>u, ReportFacts DEF NoBinaries, TypeOK, Over
<1>3. CASE Probe(j)
  <2>1. CASE Report(j, "none")
    BY <1>0, <1>3, <1>u, <2>1, ReportFacts DEF Probe, TypeOK, Over
  <2>2. CASE ~Report(j, "none")
    <3>1. PICK how \in {"transcoded", "remuxed"} :
             job' = [job EXCEPT ![j].pc = "launch", ![j].how = how]
      BY <1>3, <2>2 DEF Probe
    <3>2. how # Null
      BY NullAssumption
    <3>3. [job[j] EXCEPT !.pc = "launch", !.how = how] \in Call
      BY <1>r DEF Call
    <3>4. /\ job' \in [Job -> Call] /\ \A k \in Job \ {j} : job'[k] = job[k]
          /\ job'[j] = [job[j] EXCEPT !.pc = "launch", !.how = how]
      BY <1>0, <3>1, <3>3 DEF TypeOK
    <3>5. job'[j].pc = "launch" /\ job'[j].how = how /\ job'[j].path = job[j].path
      BY <1>r, <3>4 DEF Call
    <3> QED BY <1>0, <1>r, <1>u, <1>3, <3>2, <3>4, <3>5 DEF Probe, TypeOK
  <2> QED BY <2>1, <2>2
<1>4. CASE Launch(j)
  <2> DEFINE b == bytes[job[j].path]
  <2>1. CASE Goto(j, "cleanup") /\ UNCHANGED tmp
    BY <1>0, <1>r, <1>u, <1>4, <2>1, GotoFacts DEF Launch, TypeOK
  <2>2. CASE /\ b # NoBytes
             /\ tmp' = [tmp EXCEPT ![j] = [b EXCEPT !.state = "partial"]]
             /\ job' = [job EXCEPT ![j].pc = "encode", ![j].input = b]
    <3>1. b \in Content
      BY <1>0, <1>r, <2>2, ContentFacts DEF TypeOK
    <3>2. [b EXCEPT !.state = "partial"] \in Content
      BY <3>1 DEF Content
    <3>3. [job[j] EXCEPT !.pc = "encode", !.input = b] \in Call
      BY <1>r, <3>1 DEF Call
    <3>4. /\ job' \in [Job -> Call] /\ \A k \in Job \ {j} : job'[k] = job[k]
          /\ job'[j] = [job[j] EXCEPT !.pc = "encode", !.input = b]
      BY <1>0, <2>2, <3>3 DEF TypeOK
    <3>5. /\ job'[j].pc = "encode" /\ job'[j].input = b
          /\ job'[j].how = job[j].how /\ job'[j].path = job[j].path
      BY <1>r, <3>4 DEF Call
    <3>6. job[j].how # Null
      BY <1>4 DEF Launch, Typed
    <3>7. Written
      BY <1>w, <2>2, <3>2
    <3> QED BY <1>0, <1>r, <1>4, <3>1, <3>4, <3>5, <3>6, <3>7 DEF Launch, TypeOK
  <2> QED BY <1>4, <2>1, <2>2 DEF Launch
<1>5. CASE Encoded(j)
  <2>1. /\ job[j].input \in Content /\ job[j].how # Null
        /\ [job[j].input EXCEPT !.state = "empty"] \in Content
    BY <1>5 DEF Encoded, Typed, Content
  <2>2. Written
    BY <1>5, <1>u, <1>w, <2>1, RewrittenType DEF Encoded
  <2> QED BY <1>0, <1>r, <1>5, <2>1, <2>2, GotoFacts DEF Encoded, TypeOK
<1>6. CASE VerifyTmp(j)
  BY <1>0, <1>r, <1>u, <1>6, GotoFacts DEF VerifyTmp, Typed, TypeOK
<1>7. CASE Replace(j)
  <2>1. job[j].how \in {"remuxed", "transcoded"}
    BY <1>7, <1>r DEF Replace, Typed, Call
  <2>2. CASE tmp[j] = NoBytes
    BY <1>0, <1>r, <1>u, <1>7, <2>2, GotoFacts DEF Replace, TypeOK
  <2>3. CASE tmp[j] # NoBytes
    <3>1. /\ bytes' = [bytes EXCEPT ![job[j].path] = tmp[j]]
          /\ tmp' = [tmp EXCEPT ![j] = NoBytes] /\ Report(j, job[j].how)
      BY <1>7, <2>3 DEF Replace
    <3> QED BY <1>0, <1>r, <1>t, <1>w, <2>1, <3>1, ReportFacts DEF TypeOK, Over
  <2> QED BY <2>2, <2>3
<1>8. CASE Cleanup(j)
  BY <1>0, <1>8, <1>w, ReportFacts DEF Cleanup, TypeOK, Over
<1> QED BY <1>1, <1>2, <1>3, <1>4, <1>5, <1>6, <1>7, <1>8 DEF JobStep

\* So does every other step: a call that starts, a job that dies, and what happens to
\* artifacts, whatever is removed under a job.
LEMMA TypedStep == Typed /\ [Next]_vars => Typed'
<1> SUFFICES ASSUME Typed, [Next]_vars PROVE Typed'
  OBVIOUS
<1>0. TypeOK
  BY DEF Typed
<1>1. ASSUME NEW j \in Job, NEW p \in Path, NEW transcode \in BOOLEAN,
             Start(j, p, transcode)
      PROVE  Typed'
  <2>1. /\ job' \in [Job -> Call] /\ job'[j].pc = "scan" /\ job'[j].path = p
        /\ \A k \in Job \ {j} : job'[k] = job[k]
    BY <1>0, <1>1 DEF Start, TypeOK, Idle, NoBytes, Call
  <2> QED BY <1>0, <1>1, <2>1 DEF Start, Typed, TypeOK
<1>2. ASSUME NEW j \in Job, Crash(j) PROVE Typed'
  <2> DEFINE leaves == tmp[j] # NoBytes
  <2>1. /\ job' = [job EXCEPT ![j] = [Idle EXCEPT !.pc = IF leaves THEN "dead" ELSE "idle"]]
        /\ tmp' = [tmp EXCEPT ![j] = IF leaves THEN Debris ELSE tmp[j]]
        /\ UNCHANGED <<owner, bytes>>
    BY <1>2 DEF Crash, TmpName
  <2>2. [Idle EXCEPT !.pc = IF leaves THEN "dead" ELSE "idle"] \in Call
    BY DEF Idle, NoBytes, Call
  <2>3. /\ job' \in [Job -> Call] /\ job'[j].pc \in Over
        /\ job'[j].pc # "dead" => tmp'[j] = NoBytes
        /\ tmp' \in [Job -> Content \cup {NoBytes, Debris}]
        /\ \A k \in Job \ {j} : job'[k] = job[k] /\ tmp'[k] = tmp[k]
    BY <1>0, <2>1, <2>2 DEF TypeOK, Idle, Over
  <2>4. job'[j].pc \notin {"launch", "encode", "stat", "rename"}
    BY <2>3 DEF Over
  <2> QED BY <1>0, <2>1, <2>3, <2>4 DEF Typed, TypeOK
<1>3. ASSUME NEW p \in Path, Remove(p) PROVE Typed'
  BY <1>0, <1>3 DEF Remove, Typed, TypeOK
<1>4. ASSUME NEW p \in Path, NEW u \in Upload, NEW f \in File, NEW codec \in Codec,
             Complete(p, u, f, codec)
      PROVE  Typed'
  <2>1. [of |-> u, file |-> f, codec |-> codec, state |-> "whole"] \in Content
    BY DEF Content
  <2> QED BY <1>0, <1>4, <2>1 DEF Complete, Typed, TypeOK
<1>5. CASE UNCHANGED vars
  BY <1>5 DEF vars, Typed, TypeOK
<1> QED BY <1>1, <1>2, <1>3, <1>4, <1>5, TypedJobStep DEF Next

\* The initial states have the types.
LEMMA InitTyped == Init => Typed
BY DEF Init, Typed, TypeOK, Idle, NoBytes, Call, Over

\* What is stored is always a file a client uploaded or ffmpeg made.
THEOREM TypesAreRight == Spec => []Typed
BY InitTyped, TypedStep, PTL DEF Spec

\* Of a job's step, another job's file and place are no part; its own file is there only
\* while ffmpeg writes it or its outcome is dealt with, and no step leads to "dead".
LEMMA TransientJobStep ==
  ASSUME Typed, TmpIsTransient, NEW j \in Job, JobStep(j)
  PROVE  TmpIsTransient'
<1> USE DEF TmpName
<1>1. /\ TypeOK /\ job \in [Job -> Call] /\ tmp \in [Job -> Content \cup {NoBytes, Debris}]
      /\ tmp[j] # NoBytes => job[j].pc \in {"encode", "stat", "rename", "cleanup", "dead"}
  BY DEF Typed, TypeOK, TmpIsTransient
<1>2. SUFFICES /\ \A k \in Job \ {j} : job'[k] = job[k] /\ tmp'[k] = tmp[k]
               /\ \/ tmp'[j] = NoBytes
                  \/ job'[j].pc \in {"encode", "stat", "rename", "cleanup"}
  BY DEF TmpIsTransient
<1>3. CASE ScanMoov(j) \/ NoBinaries(j) \/ Probe(j)
  <2>1. tmp[j] = NoBytes /\ UNCHANGED tmp
    BY <1>1, <1>3 DEF ScanMoov, NoBinaries, Probe
  <2>2. \A k \in Job \ {j} : job'[k] = job[k]
    BY <1>1, <1>3 DEF ScanMoov, NoBinaries, Probe, Report
  <2> QED BY <2>1, <2>2
<1>4. CASE Launch(j)
  <2>1. \A k \in Job \ {j} : job'[k] = job[k] /\ tmp'[k] = tmp[k]
    BY <1>1, <1>4 DEF Launch, Goto
  <2>2. job'[j].pc \in {"encode", "cleanup"}
    BY <1>1, <1>4 DEF Launch, Goto, Call
  <2> QED BY <2>1, <2>2
<1>5. CASE Encoded(j) \/ VerifyTmp(j)
  <2>1. \A k \in Job \ {j} : job'[k] = job[k] /\ tmp'[k] = tmp[k]
    BY <1>1, <1>5 DEF Encoded, VerifyTmp, Goto
  <2>2. job'[j].pc \in {"stat", "rename", "cleanup"}
    BY <1>1, <1>5, GotoFacts DEF Encoded, VerifyTmp
  <2> QED BY <2>1, <2>2
<1>6. CASE Replace(j)
  <2>1. CASE tmp[j] = NoBytes
    BY <1>1, <1>6, <2>1, GotoFacts DEF Replace
  <2>2. CASE tmp[j] # NoBytes
    BY <1>1, <1>6, <2>2 DEF Replace, Report
  <2> QED BY <2>1, <2>2
<1>7. CASE Cleanup(j)
  BY <1>1, <1>7 DEF Cleanup, Report
<1> QED BY <1>3, <1>4, <1>5, <1>6, <1>7 DEF JobStep

\* A job's temporary file never outlives its ffmpeg run and what follows it, whatever is
\* removed under the job, unless the job's process dies.
THEOREM TmpIsAlwaysTransient == Spec => []TmpIsTransient
<1>1. Init => TmpIsTransient
  BY DEF Init, TmpIsTransient
<1>2. Typed /\ TmpIsTransient /\ [Next]_vars => TmpIsTransient'
  <2> SUFFICES ASSUME Typed, TmpIsTransient, [Next]_vars PROVE TmpIsTransient'
    OBVIOUS
  <2>1. job \in [Job -> Call] /\ tmp \in [Job -> Content \cup {NoBytes, Debris}]
    BY DEF Typed, TypeOK
  <2>2. ASSUME NEW j \in Job, NEW p \in Path, NEW transcode \in BOOLEAN,
               Start(j, p, transcode)
        PROVE  TmpIsTransient'
    <3>1. /\ UNCHANGED tmp /\ tmp[j] = NoBytes
          /\ \A k \in Job \ {j} : job'[k] = job[k]
      BY <2>1, <2>2 DEF Start, Running, TmpIsTransient
    <3> QED BY <3>1 DEF TmpIsTransient
  <2>3. ASSUME NEW j \in Job, Crash(j) PROVE TmpIsTransient'
    <3>1. /\ tmp'[j] = NoBytes \/ job'[j].pc = "dead"
          /\ \A k \in Job \ {j} : job'[k] = job[k] /\ tmp'[k] = tmp[k]
      BY <2>1, <2>3 DEF Crash, TmpName, Idle
    <3> QED BY <3>1 DEF TmpIsTransient
  <2>4. CASE UNCHANGED <<job, tmp>>
    BY <2>4 DEF TmpIsTransient
  <2> QED BY <2>2, <2>3, <2>4, TransientJobStep DEF Next, Complete, Remove, vars
<1> QED BY <1>1, <1>2, InitTyped, TypedStep, PTL DEF Spec

\* So the scan is right about every file that is ever served, whatever clients upload,
\* however it was cut off, and whoever rewrote it.
THEOREM ScanIsAlwaysRight == Spec => []ScanIsRight
<1>1. Typed => ScanIsRight
  BY ContentFacts, ScanRight DEF Typed, TypeOK, ScanIsRight
<1> QED BY TypesAreRight, <1>1, PTL

-----------------------------------------------------------------------------
(* The rewrite.                                                            *)

\* Every artifact whose scan is "front" keeps it.
KeepsFront == \A p \in Path : Scan(bytes[p].file) = "front" => Scan(bytes'[p].file) = "front"

\* The temporary names of two jobs differ, so a step of one leaves the other's file
\* alone: what JobOK says of a job depends on its own record and file, on owner, and,
\* once it has scanned, on the moov that it found at the front staying there.
LEMMA JobOKIsLocal ==
  ASSUME NEW j \in Job, JobOK(j), UNCHANGED owner, job'[j] = job[j], tmp'[j] = tmp[j],
         KeepsFront
  PROVE  JobOK(j)'
BY DEF JobOK, KeepsFront, Over

\* The initial states satisfy the invariant.
LEMMA InitInv == Init => Inv
BY NullAssumption, InitTyped
   DEF Init, Inv, Typed, ServedIsWhole, JobOK, Idle, NoBytes, Debris, Over

\* Inv has the types and what they rest on.
LEMMA InvIsTyped == Inv => Typed
<1>0. ASSUME TypeOK, NEW j \in Job, JobOK(j), job[j].pc # "dead"
      PROVE  tmp[j] \in Content \cup {NoBytes}
  BY <1>0 DEF TypeOK, JobOK
<1> SUFFICES ASSUME Inv, NEW j \in Job, job[j].pc = "encode" PROVE job[j].input \in Content
  BY <1>0 DEF Inv, JobOK, Typed
<1>1. job[j].input \in Content \cup {NoBytes} /\ job[j].input.state = "whole"
  BY DEF Inv, TypeOK, Call, JobOK
<1> QED BY <1>1, ContentFacts

\* The file of an artifact with bytes is a layout, and its scan says one of three things.
LEMMA StoredScan ==
  ASSUME TypeOK, NEW p \in Path, bytes[p] # NoBytes
  PROVE  Scan(bytes[p].file) \in {"front", "end", "unknown"}
<1>1. bytes[p] \in Content \cup {NoBytes} /\ bytes[p].file \in Layout
  BY ContentFacts DEF TypeOK
<1> QED BY <1>1, ScanType

\* Every step of a job keeps the invariant, and the moov at the front where it is.
LEMMA StepInv ==
  ASSUME Inv, NEW j \in Job, JobStep(j)
  PROVE  Inv' /\ KeepsFront
<1> USE DEF TmpName, Over
<1>0. /\ TypeOK /\ ServedIsWhole /\ (\A k \in Job : JobOK(k)) /\ UNCHANGED owner
      /\ TypeOK'
  BY InvIsTyped, TypedJobStep DEF Inv, Typed, JobStep, ScanMoov, NoBinaries, Probe,
     Launch, Encoded, VerifyTmp, Replace, Cleanup
<1>r. /\ job[j] \in Call /\ job[j].path \in Path /\ owner[job[j].path] # Null
      /\ job[j].action = Null
  BY <1>0 DEF TypeOK, JobOK, JobStep, ScanMoov, NoBinaries, Probe, Launch, Encoded,
         VerifyTmp, Replace, Cleanup
<1>d. tmp'[j] # Debris
  BY InvIsTyped, TypedJobStep, ContentFacts
<1> SUFFICES /\ ServedIsWhole' /\ JobOK(j)' /\ KeepsFront
             /\ \A k \in Job \ {j} : job'[k] = job[k] /\ tmp'[k] = tmp[k]
  BY <1>0, JobOKIsLocal DEF Inv
<1>e. UNCHANGED bytes => ServedIsWhole' /\ KeepsFront
  BY <1>0 DEF ServedIsWhole, KeepsFront
<1>1. CASE ScanMoov(j)
  <2> DEFINE b == bytes[job[j].path]
  <2>1. CASE Report(j, "skipped")
    BY <1>0, <1>d, <1>e, <1>1, <2>1, ReportFacts DEF ScanMoov, JobOK
  <2>2. CASE ~Report(j, "skipped")
    <3>1. PICK moov : /\ moov = IF b = NoBytes THEN "unknown" ELSE Scan(b.file)
                      /\ moov # "unknown"
                      /\ job' = [job EXCEPT ![j].atEnd = (moov = "end"), ![j].pc = "probe"]
      BY <1>1, <2>2 DEF ScanMoov
    <3>2. moov \in {"front", "end"} /\ moov = Scan(b.file)
      BY <1>0, <1>r, <3>1, StoredScan
    <3>3. /\ job'[j].pc = "probe" /\ job'[j].path = job[j].path
          /\ job'[j].action = Null /\ job'[j].atEnd = (moov = "end")
          /\ \A k \in Job \ {j} : job'[k] = job[k]
      BY <1>0, <1>r, <3>1 DEF TypeOK, Call
    <3>4. tmp'[j] = NoBytes /\ UNCHANGED <<bytes, tmp>>
      BY <1>0, <1>1 DEF ScanMoov, JobOK
    <3>5. ~job'[j].atEnd => Scan(bytes'[job'[j].path].file) = "front"
      BY <3>2, <3>3, <3>4
    <3>6. JobOK(j)'
      BY <1>0, <1>d, <1>r, <3>3, <3>4, <3>5 DEF JobOK
    <3> QED BY <1>e, <3>3, <3>4, <3>6
  <2> QED BY <2>1, <2>2
<1>2. CASE NoBinaries(j)
  BY <1>0, <1>d, <1>e, <1>2, ReportFacts DEF NoBinaries, JobOK
<1>3. CASE Probe(j)
  <2>1. CASE Report(j, "none")
    BY <1>0, <1>d, <1>e, <1>3, <2>1, ReportFacts DEF Probe, JobOK
  <2>2. CASE ~Report(j, "none")
    <3>1. PICK how \in {"transcoded", "remuxed"} :
             job' = [job EXCEPT ![j].pc = "launch", ![j].how = how]
      BY <1>3, <2>2 DEF Probe
    <3>2. how # Null
      BY NullAssumption
    <3>4. /\ job'[j].pc = "launch" /\ job'[j].how = how /\ job'[j].action = Null
          /\ job'[j].path = job[j].path /\ \A k \in Job \ {j} : job'[k] = job[k]
      BY <1>0, <1>r, <3>1 DEF TypeOK, Call
    <3>5. tmp'[j] = NoBytes /\ UNCHANGED <<bytes, tmp>>
      BY <1>0, <1>3 DEF Probe, JobOK
    <3>6. JobOK(j)'
      BY <1>0, <1>d, <1>r, <3>2, <3>4, <3>5 DEF JobOK
    <3> QED BY <1>e, <3>4, <3>5, <3>6
  <2> QED BY <2>1, <2>2
<1>4. CASE Launch(j)
  <2> DEFINE b == bytes[job[j].path]
  <2>1. UNCHANGED bytes /\ job[j].pc = "launch" /\ job[j].how # Null
    BY <1>0, <1>4 DEF Launch, JobOK
  <2>2. CASE Goto(j, "cleanup") /\ UNCHANGED tmp
    BY <1>0, <1>d, <1>e, <1>r, <2>1, <2>2, GotoFacts DEF JobOK
  <2>3. CASE /\ b # NoBytes
             /\ tmp' = [tmp EXCEPT ![j] = [b EXCEPT !.state = "partial"]]
             /\ job' = [job EXCEPT ![j].pc = "encode", ![j].input = b]
    <3>1. b \in Content /\ b.of = owner[job[j].path] /\ b.state = "whole"
      BY <1>0, <1>r, <2>3, ContentFacts DEF ServedIsWhole, TypeOK
    <3>2. [b EXCEPT !.state = "partial"].of = b.of
      BY <3>1 DEF Content
    <3>3. /\ job'[j].pc = "encode" /\ job'[j].how = job[j].how /\ job'[j].action = Null
          /\ job'[j].path = job[j].path /\ job'[j].input = b
          /\ \A k \in Job \ {j} : job'[k] = job[k]
      BY <1>0, <1>r, <2>3 DEF TypeOK, Call
    <3>4. tmp'[j] = [b EXCEPT !.state = "partial"] /\ \A k \in Job \ {j} : tmp'[k] = tmp[k]
      BY <1>0, <2>3 DEF TypeOK
    <3>5. JobOK(j)'
      BY <1>0, <1>d, <1>r, <2>1, <3>1, <3>2, <3>3, <3>4 DEF JobOK
    <3> QED BY <1>e, <2>1, <3>3, <3>4, <3>5
  <2> QED BY <1>4, <2>2, <2>3 DEF Launch
<1>5. CASE Encoded(j)
  <2>1. /\ job[j].input \in Content /\ UNCHANGED bytes /\ job[j].how # Null
        /\ job[j].input.of = owner[job[j].path] /\ job[j].input.state = "whole"
    BY <1>0, <1>5, InvIsTyped DEF Encoded, JobOK, Typed
  <2>2. CASE Goto(j, "cleanup") /\ UNCHANGED tmp
    BY <1>0, <1>d, <1>e, <1>r, <2>1, <2>2, GotoFacts DEF JobOK
  <2>3. ASSUME NEW t, t.of = owner[job[j].path],
               t.state = "empty" \/ (t.state = "whole" /\ t.file = Faststart),
               Goto(j, "stat"), tmp' = [tmp EXCEPT ![j] = t]
        PROVE  JobOK(j)' /\ \A k \in Job \ {j} : job'[k] = job[k] /\ tmp'[k] = tmp[k]
    <3>1. tmp'[j] = t /\ \A k \in Job \ {j} : tmp'[k] = tmp[k]
      BY <1>0, <2>3 DEF TypeOK
    <3>2. /\ job'[j].pc = "stat" /\ job'[j].path = job[j].path
          /\ job'[j].how # Null /\ job'[j].action = Null
          /\ \A k \in Job \ {j} : job'[k] = job[k]
      BY <1>0, <1>r, <2>1, <2>3, GotoFacts
    <3>3. JobOK(j)'
      BY <1>0, <1>d, <1>r, <2>3, <3>1, <3>2 DEF JobOK
    <3> QED BY <3>1, <3>2, <3>3
  <2>4. /\ [job[j].input EXCEPT !.state = "empty"].of = job[j].input.of
        /\ [job[j].input EXCEPT !.state = "empty"].state = "empty"
    BY <2>1 DEF Content
  <2> DEFINE t == Rewritten(job[j].input, job[j].how)
  <2>5. t.of = owner[job[j].path] /\ t.state = "whole" /\ t.file = Faststart
    BY <2>1, RewrittenType
  <2>6. \/ Goto(j, "stat") /\ tmp' = [tmp EXCEPT ![j] = t]
        \/ Goto(j, "stat") /\ tmp' = [tmp EXCEPT ![j] = [job[j].input EXCEPT !.state = "empty"]]
        \/ Goto(j, "cleanup") /\ UNCHANGED tmp
    BY <1>5 DEF Encoded
  <2> HIDE DEF t
  <2>7. CASE Goto(j, "stat") /\ tmp' = [tmp EXCEPT ![j] = t]
    BY <1>e, <2>1, <2>3, <2>5, <2>7
  <2>8. CASE /\ Goto(j, "stat")
             /\ tmp' = [tmp EXCEPT ![j] = [job[j].input EXCEPT !.state = "empty"]]
    BY <1>e, <2>1, <2>3, <2>4, <2>8
  <2> QED BY <2>2, <2>6, <2>7, <2>8
<1>6. CASE VerifyTmp(j)
  <2>1. /\ tmp[j].of = owner[job[j].path] /\ UNCHANGED <<bytes, tmp>>
        /\ tmp[j].state = "empty" \/ (tmp[j].state = "whole" /\ tmp[j].file = Faststart)
        /\ job[j].how # Null
    BY <1>0, <1>6 DEF VerifyTmp, JobOK
  <2>2. CASE Goto(j, "cleanup")
    BY <1>0, <1>d, <1>e, <1>r, <2>1, <2>2, GotoFacts DEF JobOK
  <2>3. CASE Goto(j, "rename") /\ tmp[j].state # "empty"
    BY <1>0, <1>d, <1>e, <1>r, <2>1, <2>3, GotoFacts DEF JobOK
  <2> QED BY <1>6, <2>1, <2>2, <2>3 DEF VerifyTmp
<1>7. CASE Replace(j)
  <2>1. /\ tmp[j].of = owner[job[j].path] /\ tmp[j].state = "whole"
        /\ tmp[j].file = Faststart /\ tmp[j] # NoBytes
    BY <1>0, <1>7, ContentFacts DEF Replace, JobOK, TypeOK
  <2>2. job[j].how \in {"remuxed", "transcoded"}
    BY <1>0, <1>7, <1>r DEF Replace, JobOK, Call
  <2>3. /\ bytes' = [bytes EXCEPT ![job[j].path] = tmp[j]]
        /\ tmp' = [tmp EXCEPT ![j] = NoBytes]
        /\ Report(j, job[j].how)
    BY <1>7, <2>1 DEF Replace
  <2>4. job'[j].pc = "done" /\ \A k \in Job \ {j} : job'[k] = job[k]
    BY <1>0, <2>2, <2>3, ReportFacts
  <2>5. /\ bytes'[job[j].path] = tmp[j] /\ Scan(bytes'[job[j].path].file) = "front"
        /\ \A p \in Path \ {job[j].path} : bytes'[p] = bytes[p]
    BY <1>0, <1>r, <2>1, <2>3, FaststartIsFront DEF TypeOK
  <2>6. ServedIsWhole' /\ KeepsFront
    BY <1>0, <2>1, <2>5 DEF ServedIsWhole, KeepsFront
  <2>7. tmp'[j] = NoBytes /\ \A k \in Job \ {j} : tmp'[k] = tmp[k]
    BY <1>0, <2>3 DEF TypeOK
  <2> QED BY <1>d, <2>4, <2>6, <2>7 DEF JobOK
<1>8. CASE Cleanup(j)
  BY <1>0, <1>d, <1>e, <1>8, ReportFacts DEF Cleanup, TypeOK, JobOK
<1> QED BY <1>1, <1>2, <1>3, <1>4, <1>5, <1>6, <1>7, <1>8 DEF JobStep

\* A call that starts, a job that dies, and what happens to artifacts keep it too, if
\* artifacts are not removed under a job.
LEMMA OtherInv ==
  ASSUME Inv, Races = {},
         \/ \E j \in Job : \/ \E p \in Path, transcode \in BOOLEAN : Start(j, p, transcode)
                           \/ Crash(j)
         \/ \E p \in Path : \/ Remove(p)
                            \/ \E u \in Upload, f \in File, codec \in Codec :
                                 Complete(p, u, f, codec)
  PROVE  Inv'
<1>0. TypeOK /\ ServedIsWhole /\ (\A k \in Job : JobOK(k)) /\ TypeOK'
  <2>1. Next
    BY DEF Next
  <2> QED BY <2>1, InvIsTyped, TypedStep DEF Inv, Typed
<1>e. UNCHANGED bytes => KeepsFront
  BY DEF KeepsFront
<1>1. ASSUME NEW j \in Job, NEW p \in Path, NEW transcode \in BOOLEAN,
             Start(j, p, transcode)
      PROVE  Inv'
  <2>1. /\ job'[j].pc = "scan" /\ job'[j].path = p /\ job'[j].action = Null
        /\ \A k \in Job \ {j} : job'[k] = job[k]
    BY <1>0, <1>1 DEF Start, TypeOK, Idle
  <2>2. JobOK(j)'
    BY <1>0, <1>1, <2>1 DEF Start, Running, JobOK
  <2>3. ASSUME NEW k \in Job \ {j} PROVE JobOK(k)'
    BY <1>0, <1>e, <1>1, <2>1, JobOKIsLocal DEF Start
  <2> QED BY <1>0, <1>1, <2>2, <2>3 DEF Start, Inv, ServedIsWhole
<1>2. ASSUME NEW j \in Job, Crash(j) PROVE Inv'
  <2>1. /\ job'[j].pc \in {"idle", "dead"} /\ job'[j].action = Null
        /\ job'[j].pc = "idle" => tmp'[j] = NoBytes
        /\ \A k \in Job \ {j} : job'[k] = job[k] /\ tmp'[k] = tmp[k]
    BY <1>0, <1>2 DEF Crash, TypeOK, Idle, TmpName
  <2>2. JobOK(j)'
    <3>1. NoBytes # Debris
      BY DEF NoBytes, Debris
    <3> QED BY <2>1, <3>1 DEF JobOK, Over
  <2>3. ASSUME NEW k \in Job \ {j} PROVE JobOK(k)'
    BY <1>0, <1>e, <1>2, <2>1, JobOKIsLocal DEF Crash
  <2> QED BY <1>0, <1>2, <2>2, <2>3 DEF Crash, Inv, ServedIsWhole
<1>3. ASSUME NEW p \in Path, Remove(p) PROVE Inv'
  <2>1. \A j \in Job : Running(j) => job[j].path # p
    BY <1>3 DEF Remove
  <2>2. ServedIsWhole'
    BY <1>0, <1>3 DEF Remove, TypeOK, ServedIsWhole
  <2>3. ASSUME NEW j \in Job PROVE JobOK(j)'
    BY <1>0, <1>3, <2>1 DEF Remove, Running, TypeOK, JobOK, Over
  <2> QED BY <1>0, <2>2, <2>3 DEF Inv
<1>4. ASSUME NEW p \in Path, NEW u \in Upload, NEW f \in File, NEW codec \in Codec,
             Complete(p, u, f, codec)
      PROVE  Inv'
  <2>1. ServedIsWhole'
    BY <1>0, <1>4 DEF Complete, TypeOK, ServedIsWhole
  <2>2. ASSUME NEW j \in Job PROVE JobOK(j)'
    BY <1>0, <1>4 DEF Complete, TypeOK, JobOK, Over
  <2> QED BY <1>0, <2>1, <2>2 DEF Inv
<1> QED BY <1>1, <1>2, <1>3, <1>4

\* Inv holds in every reachable state, if artifacts are not removed under a job.
THEOREM Invariant == ASSUME Races = {} PROVE Spec => []Inv
<1>1. Inv /\ [Next]_vars => Inv'
  <2> SUFFICES ASSUME Inv, [Next]_vars PROVE Inv'
    OBVIOUS
  <2>1. CASE Next
    BY <2>1, StepInv, OtherInv DEF Next
  <2>2. CASE UNCHANGED vars
    BY <2>2 DEF vars, Inv, TypeOK, ServedIsWhole, JobOK
  <2> QED BY <2>1, <2>2
<1> QED BY InitInv, <1>1, PTL DEF Spec

\* A ready artifact's file is always whole and its own upload's: no number of
\* concurrent rewrites, failures, empty outputs and crashes shows in what is served.
THEOREM ServedIsAlwaysWhole == ASSUME Races = {} PROVE Spec => []ServedIsWhole
<1>1. Inv => ServedIsWhole
  BY DEF Inv
<1> QED BY Invariant, <1>1, PTL

\* A moov that is at the front of a ready artifact's file stays there while the
\* artifact is that upload's, whatever the jobs that rewrite it do.
THEOREM FaststartStaysThere == ASSUME Races = {} PROVE Spec => FaststartStays
<1> DEFINE Step(p) ==
       /\ owner[p] # Null /\ owner'[p] = owner[p] /\ Scan(bytes[p].file) = "front"
       => Scan(bytes'[p].file) = "front"
<1>1. Inv /\ [Next]_vars => [\A p \in Path : Step(p)]_vars
  <2> SUFFICES ASSUME Inv, Next PROVE \A p \in Path : Step(p)
    OBVIOUS
  <2>0. TypeOK
    BY DEF Inv
  <2>1. CASE \E j \in Job : JobStep(j)
    BY <2>1, StepInv DEF KeepsFront
  <2>2. CASE \E j \in Job : \/ \E p \in Path, transcode \in BOOLEAN : Start(j, p, transcode)
                            \/ Crash(j)
    BY <2>2 DEF Start, Crash
  <2>3. ASSUME NEW p \in Path, Remove(p) PROVE \A q \in Path : Step(q)
    BY <2>0, <2>3 DEF Remove, TypeOK
  <2>4. ASSUME NEW p \in Path, NEW u \in Upload, NEW f \in File, NEW codec \in Codec,
               Complete(p, u, f, codec)
        PROVE  \A q \in Path : Step(q)
    BY <2>0, <2>4 DEF Complete, TypeOK
  <2> QED BY <2>1, <2>2, <2>3, <2>4 DEF Next
<1> QED BY Invariant, <1>1, PTL DEF Spec, FaststartStays

\* A job that reports what it did to a file, or that nothing was to do, tells the truth
\* when it does, whatever other jobs did to the file meanwhile.
THEOREM ReportIsAlwaysTrue == ASSUME Races = {} PROVE Spec => ReportIsTrue
<1> DEFINE Step(j) == /\ Running(j) /\ job'[j].action \in {"none", "remuxed", "transcoded"}
                      => Scan(bytes'[job[j].path].file) = "front"
<1>1. Inv /\ [Next]_vars => [\A j \in Job : Step(j)]_vars
  <2> SUFFICES ASSUME Inv, Next, NEW j \in Job PROVE Step(j)
    OBVIOUS
  <2>0. TypeOK /\ JobOK(j) /\ Null \notin {"none", "remuxed", "transcoded"}
    BY NullAssumption DEF Inv
  <2>1. CASE job'[j] = job[j]
    BY <2>0, <2>1 DEF JobOK, Running, Over
  <2>2. CASE JobStep(j)
    <3>1. ASSUME Report(j, "skipped") PROVE Step(j)
      BY <2>0, <3>1, ReportFacts
    <3>2. ASSUME NEW pc \in {"cleanup", "stat", "rename"}, Goto(j, pc) PROVE Step(j)
      BY <2>0, <3>2, GotoFacts DEF JobOK, Running, Over
    <3>3. ASSUME job'[j].action = job[j].action PROVE Step(j)
      BY <2>0, <3>3 DEF JobOK, Running, Over
    <3>4. CASE ScanMoov(j)
      <4>1. Report(j, "skipped") \/ job'[j].action = job[j].action
        BY <2>0, <3>4 DEF ScanMoov, TypeOK, Call
      <4> QED BY <3>1, <3>3, <4>1
    <3>5. CASE Probe(j)
      <4>1. CASE ~job[j].atEnd
        BY <2>0, <3>5, <4>1 DEF Probe, JobOK
      <4>2. CASE job[j].atEnd
        <5>1. job'[j].action = job[j].action
          BY <2>0, <3>5, <4>2 DEF Probe, TypeOK, Call
        <5> QED BY <3>3, <5>1
      <4> QED BY <4>1, <4>2
    <3>6. CASE Launch(j)
      <4>1. Goto(j, "cleanup") \/ job'[j].action = job[j].action
        BY <2>0, <3>6 DEF Launch, TypeOK, Call
      <4> QED BY <3>2, <3>3, <4>1
    <3>7. CASE Replace(j)
      <4>1. CASE tmp[j] = NoBytes
        BY <3>2, <3>7, <4>1 DEF Replace, TmpName
      <4>2. CASE tmp[j] # NoBytes
        <5>1. bytes' = [bytes EXCEPT ![job[j].path] = tmp[j]]
          BY <3>7, <4>2 DEF Replace, TmpName
        <5>2. tmp[j].file = Faststart /\ job[j].path \in Path
          BY <2>0, <3>7 DEF Replace, JobOK, Over
        <5> QED BY <2>0, <5>1, <5>2, FaststartIsFront DEF TypeOK
      <4> QED BY <4>1, <4>2
    <3> QED BY <2>2, <3>1, <3>2, <3>4, <3>5, <3>6, <3>7
            DEF JobStep, NoBinaries, Encoded, VerifyTmp, Cleanup
  <2>3. CASE job'[j] # job[j] /\ ~JobStep(j)
    <3>1. job'[j].action = Null
      <4>1. ASSUME NEW k \in Job, JobStep(k) PROVE k = j \/ job'[j] = job[j]
        BY <2>0, <4>1 DEF JobStep, ScanMoov, NoBinaries, Probe, Launch, Encoded, VerifyTmp,
           Replace, Cleanup, Report, Goto, TypeOK
      <4>2. ASSUME NEW k \in Job, NEW p \in Path, NEW transcode \in BOOLEAN,
                   Start(k, p, transcode)
            PROVE  job'[j] = job[j] \/ job'[j].action = Null
        BY <2>0, <4>2 DEF Start, TypeOK, Idle
      <4>3. ASSUME NEW k \in Job, Crash(k) PROVE job'[j] = job[j] \/ job'[j].action = Null
        BY <2>0, <4>3 DEF Crash, TypeOK, Idle
      <4>4. ASSUME NEW p \in Path,
                   \/ Remove(p)
                   \/ \E u \in Upload, f \in File, codec \in Codec : Complete(p, u, f, codec)
            PROVE  job' = job
        BY <4>4 DEF Remove, Complete
      <4> QED BY <2>3, <4>1, <4>2, <4>3, <4>4 DEF Next
    <3> QED BY <2>0, <3>1
  <2> QED BY <2>1, <2>2, <2>3
<1> QED BY Invariant, <1>1, PTL DEF Spec, ReportIsTrue

\* Where nothing is removed under a job, remove really deletes: a rewrite that ends
\* puts its bytes only where an upload's were.
THEOREM RemovedIsGone == ASSUME Races = {} PROVE Spec => []RemovedStaysGone
<1>1. Init => RemovedStaysGone
  BY DEF Init, RemovedStaysGone
<1>2. Inv /\ RemovedStaysGone /\ [Next]_vars => RemovedStaysGone'
  <2> SUFFICES ASSUME Inv, RemovedStaysGone, [Next]_vars,
                      NEW p \in Path, owner'[p] = Null
               PROVE  bytes'[p] = NoBytes
    BY DEF RemovedStaysGone
  <2>0. TypeOK /\ (owner[p] = Null => bytes[p] = NoBytes) /\ Null \notin Upload
    BY NullAssumption DEF Inv, RemovedStaysGone
  <2>1. ASSUME NEW j \in Job, JobStep(j) PROVE bytes'[p] = NoBytes
    <3>1. owner' = owner
      BY <2>1 DEF JobStep, ScanMoov, NoBinaries, Probe, Launch, Encoded, VerifyTmp,
         Replace, Cleanup
    <3>2. CASE Replace(j)
      <4>1. owner[job[j].path] # Null
        BY <3>2 DEF Inv, JobOK, Replace, Over
      <4>2. bytes'[p] = bytes[p]
        BY <2>0, <3>1, <3>2, <4>1 DEF Replace, TypeOK
      <4> QED BY <2>0, <3>1, <4>2
    <3>3. CASE ~Replace(j)
      <4>1. bytes' = bytes
        BY <2>1, <3>3 DEF JobStep, ScanMoov, NoBinaries, Probe, Launch, Encoded, VerifyTmp,
           Cleanup
      <4> QED BY <2>0, <3>1, <4>1
    <3> QED BY <3>2, <3>3
  <2>2. CASE \E j \in Job : \/ \E q \in Path, transcode \in BOOLEAN : Start(j, q, transcode)
                            \/ Crash(j)
    BY <2>0, <2>2 DEF Start, Crash
  <2>3. ASSUME NEW q \in Path, Remove(q) PROVE bytes'[p] = NoBytes
    BY <2>0, <2>3 DEF Remove, TypeOK
  <2>4. ASSUME NEW q \in Path, NEW u \in Upload, NEW f \in File, NEW codec \in Codec,
               Complete(q, u, f, codec)
        PROVE  bytes'[p] = NoBytes
    BY <2>0, <2>4 DEF Complete, TypeOK
  <2>5. CASE UNCHANGED vars
    BY <2>0, <2>5 DEF vars
  <2> QED BY <2>1, <2>2, <2>3, <2>4, <2>5 DEF Next
<1> QED BY <1>1, <1>2, Invariant, PTL DEF Spec
=============================================================================
