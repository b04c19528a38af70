----------------------- MODULE ClusterSupervisor_proofs -----------------------
(* Proofs about the pool of workers, for any number of them. *)
EXTENDS ClusterSupervisor, FiniteSetTheorems, TLAPS

LEMMA PoolSize == workers \in Nat /\ workers > 0
<1>1. workers \in Nat
  BY PositionAssumption, FS_CardinalityType DEF workers
<1>2. workers # 0
  BY PositionAssumption, FS_EmptySet DEF workers
<1> QED
  BY <1>1, <1>2

LEMMA Limits == MAX_RAPID_CRASHES \in Nat /\ Enough \in Nat /\ Enough > 0
<1>1. MAX_RAPID_CRASHES \in Nat
  BY PoolSize DEF MAX_RAPID_CRASHES
<1> DEFINE m == MAX_RAPID_CRASHES
           n == workers
<1>2. m \in Nat /\ n \in Nat /\ n > 0
  BY <1>1, PoolSize
<1> HIDE DEF m, n
<1>3. m \div n \in Nat
  BY <1>2
<1> QED
  BY <1>1, <1>3 DEF Enough, m, n

\* Every step keeps the types.
LEMMA TypeStep ==
  ASSUME TypeOK, [Next]_vars
  PROVE  TypeOK'
<1> DEFINE Worker == [is : {"live", "dead", "gone"}, old : BOOLEAN]
<1>1. /\ \A w \in Position : proc[w] \in Worker
      /\ \A w \in Position :
           /\ [proc[w] EXCEPT !.is = "dead"] \in Worker
           /\ [proc[w] EXCEPT !.is = "gone"] \in Worker
           /\ [proc[w] EXCEPT !.old = TRUE] \in Worker
           /\ [proc[w] EXCEPT !.is = "dead"].is = "dead"
           /\ [proc[w] EXCEPT !.old = TRUE].is = proc[w].is
      /\ Forked \in Worker /\ Forked.is = "live"
  BY DEF TypeOK, Forked
<1> HIDE DEF Worker
<1>2. proc \in [Position -> Worker] /\ streak \in [Position -> 0..Enough]
  BY DEF TypeOK, Worker
<1>3. ASSUME NEW w \in Position, Ripen(w) PROVE TypeOK'
  BY <1>1, <1>2, <1>3 DEF Ripen, TypeOK, Worker, Ended, Running
<1>4. ASSUME NEW w \in Position, Die(w) PROVE TypeOK'
  BY <1>1, <1>2, <1>4 DEF Die, TypeOK, Worker, Ended, Running
<1>5. ASSUME NEW w \in Position, ExitWhileDraining(w) PROVE TypeOK'
  <2>1. /\ proc' \in [Position -> Worker]
        /\ UNCHANGED <<listed, rapidCrashes, shuttingDown, killed, streak>>
    BY <1>1, <1>2, <1>5 DEF ExitWhileDraining
  <2>2. /\ Running /\ primary' = "exit0"
    BY <1>5 DEF ExitWhileDraining, Exited, TypeOK
  <2>3. rapidCrashes' \in 0..MAX_RAPID_CRASHES /\ rapidCrashes' \in 0..(MAX_RAPID_CRASHES + 1)
    BY <2>1, <2>2, Limits DEF TypeOK
  <2> QED
    BY <2>1, <2>2, <2>3 DEF TypeOK, Worker, Running, Ended
<1>6. ASSUME NEW w \in Position, Respawn(w) PROVE TypeOK'
  <2>1. proc' = [proc EXCEPT ![w] = Forked]
    BY <1>6 DEF Respawn, Replacement
  <2>2. proc' \in [Position -> Worker]
        /\ \A v \in Position : proc'[v].is = "gone" => proc[v].is = "gone"
    BY <1>1, <1>2, <2>1
  <2>3. rapidCrashes' \in 0..MAX_RAPID_CRASHES
    BY <1>6, Limits DEF Respawn, Exited, Running, Count, TypeOK
  <2>4. streak' \in [Position -> 0..Enough]
    BY <1>2, <1>6, Limits DEF Respawn
  <2>5. UNCHANGED <<listed, shuttingDown, primary, killed>>
    BY <1>6 DEF Respawn
  <2> QED
    BY <2>2, <2>3, <2>4, <2>5, Limits DEF TypeOK, Worker, Ended, Running
<1>7. ASSUME NEW w \in Position, GiveUp(w) PROVE TypeOK'
  <2>1. proc' \in [Position -> Worker]
    BY <1>1, <1>2, <1>7 DEF GiveUp
  <2>2. rapidCrashes' \in 0..(MAX_RAPID_CRASHES + 1)
    BY <1>7, Limits DEF GiveUp, Exited, Running, Count, TypeOK
  <2>3. streak' \in [Position -> 0..Enough]
    BY <1>2, <1>7, Limits DEF GiveUp
  <2>4. primary' = "exit1" /\ UNCHANGED <<listed, shuttingDown, killed>>
    BY <1>7 DEF GiveUp
  <2> QED
    BY <2>1, <2>2, <2>3, <2>4 DEF TypeOK, Worker, Ended, Running
<1>8. CASE Shutdown
  BY <1>8 DEF Shutdown, TypeOK, Ended, Running
<1>9. CASE SecondSignal \/ GraceElapsed
  BY <1>9, Limits DEF SecondSignal, GraceElapsed, ForceKill, TypeOK, Ended, Running
<1>10. CASE UNCHANGED vars
  BY <1>10 DEF vars, TypeOK, Ended, Running
<1> QED
  BY <1>3, <1>4, <1>5, <1>6, <1>7, <1>8, <1>9, <1>10 DEF Next, Exit

\* Every variable keeps its type, whatever the size of the pool; in particular no position
\* is left empty while the primary runs.
THEOREM TypeCorrect == Spec => []TypeOK
<1>1. Init => TypeOK
  <2> SUFFICES ASSUME Init PROVE TypeOK
    OBVIOUS
  <2>1. Forked \in [is : {"live", "dead", "gone"}, old : BOOLEAN]
        /\ Forked.is = "live"
    BY DEF Forked
  <2>2. /\ proc \in [Position -> [is : {"live", "dead", "gone"}, old : BOOLEAN]]
        /\ \A w \in Position : proc[w].is = "live"
    BY <2>1 DEF Init
  <2>3. rapidCrashes \in 0..MAX_RAPID_CRASHES /\ streak \in [Position -> 0..Enough]
    BY Limits DEF Init
  <2>4. /\ shuttingDown \in BOOLEAN /\ ~shuttingDown
        /\ listed \subseteq Position /\ killed \subseteq Position /\ primary = "running"
    BY DEF Init
  <2> QED
    BY <2>2, <2>3, <2>4 DEF TypeOK, Running
<1>2. TypeOK /\ [Next]_vars => TypeOK'
  BY TypeStep
<1> QED
  BY <1>1, <1>2, PTL DEF Spec

-----------------------------------------------------------------------------
\* The rapid crashes in a row of each position, numbered.
Streaks == {x \in Position \X (1..Enough) : x[2] <= streak[x[1]]}

\* Rapid crashes since the counter was last reset are in somebody's streak, as far as
\* streaks are counted.
LoopInv ==
  /\ (\E w \in Position : streak[w] >= Enough) \/ rapidCrashes <= Cardinality(Streaks)
  /\ GivesUpOnlyInACrashLoop

LEMMA StreaksAreFinite ==
  ASSUME TypeOK
  PROVE  IsFiniteSet(Streaks) /\ Cardinality(Streaks) \in Nat
<1>1. IsFiniteSet(Position \X (1..Enough))
  <2>1. Enough \in Int
    BY Limits
  <2>2. IsFiniteSet(1..Enough)
    BY <2>1, FS_Interval
  <2> QED
    BY <2>2, PositionAssumption, FS_Product
<1>2. IsFiniteSet(Streaks)
  BY <1>1, FS_Subset DEF Streaks
<1> QED
  BY <1>2, FS_CardinalityType

\* If no position crashed more than its share in a row, the crashes are tolerated.
Tolerated ==
  (\A w \in Position : streak[w] < Enough) => Cardinality(Streaks) <= MAX_RAPID_CRASHES

LEMMA SharesAreTolerated ==
  ASSUME TypeOK
  PROVE  Tolerated
<1> SUFFICES ASSUME \A w \in Position : streak[w] < Enough
             PROVE  Cardinality(Streaks) <= MAX_RAPID_CRASHES
  BY DEF Tolerated
<1> DEFINE m == MAX_RAPID_CRASHES
           n == workers
           share == m \div n
<1>1. m \in Nat /\ n \in Nat /\ n > 0
  BY Limits, PoolSize
<1>2. Enough = share + 1
  BY DEF Enough
<1>3. n = Cardinality(Position) /\ MAX_RAPID_CRASHES = m
  BY DEF workers
<1> HIDE DEF m, n
<1>4. share \in Nat /\ n * share <= m
  BY <1>1
<1> HIDE DEF share
<1>5. IsFiniteSet(1..share) /\ Cardinality(1..share) = share
  BY <1>4, FS_Interval
<1>6. /\ IsFiniteSet(Position \X (1..share))
      /\ Cardinality(Position \X (1..share)) = n * share
  BY <1>3, <1>5, PositionAssumption, FS_Product
<1>7. Streaks \in SUBSET (Position \X (1..share))
  BY <1>2, <1>4 DEF Streaks, TypeOK
<1>8. Cardinality(Streaks) <= n * share /\ Cardinality(Streaks) \in Nat
  BY <1>6, <1>7, FS_Subset, StreaksAreFinite
<1> QED
  BY <1>1, <1>3, <1>4, <1>8

\* One more rapid crash of a position is one more in its streak.
LEMMA OneMoreCrash ==
  ASSUME TypeOK, NEW w \in Position, streak[w] < Enough,
         streak' = [streak EXCEPT ![w] = @ + 1]
  PROVE  Cardinality(Streaks)' = Cardinality(Streaks) + 1
<1> DEFINE x == <<w, streak[w] + 1>>
<1>1. streak[w] \in 0..Enough /\ streak \in [Position -> 0..Enough] /\ Enough \in Nat
  BY Limits DEF TypeOK
<1>2. x \notin Streaks
  BY <1>1 DEF Streaks
<1>3. Streaks' = Streaks \cup {x}
  <2>1. ASSUME NEW v \in Position, NEW k \in 1..Enough
        PROVE  k <= streak'[v] <=> k <= streak[v] \/ <<v, k>> = x
    BY <1>1
  <2>2. Enough' = Enough
    BY DEF Enough, MAX_RAPID_CRASHES, workers
  <2>3. x \in Position \X (1..Enough)
    BY <1>1
  <2> QED
    BY <2>1, <2>2, <2>3 DEF Streaks
<1> HIDE DEF x
<1> QED
  BY <1>2, <1>3, StreaksAreFinite, FS_AddElement

\* A worker's exit, whatever follows it, counts on the streak what it counts.
LEMMA ExitIsCounted ==
  ASSUME TypeOK, TypeOK', LoopInv, NEW w \in Position,
         rapidCrashes' = Count(w),
         streak' = [streak EXCEPT ![w] =
                      IF ~Rapid(w) THEN 0 ELSE IF @ < Enough THEN @ + 1 ELSE @]
  PROVE  (\E v \in Position : streak'[v] >= Enough) \/ rapidCrashes' <= Cardinality(Streaks)'
<1>1. /\ streak \in [Position -> 0..Enough] /\ rapidCrashes \in Nat
      /\ Enough \in Nat /\ Cardinality(Streaks)' \in Nat
  <2>1. IsFiniteSet(Streaks)' /\ (Cardinality(Streaks) \in Nat)'
    BY StreaksAreFinite, PTL
  <2> QED
    BY <2>1, Limits DEF TypeOK
<1>2. CASE ~Rapid(w)
  BY <1>1, <1>2 DEF Count
<1>3. CASE Rapid(w) /\ \E v \in Position : streak[v] >= Enough
  <2>1. PICK v \in Position : streak[v] >= Enough
    BY <1>3
  <2>2. streak'[v] >= Enough
    BY <1>1, <1>3, <2>1
  <2> QED
    BY <2>2
<1>4. CASE Rapid(w) /\ ~\E v \in Position : streak[v] >= Enough
  <2>0. streak[w] < Enough
    BY <1>1, <1>4
  <2>1. streak[w] < Enough /\ streak' = [streak EXCEPT ![w] = @ + 1]
    BY <1>4, <2>0 DEF Rapid
  <2>2. Cardinality(Streaks)' = Cardinality(Streaks) + 1
    BY <2>1, OneMoreCrash
  <2>3. rapidCrashes <= Cardinality(Streaks) /\ rapidCrashes' = rapidCrashes + 1
    BY <1>4 DEF LoopInv, Count
  <2> QED
    BY <1>1, <2>2, <2>3, StreaksAreFinite
<1> QED
  BY <1>2, <1>3, <1>4

\* Every step keeps count.
LEMMA LoopStep ==
  ASSUME TypeOK, TypeOK', LoopInv, [Next]_vars
  PROVE  LoopInv'
<1>1. ASSUME UNCHANGED <<rapidCrashes, streak>>,
             (primary' = "exit1" /\ ~shuttingDown') =>
               \/ primary = "exit1" /\ ~shuttingDown
      PROVE  LoopInv'
  <2>1. Streaks' = Streaks
    BY <1>1 DEF Streaks, Enough, MAX_RAPID_CRASHES, workers
  <2>2. Enough' = Enough
    BY DEF Enough, MAX_RAPID_CRASHES, workers
  <2> QED
    BY <1>1, <2>1, <2>2 DEF LoopInv, GivesUpOnlyInACrashLoop
<1>2. ASSUME NEW w \in Position, Ripen(w) \/ Die(w) PROVE LoopInv'
  BY <1>1, <1>2 DEF Ripen, Die
<1>3. ASSUME NEW w \in Position, ExitWhileDraining(w) PROVE LoopInv'
  BY <1>1, <1>3 DEF ExitWhileDraining
<1>4. ASSUME NEW w \in Position, Respawn(w) PROVE LoopInv'
  <2>1. /\ rapidCrashes' = Count(w) /\ primary' = "running"
        /\ streak' = [streak EXCEPT ![w] =
                        IF ~Rapid(w) THEN 0 ELSE IF @ < Enough THEN @ + 1 ELSE @]
    BY <1>4 DEF Respawn, Exited, Running
  <2> QED
    BY <2>1, ExitIsCounted DEF LoopInv, GivesUpOnlyInACrashLoop
<1>5. ASSUME NEW w \in Position, GiveUp(w) PROVE LoopInv'
  <2>1. /\ rapidCrashes' = Count(w) /\ Count(w) > MAX_RAPID_CRASHES
        /\ streak' = [streak EXCEPT ![w] = IF @ < Enough THEN @ + 1 ELSE @]
    BY <1>5 DEF GiveUp
  <2>2. Rapid(w)
    BY <2>1, Limits DEF Count
  <2>3. (\E v \in Position : streak'[v] >= Enough) \/ rapidCrashes' <= Cardinality(Streaks)'
    BY <2>1, <2>2, ExitIsCounted
  <2>4. Tolerated' /\ (IsFiniteSet(Streaks) /\ Cardinality(Streaks) \in Nat)'
    BY SharesAreTolerated, StreaksAreFinite, PTL
  <2>5. MAX_RAPID_CRASHES' = MAX_RAPID_CRASHES /\ Enough' = Enough
    BY DEF Enough, MAX_RAPID_CRASHES, workers
  <2>6. \E v \in Position : streak'[v] >= Enough
    <3>1. SUFFICES ASSUME ~\E v \in Position : streak'[v] >= Enough PROVE FALSE
      OBVIOUS
    <3>2. \A v \in Position : streak'[v] < Enough
      BY <2>5, <3>1, Limits DEF TypeOK
    <3>3. Cardinality(Streaks)' <= MAX_RAPID_CRASHES /\ Cardinality(Streaks)' \in Nat
      BY <2>4, <2>5, <3>2 DEF Tolerated
    <3> QED
      BY <2>1, <2>3, <3>1, <3>3, Limits DEF TypeOK
  <2> QED
    BY <2>3, <2>5, <2>6 DEF LoopInv, GivesUpOnlyInACrashLoop
<1>6. CASE Shutdown
  BY <1>1, <1>6 DEF Shutdown
<1>7. CASE SecondSignal \/ GraceElapsed
  BY <1>1, <1>7 DEF SecondSignal, GraceElapsed, ForceKill
<1>8. CASE UNCHANGED vars
  BY <1>1, <1>8 DEF vars
<1> QED
  BY <1>2, <1>3, <1>4, <1>5, <1>6, <1>7, <1>8 DEF Next, Exit

\* The primary gives up only if some position crashed at boot more than its share of the
\* crashes tolerated, in a row, whatever the size of the pool and the order of exits.
THEOREM GivesUpOnlyInACrashLoopHolds == Spec => []GivesUpOnlyInACrashLoop
<1>1. Init /\ TypeOK => LoopInv
  BY StreaksAreFinite DEF Init, LoopInv, GivesUpOnlyInACrashLoop
<1>2. TypeOK /\ TypeOK' /\ LoopInv /\ [Next]_vars => LoopInv'
  BY LoopStep
<1>3. LoopInv => GivesUpOnlyInACrashLoop
  BY DEF LoopInv
<1> QED
  BY <1>1, <1>2, <1>3, TypeCorrect, PTL DEF Spec
=============================================================================
