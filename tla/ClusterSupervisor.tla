-------------------------- MODULE ClusterSupervisor --------------------------
(***************************************************************************)
(* The primary process of examples/fastify-auth-demo/cluster.mjs (and of   *)
(* fastify-demo/cluster.mjs, which has the same code): it forks a worker   *)
(* per core, replaces those that exit, gives up in a crash loop, and       *)
(* drains the workers when it is told to stop.                             *)
(*                                                                         *)
(* A position of the pool is held by one worker and then by its            *)
(* replacement.  cluster.workers is read only after a shutdown began, and  *)
(* the shutdown empties it: in the primary, Node's worker.disconnect()     *)
(* takes the worker off the list at once, not when the worker has ended.   *)
(* So the module leaves out when an exit takes a worker off the list.      *)
(***************************************************************************)
EXTENDS Integers, FiniteSets

CONSTANT Position   \* the workers the primary keeps running

ASSUME PositionAssumption == IsFiniteSet(Position) /\ Position # {}

VARIABLES
  proc,           \* the worker in each position
  listed,         \* the positions whose worker is in cluster.workers
  rapidCrashes,
  shuttingDown,
  primary,        \* running, or how it exited
  killed,         \* the workers that were sent SIGKILL
  streak          \* history: rapid crashes in a row in each position

vars == <<proc, listed, rapidCrashes, shuttingDown, primary, killed, streak>>

-----------------------------------------------------------------------------

workers == Cardinality(Position)
MAX_RAPID_CRASHES == workers * 2 + 4

\* More than its share of the crashes the primary tolerates.
Enough == MAX_RAPID_CRASHES \div workers + 1

\* A worker: live, dead (the primary has not heard), or gone; old once MIN_HEALTHY_MS have
\* passed since the fork.
Forked == [is |-> "live", old |-> FALSE]

Running == primary = "running"
Ended == ~Running

Init ==
  /\ proc = [w \in Position |-> Forked]
  /\ listed = Position /\ rapidCrashes = 0
  /\ shuttingDown = FALSE /\ primary = "running" /\ killed = {}
  /\ streak = [w \in Position |-> 0]

-----------------------------------------------------------------------------
(* What happens to workers.                                                *)

\* Time passes, as long as it is looked at: upMs is taken when the exit is heard.
Ripen(w) ==
  /\ Running /\ ~shuttingDown /\ ~proc[w].old
  /\ proc' = [proc EXCEPT ![w].old = TRUE]
  /\ UNCHANGED <<listed, rapidCrashes, shuttingDown, primary, killed, streak>>

\* A worker ends: it crashed, was killed, has drained, or lost its primary.
Die(w) ==
  /\ proc[w].is = "live"
  /\ proc' = [proc EXCEPT ![w].is = "dead"]
  /\ UNCHANGED <<listed, rapidCrashes, shuttingDown, primary, killed, streak>>

-----------------------------------------------------------------------------
(* The exit handler.                                                       *)

\* (Mistakes: the comparison is turned round; the counter is not reset.)
RapidIfOld(w) == proc[w].old
Rapid(w) == ~proc[w].old

CountWithoutReset(w) == IF Rapid(w) THEN rapidCrashes + 1 ELSE rapidCrashes
Count(w) == IF Rapid(w) THEN rapidCrashes + 1 ELSE 0

\* (Mistake: what crashed at boot is not replaced.)
ReplaceHealthy(w) == IF Rapid(w) THEN [proc[w] EXCEPT !.is = "gone"] ELSE Forked
Replacement(w) == Forked

\* What the primary hears when the process in w has ended.
Exited(w) == Running /\ proc[w].is = "dead"

\* A worker ended during the shutdown; nobody is on the list, so it counts as the last.
ExitWhileDraining(w) ==
  /\ Exited(w) /\ shuttingDown
  /\ proc' = [proc EXCEPT ![w].is = "gone"]
  /\ primary' = IF listed = {} THEN "exit0" ELSE primary
  /\ UNCHANGED <<listed, rapidCrashes, shuttingDown, killed, streak>>

Respawn(w) ==
  /\ Exited(w) /\ ~shuttingDown /\ Count(w) <= MAX_RAPID_CRASHES
  /\ proc' = [proc EXCEPT ![w] = Replacement(w)]
  /\ rapidCrashes' = Count(w)
  /\ streak' = [streak EXCEPT ![w] = IF ~Rapid(w) THEN 0 ELSE IF @ < Enough THEN @ + 1 ELSE @]
  /\ UNCHANGED <<listed, shuttingDown, primary, killed>>

GiveUp(w) ==
  /\ Exited(w) /\ ~shuttingDown /\ Count(w) > MAX_RAPID_CRASHES
  /\ proc' = [proc EXCEPT ![w].is = "gone"]
  /\ rapidCrashes' = Count(w)
  /\ streak' = [streak EXCEPT ![w] = IF @ < Enough THEN @ + 1 ELSE @]
  /\ primary' = "exit1"
  /\ UNCHANGED <<listed, shuttingDown, killed>>

-----------------------------------------------------------------------------
(* Graceful shutdown.                                                      *)

\* The first SIGTERM or SIGINT: every worker is told to disconnect, which takes it off
\* cluster.workers, and a timer is set.
Shutdown ==
  /\ Running /\ ~shuttingDown
  /\ shuttingDown' = TRUE
  /\ listed' = {}
  /\ UNCHANGED <<proc, rapidCrashes, primary, killed, streak>>

\* Whoever is on the list is sent SIGKILL, and the primary exits.
ForceKill(status) ==
  /\ Running /\ shuttingDown
  /\ killed' = {w \in listed : proc[w].is = "live"}
  /\ primary' = status
  /\ UNCHANGED <<proc, listed, rapidCrashes, shuttingDown, streak>>

SecondSignal == ForceKill("exit1")

\* (Mistake: the timer is not set.)
NoTimer == FALSE /\ ForceKill("exit0")
GraceElapsed == ForceKill("exit0")

-----------------------------------------------------------------------------

Exit(w) == ExitWhileDraining(w) \/ Respawn(w) \/ GiveUp(w)

Next ==
  \/ \E w \in Position : Ripen(w) \/ Die(w) \/ Exit(w)
  \/ Shutdown \/ SecondSignal \/ GraceElapsed

\* Exits are heard and the timer fires.
Fairness ==
  /\ \A w \in Position : WF_vars(Exit(w))
  /\ WF_vars(GraceElapsed)

Spec == Init /\ [][Next]_vars /\ Fairness

-----------------------------------------------------------------------------
(* Properties.                                                             *)

TypeOK ==
  /\ proc \in [Position -> [is : {"live", "dead", "gone"}, old : BOOLEAN]]
  /\ listed \subseteq Position /\ killed \subseteq Position
  /\ rapidCrashes \in 0..(IF Running THEN MAX_RAPID_CRASHES ELSE MAX_RAPID_CRASHES + 1)
  /\ shuttingDown \in BOOLEAN
  /\ primary \in {"running", "exit0", "exit1"}
  /\ streak \in [Position -> 0..Enough]
  /\ \A w \in Position : proc[w].is = "gone" => Ended
  /\ shuttingDown => listed = {}

\* The primary gives up on its own only if some position of the pool crashed at boot again
\* and again, more than its share of the crashes tolerated: crashes spread over positions
\* that recover do not add up to a crash loop.
GivesUpOnlyInACrashLoop ==
  primary = "exit1" /\ ~shuttingDown => \E w \in Position : streak[w] >= Enough

\* A worker that ends is replaced, unless the primary gives up or shuts down.
CapacityIsRestored ==
  \A w \in Position : proc[w].is = "dead" ~> proc[w].is = "live" \/ shuttingDown \/ Ended

\* Workers that keep ending within MIN_HEALTHY_MS of their fork are not forked for ever.
CrashLoopEnds ==
  /\ <>[](\A w \in Position : ~proc[w].old)
  /\ []<>(\E w \in Position : proc[w].is = "dead")
  => <>(shuttingDown \/ Ended)

\* A shutdown ends the primary, whatever the workers do, by the first exit it hears or by
\* the timer; on the way nobody is sent SIGKILL, neither after the grace window nor by a
\* second signal, although the comments call that kill the backstop: workers that do not
\* end by themselves are left to notice that their primary is gone.
ShutdownEnds == shuttingDown ~> Ended /\ killed = {}
=============================================================================
