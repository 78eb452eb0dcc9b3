-------------------------- MODULE MCOrchestrator --------------------------
(* Instances of Orchestrator for TLC. *)
EXTENDS Orchestrator, TLC

CONSTANTS a, b, c, g1, g2

OneRepo == [t \in Task |-> g1]
TwoRepos == [t \in Task |-> IF t = c THEN g2 ELSE g1]
Rank == [t \in Task |-> IF t = a THEN 1 ELSE IF t = b THEN 2 ELSE 3]

\* Runs and human requests are interchangeable.
Symmetry == Permutations(Run) \cup Permutations(Human)

\* What no later step reads is left out of the fingerprint: the status before
\* a start of a task outside a turn, and the flags of a session that is gone.
Seen == <<row, [t \in Task |-> IF Working(row, t) THEN before[t] ELSE "queued"],
          runTask,
          [r \in Run |-> IF sess[r] = "gone" THEN "exited" ELSE runStatus[r]],
          latest, owner, sess,
          {r \in idle : Live(r) \/ r \in stops},
          {r \in dying : Live(r)}, {r \in auto : sess[r] \in {"none", "live"}},
          start, stops, holds, reviewing, sched, bounds>>

\* Every task stands in a queue: a draft waits for nobody, and a request does
\* with it what it does with a queued task.
QueuedInit == Init /\ \A t \in Task : row[t].status = "queued"

\* Bound: requests and restarts of a behaviour together.
Total == acts <= 1 \/ acts + restarts <= 2

QueuedSpec == QueuedInit /\ [][Next]_vars
DrainSpec == QueuedSpec /\ Fairness /\ Swept
WedgeSpec == QueuedSpec /\ Fairness
=============================================================================
