------------------------------- MODULE Turns -------------------------------
(***************************************************************************)
(* What the orchestrator promises of a task, without sessions, awaits and  *)
(* queues: its status and the one turn it may have.  A turn is given with  *)
(* the move to running, worked by one agent, and over in the same step in  *)
(* which the task comes to rest; a crash is the only thing that ends the   *)
(* turns of several tasks at once.  Orchestrator implements it as long as  *)
(* nobody acts on a task between two states of its turn.                   *)
(***************************************************************************)
EXTENDS FiniteSets

CONSTANT Task

VARIABLES
    status,   \* tm_tasks.status
    turn      \* what there is of a turn

turnVars == <<status, turn>>

Resting == {"draft", "queued", "blocked", "review", "published", "done", "failed",
            "cancelled"}
InTurn == {"running", "waiting"}

TypeOK == /\ status \in [Task -> Resting \cup InTurn]
          /\ turn \in [Task -> {"none", "starts", "works", "ends"}]

Init == /\ status \in [Task -> {"draft", "queued"}]
        /\ turn = [t \in Task |-> "none"]

Step(t, from, to, st) == /\ turn[t] = from
                         /\ turn' = [turn EXCEPT ![t] = to]
                         /\ status' = [status EXCEPT ![t] = st]

\* At rest a task moves between the queue and what a human decided of it.
Requeue(t) == /\ status[t] \in {"draft", "review", "failed", "cancelled"}
              /\ Step(t, "none", "none", "queued")

Decide(t) == \E to \in {"cancelled", "done"} :
    /\ status[t] \in (IF to = "done" THEN {"review"} ELSE {"draft", "queued"})
    /\ Step(t, "none", "none", to)

\* A turn is given: claimed, run now, followed up.
Give(t) == status[t] \in Resting /\ Step(t, "none", "starts", "running")

\* A start that finds a terminal of the task still alive leaves it in review.
Refuse(t) == status[t] \in Resting /\ Step(t, "none", "none", "review")

\* Typing into the idle terminal of a task in review needs no start.
GoOn(t) == status[t] = "review" /\ Step(t, "none", "works", "running")

\* The agent is there; or the start failed, found no slot, or was stopped.
Work(t) == status[t] = "running" /\ Step(t, "starts", "works", "running")

Unstart(t) == /\ status[t] = "running"
              /\ \E to \in {"queued", "failed", "review"} : Step(t, "starts", "none", to)

\* It waits for its own subagents, and goes on; its Stop may still say so when
\* the process has ended.
Park(t) == /\ status[t] \in InTurn
           /\ \E to \in InTurn, at \in {"works", "ends"} : Step(t, at, at, to)

\* The agent is done, or a human takes the turn back.
Finish(t) == status[t] \in InTurn /\ \E to \in Resting : Step(t, "works", "none", to)

\* A human takes back a turn that starts: what there is of it goes later.
TakeBack(t) == /\ status[t] \in InTurn
               /\ \E to \in Resting : Step(t, "starts", "starts", to)

Vanish(t) == status[t] \in Resting /\ Step(t, "starts", "none", status[t])

\* The agent's process ends in its turn, and then the task.
Die(t) == status[t] \in InTurn /\ Step(t, "works", "ends", status[t])

Settle(t) == \E to \in {"review", "failed"} : Step(t, "ends", "none", to)

\* The server goes down: every turn is over, and no task reads as in one.
Crash == /\ turn' = [t \in Task |-> "none"]
         /\ \E to \in [Task -> {"review", "failed"}] :
               status' = [t \in Task |-> IF status[t] \in InTurn THEN to[t] ELSE status[t]]

TurnStep(t) ==
    \/ Requeue(t) \/ Decide(t) \/ Give(t) \/ Refuse(t) \/ GoOn(t)
    \/ Work(t) \/ Unstart(t) \/ Park(t) \/ Finish(t) \/ TakeBack(t)
    \/ Vanish(t) \/ Die(t) \/ Settle(t)

\* (A step changes something; said first, it spares TLC the disjuncts of the
\* many steps of an implementation that do not.)
Next == turnVars' # turnVars /\ (Crash \/ \E t \in Task : TurnStep(t))

Spec == Init /\ [][Next]_turnVars

\* A status says the truth about the turn: a task reads as in a turn only while
\* there is one, and an agent works, or is being settled, only for such a task.
StatusTrue == \A t \in Task : /\ status[t] \in InTurn => turn[t] # "none"
                              /\ turn[t] \in {"works", "ends"} => status[t] \in InTurn
=============================================================================
