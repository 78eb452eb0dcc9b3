----------------------------- MODULE TaskWaits -----------------------------
(***************************************************************************)
(* Tasks that come after other tasks: a dependency declared before a task  *)
(* starts, a wait a working agent asks for and its Stop parks, and a split *)
(* parent that its pieces resolve (server/src/task-wait.ts, the waits of   *)
(* orchestrator.ts, resolveChildCompletion, the split of acceptProposal).  *)
(*                                                                         *)
(* Each task has a checkout of its own here, so that only the worker slots *)
(* and the edges between tasks hold one back; Orchestrator has the         *)
(* checkouts and the turn in its phases, which is one status here.  A      *)
(* request handler is one action: its awaits are storage calls that answer *)
(* at once.  The end of a wait is not: it queries git and waits for the    *)
(* old terminal to go.                                                     *)
(***************************************************************************)
EXTENDS Integers, FiniteSets

CONSTANTS
    Task, NoTask,
    Parent,      \* the task each piece was split from, NoTask for the others
    Cap,         \* orchestrator.concurrency
    MaxDepends,  \* DEPENDS_ON_MAX
    Handled      \* bound: the tasks a human deletes or ends the wait of

ASSUME NoTaskAssumption == NoTask \notin Task
ASSUME ParentAssumption == Parent \in [Task -> Task \cup {NoTask}]
ASSUME CapAssumption == IsFiniteSet(Task) /\ Cap \in Nat

VARIABLES
    status,      \* tm_tasks.status; "unborn" and "gone" have no row
    dependsOn,   \* tm_tasks.depends_on
    waitFor,     \* tm_tasks.wait_for
    request,     \* waitRequests: the wait the present turn has asked for
    late,        \* parked tasks whose wait is older than WAIT_MAX_MS
    parked,      \* pairs of parked tasks, the one that was parked first in front
    calls        \* the calls in flight that end a wait

waits == <<waitFor, request, late, parked>>
waitVars == <<status, dependsOn, waits, calls>>

Caller == {"scheduler", "human"}

Statuses == {"unborn", "queued", "running", "blocked", "review", "settled",
             "failed", "gone"}

TypeOK ==
    /\ status \in [Task -> Statuses]
    /\ dependsOn \in [Task -> SUBSET Task]
    /\ waitFor \in [Task -> Task \cup {NoTask}]
    /\ request \in [Task -> Task \cup {NoTask}]
    /\ late \in SUBSET Task
    /\ parked \in SUBSET (Task \X Task)
    /\ calls \in [Task -> [Caller -> {"none", "told", "kill"}]]

Exists(t) == status[t] \notin {"unborn", "gone"}

\* Tasks in the queue, and split pieces still to be made.
Init ==
    /\ status = [t \in Task |-> IF Parent[t] = NoTask THEN "queued" ELSE "unborn"]
    /\ dependsOn = [t \in Task |-> {}]
    /\ waitFor = [t \in Task |-> NoTask]
    /\ request = [t \in Task |-> NoTask]
    /\ late = {}
    /\ parked = {}
    /\ calls = [t \in Task |-> [c \in Caller |-> "none"]]

---------------------------------------------------------------------------
(* The graph of who comes after whom *)

\* Mutant of Edges: requests not parked yet are left out.
ParkedEdges(t) ==
    IF ~Exists(t) THEN {}
    ELSE dependsOn[t] \cup (IF waitFor[t] # NoTask THEN {waitFor[t]} ELSE {})

\* edgeIndex: the rows, with the requests not parked yet laid over them.
Edges(t) ==
    IF ~Exists(t) THEN {}
    ELSE dependsOn[t] \cup
         (IF waitFor[t] # NoTask THEN {waitFor[t]}
          ELSE IF request[t] # NoTask THEN {request[t]} ELSE {})

Closed(S) == \A t \in S : Edges(t) \subseteq S

\* Everything reached from `on` along the edges: the least closed set.
Reach(on) == {u \in Task : \A S \in SUBSET Task : on \subseteq S /\ Closed(S) => u \in S}

DependencyCycle(t, on) == t \in Reach(on)

\* A deleted dependency is met.
Settled(t) == status[t] \in {"settled", "gone"}

\* waitOutcome: the target settled or was deleted, or the wait timed out.
Over(t) == Settled(waitFor[t]) \/ t \in late

---------------------------------------------------------------------------
(* Transitions *)

Pieces(p) == {c \in Task : Parent[c] = p}

\* Mutant of Resolves: a parent that waits for a task lands with its pieces.
ResolvesWaiter(st, p) ==
    /\ st[p] = "blocked"
    /\ \A c \in Pieces(p) : st[c] \in {"settled", "gone"}

\* resolveChildCompletion: a split parent leaves blocked when every piece that
\* still has a row is terminal and none failed; one that waits does not.
Resolves(st, p) ==
    /\ st[p] = "blocked" /\ waitFor[p] = NoTask
    /\ \A c \in Pieces(p) : st[c] \in {"settled", "gone"}

\* Mutant of AfterMove: the pieces are looked at as they were before the move.
AfterMoveStale(st, t) ==
    LET whole == Parent[t]
    IN  IF st[t] \in {"settled", "failed"} /\ whole # NoTask /\ Resolves(status, whole)
        THEN {[st EXCEPT ![whole] = to] : to \in {"review", "settled"}}
        ELSE {st}

\* The statuses after t moved; the landing tier of its parent's repository
\* decides where that one lands.
AfterMove(st, t) ==
    LET whole == Parent[t]
    IN  IF st[t] \in {"settled", "failed"} /\ whole # NoTask /\ Resolves(st, whole)
        THEN {[st EXCEPT ![whole] = to] : to \in {"review", "settled"}}
        ELSE {st}

Without(t) == {pair \in parked : t # pair[1] /\ t # pair[2]}

\* Mutant of Move: the request outlives the turn that made it.
MoveKeepsRequest(t, to) ==
    /\ status' \in AfterMove([status EXCEPT ![t] = to], t)
    /\ waitFor' = [waitFor EXCEPT ![t] = NoTask]
    /\ late' = late \ {t}
    /\ parked' = Without(t)
    /\ UNCHANGED request

\* transitionTask: the wait is released with every move, and with the turn
\* its session's request.
Move(t, to) ==
    /\ status' \in AfterMove([status EXCEPT ![t] = to], t)
    /\ waitFor' = [waitFor EXCEPT ![t] = NoTask]
    /\ request' = [request EXCEPT ![t] = NoTask]
    /\ late' = late \ {t}
    /\ parked' = Without(t)

---------------------------------------------------------------------------
(* Dependencies and splits *)

\* The agents' depends-on route and the task editor: only a task that has not
\* started, on tasks that exist and do not come after it.
SetDependsOn(t, on) ==
    /\ status[t] = "queued" /\ on # dependsOn[t] /\ Cardinality(on) <= MaxDepends
    /\ t \notin on /\ \A u \in on : Exists(u)
    /\ ~DependencyCycle(t, on)
    /\ dependsOn' = [dependsOn EXCEPT ![t] = on]
    /\ UNCHANGED <<status, waits, calls>>

\* A split is accepted: the parent is blocked (only its status is written) and
\* its pieces are queued.
AcceptSplit(p) ==
    /\ status[p] \in {"queued", "review", "failed", "blocked"}
    /\ \E c \in Task : Parent[c] = p /\ status[c] = "unborn"
    /\ status' = [t \in Task |-> IF t = p THEN "blocked"
                                 ELSE IF t \in Pieces(p) THEN "queued" ELSE status[t]]
    /\ UNCHANGED <<dependsOn, waits, calls>>

\* Unblock on a split parent.
Unblock(p) ==
    /\ status[p] = "blocked" /\ waitFor[p] = NoTask
    /\ Move(p, "review")
    /\ UNCHANGED <<dependsOn, calls>>

---------------------------------------------------------------------------
(* Turns *)

InFlight(c) == {t \in Task : calls[t][c] # "none"}

\* Mutant of SlotFree: a resume on its way holds no slot.
SlotFreeNow == Cardinality({t \in Task : status[t] = "running"}) < Cap

\* activeWorkers: the working sessions and the scheduler's resumes in flight.
SlotFree == Cardinality({t \in Task : status[t] = "running"} \cup InFlight("scheduler")) < Cap

\* A parked task the scheduler would resume now.
Due(t) == /\ status[t] = "blocked" /\ waitFor[t] # NoTask
          /\ calls[t]["scheduler"] = "none" /\ Over(t)

DependenciesMet(t) == \A u \in dependsOn[t] : Settled(u)

\* The claim comes after the resumes of the same pass.
Claim(t) ==
    /\ status[t] = "queued" /\ DependenciesMet(t)
    /\ SlotFree /\ \A u \in Task : ~Due(u)
    /\ Move(t, "running")
    /\ UNCHANGED <<dependsOn, calls>>

\* Run now and follow-up ask neither for a slot nor for the dependencies.
HumanStarts(t) ==
    /\ status[t] \in {"queued", "review", "settled", "failed"}
    /\ Move(t, "running")
    /\ UNCHANGED <<dependsOn, calls>>

Requeue(t) ==
    /\ status[t] \in {"review", "settled", "failed"}
    /\ Move(t, "queued")
    /\ UNCHANGED <<dependsOn, calls>>

\* Mark done, or the landing tier of the repository.
Complete(t) ==
    /\ status[t] = "review"
    /\ Move(t, "settled")
    /\ UNCHANGED <<dependsOn, calls>>

Cancel(t) ==
    /\ status[t] \in {"queued", "running"}
    /\ Move(t, "settled")
    /\ UNCHANGED <<dependsOn, calls>>

\* The agent's process dies in its turn.
TurnFails(t) ==
    /\ status[t] = "running"
    /\ Move(t, "failed")
    /\ UNCHANGED <<dependsOn, calls>>

\* A deleted row takes its edges along; nobody's parent is looked at.
Delete(t) ==
    /\ t \in Handled /\ Exists(t) /\ status[t] # "running"
    /\ status' = [status EXCEPT ![t] = "gone"]
    /\ dependsOn' = [dependsOn EXCEPT ![t] = {}]
    /\ waitFor' = [waitFor EXCEPT ![t] = NoTask]
    /\ request' = [request EXCEPT ![t] = NoTask]
    /\ late' = late \ {t}
    /\ parked' = Without(t)
    /\ UNCHANGED calls

---------------------------------------------------------------------------
(* A wait *)

\* A call that ends a wait lasts seconds (a git query, five seconds at most
\* for the old terminal), a turn that asks to wait again lasts longer.
Undisturbed(t) == \A c \in Caller : calls[t][c] = "none"

Waitable == {"queued", "running", "review", "blocked"}

\* The working agent asks to wait for u; a later request replaces an earlier.
AskWait(t, u) ==
    /\ status[t] = "running" /\ Undisturbed(t)
    /\ u # t /\ status[u] \in Waitable
    /\ ~DependencyCycle(t, {u})
    /\ request' = [request EXCEPT ![t] = u]
    /\ UNCHANGED <<status, dependsOn, waitFor, late, parked, calls>>

Withdraw(t) ==
    /\ request[t] # NoTask
    /\ request' = [request EXCEPT ![t] = NoTask]
    /\ UNCHANGED <<status, dependsOn, waitFor, late, parked, calls>>

\* The Stop: a turn that asked to wait is parked, any other lands in review.
\* The target is not looked at again.
TurnEnds(t) ==
    /\ status[t] = "running" /\ Undisturbed(t)
    /\ IF request[t] # NoTask
       THEN /\ status' = [status EXCEPT ![t] = "blocked"]
            /\ waitFor' = [waitFor EXCEPT ![t] = request[t]]
            /\ request' = [request EXCEPT ![t] = NoTask]
            /\ parked' = parked \cup ({u \in Task : waitFor[u] # NoTask} \X {t})
            /\ UNCHANGED late
       ELSE Move(t, "review")
    /\ UNCHANGED <<dependsOn, calls>>

\* WAIT_MAX_MS has passed since the park.
Timeout(t) ==
    /\ waitFor[t] # NoTask /\ t \notin late
    /\ late' = late \cup {t}
    /\ UNCHANGED <<status, dependsOn, waitFor, request, parked, calls>>

\* resumeWaiters: the oldest wait that is over, while a slot is free.
ResumeFires(t) ==
    /\ Due(t) /\ SlotFree
    /\ \A u \in Task : <<u, t>> \in parked => ~Due(u)
    /\ calls' = [calls EXCEPT ![t]["scheduler"] = "told"]
    /\ UNCHANGED <<status, dependsOn, waits>>

\* endTaskWait: a human ends a wait the scheduler is not ending, one at a time.
EndWait(t) ==
    /\ t \in Handled
    /\ status[t] = "blocked" /\ waitFor[t] # NoTask /\ Undisturbed(t)
    /\ \A u \in Task : calls[u]["human"] = "none"
    /\ calls' = [calls EXCEPT ![t]["human"] = "told"]
    /\ UNCHANGED <<status, dependsOn, waits>>

Answered(t, c) == calls' = [calls EXCEPT ![t][c] = "none"]

\* git answered: a terminal that is idle is told to go, and waited for.
ResumeKills(t, c) ==
    /\ calls[t][c] = "told" /\ Exists(t) /\ status[t] # "running"
    /\ calls' = [calls EXCEPT ![t][c] = "kill"]
    /\ UNCHANGED <<status, dependsOn, waits>>

\* followUp moves the task to running, from blocked too.  One that the other
\* call has moved meanwhile has a live session, which sends it to review.
ResumeMoves(t, c) ==
    /\ Exists(t)
    /\ \/ calls[t][c] = "told" /\ status[t] # "running"
       \/ calls[t][c] = "kill"
    /\ Move(t, IF status[t] = "running" THEN "review" ELSE "running")
    /\ Answered(t, c)
    /\ UNCHANGED dependsOn

\* Mutant of ResumeFails: a resume that cannot start leaves the task parked.
ResumeFailsParked(t, c) ==
    /\ calls[t][c] = "told"
    /\ Answered(t, c)
    /\ UNCHANGED <<status, dependsOn, waits>>

\* It cannot be resumed (no session on disk, deleted, at work): the park is
\* released all the same.
ResumeFails(t, c) ==
    /\ calls[t][c] = "told"
    /\ IF status[t] = "blocked" THEN Move(t, "review") ELSE UNCHANGED <<status, waits>>
    /\ Answered(t, c)
    /\ UNCHANGED dependsOn

\* The server goes down and comes back: a turn fails, requests and calls are
\* lost, a park and its age are rows.  Tasks that fail resolve nothing, for a
\* failed piece holds its parent.
Restart ==
    /\ status' = [t \in Task |-> IF status[t] = "running" THEN "failed" ELSE status[t]]
    /\ request' = [t \in Task |-> NoTask]
    /\ calls' = [t \in Task |-> [c \in Caller |-> "none"]]
    /\ UNCHANGED <<dependsOn, waitFor, late, parked>>

---------------------------------------------------------------------------

ResumeStep(t, c) == ResumeKills(t, c) \/ ResumeMoves(t, c) \/ ResumeFails(t, c)

HumanStep(t) ==
    \/ HumanStarts(t) \/ Requeue(t) \/ Complete(t) \/ Cancel(t) \/ Delete(t)
    \/ AcceptSplit(t) \/ Unblock(t) \/ EndWait(t)
    \/ \E on \in SUBSET Task : SetDependsOn(t, on)

AgentStep(t) ==
    \/ TurnEnds(t) \/ TurnFails(t) \/ Withdraw(t)
    \/ \E u \in Task : AskWait(t, u)

Next ==
    \/ Restart
    \/ \E t \in Task : \/ HumanStep(t) \/ AgentStep(t)
                       \/ Claim(t) \/ Timeout(t) \/ ResumeFires(t)
                       \/ \E c \in Caller : ResumeStep(t, c)

Spec == Init /\ [][Next]_waitVars

\* A turn comes to its end, the clock runs, the pass looks again (at every end
\* of a turn and every 10 s, so it finds a slot that is free again and again),
\* and the server goes down only so often.  Of the humans it is assumed only
\* that their own starts do not fill every slot for ever.
Fairness ==
    /\ <>[][~Restart]_waitVars
    /\ SF_waitVars(\E t \in Task : ResumeFires(t))
    /\ \A t \in Task :
        /\ WF_waitVars(TurnEnds(t)) /\ WF_waitVars(Timeout(t))
        /\ \A c \in Caller : WF_waitVars(ResumeMoves(t, c) \/ ResumeFails(t, c))

FairSpec == Spec /\ Fairness /\ []<>SlotFree

---------------------------------------------------------------------------
(* Properties *)

\* No task comes after itself, through any chain of dependencies, parked waits
\* and waits only asked for: two agents that ask for each other's task before
\* either Stop, or an agent that asks while its task is made a dependency.
NoWaitCycle == \A t \in Task : Edges(t) # {} => t \notin Reach(Edges(t))

\* A task that waits for another is parked, only a turn has asked to wait, and
\* the parked tasks stand in one line, by the age of their waits.
ParkKept ==
    /\ \A t \in Task : /\ waitFor[t] # NoTask => status[t] = "blocked" /\ request[t] = NoTask
                       /\ request[t] # NoTask => status[t] = "running"
    /\ \A t, u \in Task :
          /\ <<t, u>> \in parked => /\ waitFor[t] # NoTask /\ waitFor[u] # NoTask
                                   /\ <<u, t>> \notin parked
          /\ waitFor[t] # NoTask /\ waitFor[u] # NoTask /\ t # u =>
                <<t, u>> \in parked \/ <<u, t>> \in parked
          /\ \A v \in Task : <<t, u>> \in parked /\ <<u, v>> \in parked => <<t, v>> \in parked

\* A parked wait is ended by nothing but a call the scheduler made because it
\* was over, or a human's click: by no piece that resolves and no other move;
\* and until then the sweep finds it.
WaitKept ==
    [][/\ ParkKept'
       /\ waitFor' # waitFor => \A t \in Task : waitFor[t] # NoTask /\ waitFor'[t] # waitFor[t] =>
           ~Undisturbed(t) \/ status'[t] = "gone"]_waitVars

\* A split parent does not stay blocked once its pieces are all settled.
ParentLands ==
    \A p \in Task : Resolves(status, p) => Pieces(p) = {}

\* The scheduler fills no more than Cap slots, its resumes on their way counted.
ResumesWithinCap ==
    [][calls' # calls => \A t \in Task : calls[t]["scheduler"] = "none" /\ calls'[t]["scheduler"] # "none"
         => Cardinality({u \in Task : status[u] = "running" \/ calls'[u]["scheduler"] # "none"})
              <= Cap]_waitVars

\* Every wait comes to an end: its target settles or the day passes, a slot is
\* found, and the session is resumed or the task handed to the human, also when
\* the server was restarted in between.
WaitEnds == \A t \in Task : []<>(waitFor[t] = NoTask)
=============================================================================
