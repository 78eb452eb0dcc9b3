-------------------------------- MODULE Jobs --------------------------------
(***************************************************************************)
(* Scheduled jobs (JobService of jobs.ts, jobsDue and nextRunAfter of      *)
(* shared/jobs.ts, storage/job-sql.ts): a job's slots, the runs they and   *)
(* Run now start, and what a pause, a retry, a kill or a restart makes of  *)
(* a run.                                                                  *)
(*                                                                         *)
(* Times are ticks from now, not positive when they have come.  A run      *)
(* lasts; the calls around it are storage calls of the default driver,     *)
(* which let nothing else run.  The jobs switch, the busy threshold, the   *)
(* budget and the memory fuse are reasons for the sweep not to fire yet.   *)
(***************************************************************************)
EXTENDS Integers, FiniteSets

CONSTANTS
    Job,
    Every,        \* repeatEveryMs of each job, 0 for one that runs once
    MaxRuns,      \* maxRuns of the repeating ones, 0 without a limit
    Concurrency,  \* jobs.concurrency
    Ahead,        \* bound: the furthest a slot is planned
    Late          \* bound: a due job is so late and no later

\* The plan reaches as far as a job's cadence.
JobAssumption == /\ IsFiniteSet(Job)
                 /\ Ahead \in Nat \ {0} /\ Late \in Nat
                 /\ Every \in [Job -> 0 .. Ahead]
                 /\ MaxRuns \in Nat /\ Concurrency \in Nat

VARIABLES
    job,      \* tm_jobs: status, next_run_at, runs_count
    run,      \* live and suspending: what the run of each job was started as
    retried,  \* transientRetried
    paused,   \* orchestrator.paused
    served    \* (history) the last slot whose run was counted, and when it was

jobVars == <<job, run, retried, paused, served>>

Never == Ahead + 1      \* no next_run_at
NoRun == [after |-> "none", slot |-> 0, count |-> 0, suspended |-> FALSE]
Unserved == [slot |-> Never, at |-> Never]

Memory == Late + Ahead  \* bound: how long the history reaches back

TypeOK ==
    /\ job \in [Job -> [status : {"unborn", "scheduled", "running", "paused", "done",
                                  "cancelled", "gone"},
                        next : -Late .. Never, count : 0 .. MaxRuns]]
    /\ run \in [Job -> [after : {"none", "advance", "keep", "paused"}, slot : -Late .. 0,
                        count : 0 .. MaxRuns, suspended : BOOLEAN]]
    /\ retried \in SUBSET Job /\ paused \in BOOLEAN
    /\ served \in [Job -> [slot : -Memory .. 0, at : -Memory .. 0] \cup {Unserved}]

Init ==
    /\ job = [j \in Job |-> [status |-> "unborn", next |-> Never, count |-> 0]]
    /\ run = [j \in Job |-> NoRun]
    /\ retried = {} /\ paused = FALSE
    /\ served = [j \in Job |-> Unserved]

Is(j, s) == job[j].status = s
Exists(j) == ~Is(j, "unborn") /\ ~Is(j, "gone")
Live == {j \in Job : run[j] # NoRun}

\* isJobDue
Due(j) == Is(j, "scheduled") /\ job[j].next <= 0

Older(x, floor) == IF x = Never THEN x ELSE IF x > -floor THEN x - 1 ELSE x

\* Of two due jobs time keeps the order: it waits before both were as late.
Tick ==
    /\ Cardinality({j \in Job : Due(j) /\ job[j].next <= 1 - Late}) <= 1
    /\ job' = [j \in Job |-> [job[j] EXCEPT !.next = Older(@, Late)]]
    /\ run' = [j \in Job |-> [run[j] EXCEPT !.slot = IF run[j] = NoRun THEN @ ELSE Older(@, Late)]]
    /\ served' = [j \in Job |-> [slot |-> Older(served[j].slot, Memory),
                                 at |-> Older(served[j].at, Memory)]]
    /\ UNCHANGED <<retried, paused>>

---------------------------------------------------------------------------
(* What a human plans *)

Plan == 0 .. Ahead

Create(j, at) ==
    /\ Is(j, "unborn")
    /\ job' = [job EXCEPT ![j] = [status |-> "scheduled", next |-> at, count |-> 0]]
    /\ UNCHANGED <<run, retried, paused, served>>

\* A new schedule; it brings a done job back.
Update(j, at) ==
    /\ Exists(j)
    /\ job' = [job EXCEPT ![j].next = at, ![j].status = IF @ = "done" THEN "scheduled" ELSE @]
    /\ served' = [served EXCEPT ![j] = Unserved]
    /\ UNCHANGED <<run, retried, paused>>

PauseJob(j) ==
    /\ Is(j, "scheduled")
    /\ job' = [job EXCEPT ![j].status = "paused"]
    /\ UNCHANGED <<run, retried, paused, served>>

\* A slot that passed meanwhile comes now.
ResumeJob(j) ==
    /\ Is(j, "paused")
    /\ job' = [job EXCEPT ![j].status = "scheduled",
                          ![j].next = IF @ \in 1 .. Ahead THEN @ ELSE 0]
    /\ UNCHANGED <<run, retried, paused, served>>

Cancel(j) ==
    /\ job[j].status \in {"scheduled", "paused", "done"}
    /\ job' = [job EXCEPT ![j].status = "cancelled", ![j].next = Never]
    /\ UNCHANGED <<run, retried, paused, served>>

\* The live run is aborted, which finds no job to write to.
Remove(j) ==
    /\ Exists(j)
    /\ job' = [job EXCEPT ![j] = [status |-> "gone", next |-> Never, count |-> 0]]
    /\ served' = [served EXCEPT ![j] = Unserved]
    /\ UNCHANGED <<run, retried, paused>>

---------------------------------------------------------------------------
(* A run starts *)

\* execute; where the row of the run cannot be written, the job goes back.
Executes(j, after, slot) ==
    /\ \/ /\ job' = [job EXCEPT ![j].status = "running"]
          /\ run' = [run EXCEPT ![j] = [after |-> after, slot |-> slot,
                                        count |-> job[j].count, suspended |-> FALSE]]
       \/ /\ job' = [job EXCEPT ![j].status = "scheduled"]
          /\ UNCHANGED run
    /\ UNCHANGED <<retried, paused>>

\* Mutant of First: the job that became due last goes first.
Newest(j) == \A i \in Job : Due(i) => job[i].next <= job[j].next

\* jobsDue fires the oldest due job first.
First(j) == \A i \in Job : Due(i) => job[i].next >= job[j].next

\* sweep
Fire(j) ==
    /\ ~paused /\ Due(j) /\ First(j) /\ Cardinality(Live) < Concurrency
    /\ Executes(j, "advance", job[j].next)
    /\ UNCHANGED served

\* runNow: before its slot, or paused, an extra run that leaves the slot alone.
RunNow(j) ==
    /\ ~paused /\ Cardinality(Live) < Concurrency
    /\ \/ /\ Is(j, "paused") /\ Executes(j, "paused", 0)
       \/ /\ Is(j, "scheduled") /\ ~Due(j) /\ Executes(j, "keep", 0)
       \/ /\ Due(j) \/ Is(j, "done")
          /\ Executes(j, "advance", IF job[j].next < 0 THEN job[j].next ELSE 0)
    /\ served' = [served EXCEPT ![j] = Unserved]

---------------------------------------------------------------------------
(* And ends *)

\* Mutant of NextRun: missed slots are caught up with.
NextMissed(j, count) ==
    IF Every[j] = 0 \/ (MaxRuns # 0 /\ count >= MaxRuns) THEN Never ELSE run[j].slot + Every[j]

\* nextRunAfter: the cadence is kept, but no slot is in the past.
NextRun(j, count) ==
    IF Every[j] = 0 \/ (MaxRuns # 0 /\ count >= MaxRuns) THEN Never
    ELSE IF run[j].slot + Every[j] > 0 THEN run[j].slot + Every[j] ELSE Every[j]

Counted(n) == IF n < MaxRuns THEN n + 1 ELSE n

Back(j, status, next, count) ==
    job' = [job EXCEPT ![j] = [status |-> status, next |-> next, count |-> count]]

\* Mutant of SettleExtra: the row of an extra run is left as it is.
SettleNothing(j) == job' = [job EXCEPT ![j].count = Counted(@)]

\* An extra run leaves the slot where it was.
SettleExtra(j) ==
    Back(j, IF run[j].after = "paused" THEN "paused" ELSE "scheduled",
         job[j].next, Counted(job[j].count))

\* settle, by what came of the run: a deleted job is not written, a suspended
\* run is due again, one that was killed waits for a human, one the API
\* refused is tried again once, every other is counted.
Settle(j, outcome) ==
    CASE ~Exists(j) -> UNCHANGED job
      [] Exists(j) /\ run[j].suspended -> Back(j, "scheduled", 0, job[j].count)
      [] Exists(j) /\ ~run[j].suspended /\ outcome = "failed" ->
            Back(j, "paused", job[j].next, job[j].count)
      [] Exists(j) /\ ~run[j].suspended /\ outcome = "retry" ->
            Back(j, "scheduled", 1, job[j].count)
      [] Exists(j) /\ ~run[j].suspended /\ outcome = "result" /\ run[j].after # "advance" ->
            SettleExtra(j)
      [] Exists(j) /\ ~run[j].suspended /\ outcome = "result" /\ run[j].after = "advance" ->
            LET next == NextRun(j, run[j].count + 1)
            IN  Back(j, IF next = Never THEN "done" ELSE "scheduled", next, Counted(job[j].count))

\* The session of a suspended or deleted run is stopped; any may be killed,
\* and one that fails without a result is counted as well. A time-out and a
\* missing repository keep the mark of the retry.
RunEnds(j, outcome) ==
    /\ run[j] # NoRun
    /\ outcome = "retry" => j \notin retried
    /\ Settle(j, outcome)
    /\ run' = [run EXCEPT ![j] = NoRun]
    /\ retried' \in CASE outcome = "retry"  -> {retried \cup {j}}
                       [] outcome = "result" -> {retried, retried \ {j}}
                       [] OTHER              -> {retried}
    /\ served' = IF /\ Exists(j) /\ ~run[j].suspended
                    /\ outcome = "result" /\ run[j].after = "advance"
                 THEN [served EXCEPT ![j] = [slot |-> run[j].slot, at |-> 0]]
                 ELSE served
    /\ UNCHANGED paused

---------------------------------------------------------------------------
(* Pause all and restart *)

\* suspendAll; the drain form of the pause leaves the runs alone.
Pause ==
    /\ paused' = TRUE
    /\ \/ run' = [j \in Job |-> IF j \in Live THEN [run[j] EXCEPT !.suspended = TRUE] ELSE NoRun]
       \/ ~paused /\ UNCHANGED run
    /\ UNCHANGED <<job, retried, served>>

Continue ==
    /\ paused /\ paused' = FALSE
    /\ UNCHANGED <<job, run, retried, served>>

\* recoverOnBoot: the job of a run that was cut is due again.
Restart ==
    /\ job' = [j \in Job |-> IF Is(j, "running") THEN [job[j] EXCEPT !.status = "scheduled", !.next = 0]
                             ELSE job[j]]
    /\ run' = [j \in Job |-> NoRun] /\ retried' = {}
    /\ UNCHANGED <<paused, served>>

---------------------------------------------------------------------------

HumanStep(j) ==
    \/ \E at \in Plan : Create(j, at) \/ Update(j, at)
    \/ PauseJob(j) \/ ResumeJob(j) \/ Cancel(j) \/ Remove(j) \/ RunNow(j)

Ends(j) == \E outcome \in {"result", "retry", "failed"} : RunEnds(j, outcome)

Next ==
    \/ Tick \/ Pause \/ Continue \/ Restart
    \/ \E j \in Job : HumanStep(j) \/ Fire(j) \/ Ends(j)

Spec == Init /\ [][Next]_jobVars

Disturbance == Pause \/ Restart \/ \E j \in Job : HumanStep(j)

\* Runs end, pauses are lifted, and what holds the jobs lets go of the sweep
\* again and again; humans come, and the server goes down, only so often.
Fairness ==
    /\ <>[][~Disturbance]_jobVars
    /\ WF_jobVars(Continue) /\ SF_jobVars(\E j \in Job : Fire(j))
    /\ \A j \in Job : WF_jobVars(Ends(j))

FairSpec == Spec /\ Fairness

---------------------------------------------------------------------------
(* Properties *)

\* A job reads running exactly while its run is alive: no end of a run, of
\* whichever kind and however it was started, leaves a job behind that neither
\* the sweep nor a human can start.
RunningIsLive == \A j \in Job : Is(j, "running") <=> run[j] # NoRun /\ Exists(j)

\* On its own a job runs once for a slot: one that runs once not again, one
\* that repeats no sooner than its cadence, and after slots it missed not
\* twice at one time; as long as no human planned or ran it since.
OncePerSlot ==
    [][job' # job => \A j \in Job :
         Is(j, "scheduled") /\ Is(j, "running")' /\ served'[j] # Unserved =>
            /\ Every[j] # 0
            /\ served[j].at < 0 /\ job[j].next - served[j].slot >= Every[j]]_jobVars

\* A due job is run in the end, whatever else is due: a job that comes round
\* again and again does not keep it waiting.
DueJobsRun == \A j \in Job : Due(j) ~> ~Due(j)
=============================================================================
