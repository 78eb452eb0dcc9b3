# A TLA+ model of the task manager

The repository is a local control panel that turns a list of tasks into running
agent sessions. A task is queued, claimed by a scheduler, given a terminal (a PTY
with an interactive agent in it), and comes back through the agent's `Stop` hook or
the exit of its process; a human may start, follow up, cancel or undo at any moment.
Nearly everything that is hard about it happens between two `await`s of one Node
event loop, where no unit test looks.

This directory holds TLA+ modules that model that core, TLC configurations that check
it on small instances, and proofs for TLAPS. Paths below are relative to the root of
the repository.

To run it: `tlc -config calm.cfg MCOrchestrator.tla` (and so on for each `.cfg`; `parts`,
`live`, `verdict` and `lost` are for `MCParts.tla`) and `tlapm Orchestrator_proofs.tla` (and so
on for each `_proofs` module).

## 1. Inventory

| Component | Code | State it keeps | Operations | Here |
|---|---|---|---|---|
| Scheduler and turn lifecycle | `server/src/orchestrator.ts` | `scheduling`/`rerunWanted`, `customQueueHold`, `pendingReviews`, starts in flight | `maybeSchedule`, `pumpCustomQueue`, `startWorker`, `runNow`, `followUp`, `cancel`, `undoStart`, `killRun`, `handleExit`, `recoverOnBoot` | `Orchestrator` |
| Task store | `server/src/storage/sqlite.ts`, `queue-sql.ts` | `tm_tasks`, `tm_runs`, `tm_events` | `transitionTask`, the two claims, the holder predicates | `TaskStore` |
| Session manager | `server/src/pty/session-manager.ts` | the map of PTYs, idle flags, clients | `spawn` (cap and eviction), `kill`, `markIdle`, TTL sweep | inside `Orchestrator` |
| Stop hook | `server/src/routes/internal.ts` | none of its own | `settleStop` | inside `Orchestrator` |
| Task actions | `server/src/task-actions.ts` | none of its own | enqueue, add to / leave the custom queue, complete | inside `Orchestrator` |
| Heavy work slots | `server/src/heavy.ts`, `routes/agent-heavy.ts` | queue, holders, long polls, count, fuse | acquire, poll, release, checks, tick, resize | `HeavySlots` |
| Pause all | `orchestrator.ts`, `docs/pause.md` | paused flag, owed turns, transient back-offs | pause (two forms), continue, resume, boot in a pause | `PauseAll` |
| Task waits, dependencies, split parents | `task-wait.ts`, `orchestrator.ts`, `task-actions.ts` | `depends_on`, `wait_for`, requests of a turn, resumes in flight | ask, park, refuse cycles, time out, resume, split, resolve | `TaskWaits` |
| Verify: reviews and checks | `claude/review.ts`, `checks.ts`, `orchestrator.ts` | rounds, verdicts, hashes, fix budgets | round, fix turn, re-review, landing tier, boot | `VerifyLoop` |
| Worktrees and land | `land.ts`, `worktrees.ts`, `orchestrator.ts` | directory, branch, base branch, red tree | ensure, evict, land (prepare to settle), sweep | `Worktrees` |
| Approvals | `approvals.ts`, `storage/approval-sql.ts` | open requests, executions, polls | ask, decide, execute, poll, expire at boot | `Approvals` |
| Jobs | `jobs.ts`, `shared/src/jobs.ts` | schedules, live and suspended runs | plan, fire, run now, retry, suspend, settle, boot | `Jobs` |
| Dispatches | `routes/agent.ts`, `orchestrator.ts`, `sqlite.ts` | messages of related tasks, turns on their way | send, deliver, ride along, cancel | `Dispatches` |
| Questions, loops, publish turns | `orchestrator.ts`, `questions.ts`, `loop.ts` | open items, iterations | ask, answer, advance | not yet |
| Features, chat, offices, budgets, host supervisor | `claude/feature-plan.ts`, `chat/`, `office/`, `budget.ts`, `host.ts` | sessions, phases and shifts of their own | | not modelled |
| Clients, transcripts, statistics, push, Telegram, Sentry, WebSocket | `web/`, `claude/stats.ts`, `push/`, ... | | pure I/O or wording | not modelled |

`PROJECT.json` has the full list with the reason for each part that is left out.

**How the parts interact.** A human's request or a timer calls the orchestrator
directly. The orchestrator reads and writes rows through the store, asks the session
manager to spawn or kill a PTY, and gets callbacks from it (an exit) and from the
agent's hooks over HTTP (a Stop). Every one of those callbacks ends by waking the
scheduler (`maybeSchedule`). The heavy slots are asked by agents over HTTP and by the
server's check runner, and are told by the orchestrator when a turn or a run ends.

**What is hard.** The event loop makes a stretch between two awaits atomic and
nothing else. A start has three awaits that leave the process (compaction gate, base
commit, prompt and spawn); a Stop sleeps 1.5 s; an exit reads a transcript; a
follow-up waits up to five seconds for an old terminal to die; the pump commits a
checkout before it claims in it. Everything a human may do can arrive in any of them,
and the state read before is then stale. There is a cap on slots and another on
terminals, a hold on the queue that one path takes and several must release, and a
wakeup flag a pass can drop. The server may be restarted at any time and finds only
the database. The list with lines is in `PROJECT.json`, "hazards".

**What makes it correct**, per component:

* *Turn lifecycle*: an agent works only for a task that is in a turn; one agent per
  task; no task is stranded in `running`/`waiting` with nobody to settle it; the death
  of an old terminal never decides a newer turn.
* *Scheduler*: never more automatic agents than slots; two automatic agents never edit
  one checkout; queue order, holds and Undo-start holds are respected; the queue drains.
* *Session manager*: the cap refuses rather than exceeds; what it evicts was idle.
* *Heavy slots*: no grant past the count; no slot idle while wanted; first come first
  served but for the fuse; every long poll answered; a lease dies with its run.
* *Task waits*: no task comes after itself; a park is a row that only its end or a human
  releases; a split parent lands when its pieces have; every wait ends.
* *Pause all*: no turn, round or landing it cuts is lost, and each owed turn is given back.
* *Verify*: no change lands but on the verdict about it; no round is left alone.
* *Land*: nothing the agent wrote is lost; what lands was judged; what reads published is.
* *Approvals*: the push that runs is the one approved, once; the agent hears of it.
* *Jobs*: a slot has one run; `running` means one is under way; a due job runs.
* *Dispatches*: a message is handed over once, with its target's next turn; a request in the end.

## 2. Modules

    TaskStore            rows, transitions, holders, claims (operators, no variables)
      Orchestrator       EXTENDS TaskStore: the turn lifecycle and the scheduler;
                         refinement of Turns
        Orchestrator_proofs
        MCOrchestrator   instances, symmetry, view for TLC
    Turns                abstract: a task's status and the one turn it may have
    PauseAll             _proofs     \
    VerifyLoop           _proofs      |
    HeavySlots           _proofs      |  each with its theorems in a module of
    Approvals            _proofs      |  its own, which EXTENDS it and TLAPS
    Jobs                 _proofs      |
    Dispatches           _proofs     /
    TaskWaits
    Worktrees
      MCParts            EXTENDS TaskWaits; instances of the others for TLC, side by side
        MCParts_proofs   the theorems about TaskWaits and Worktrees, and what those
                         of the others say of the instances

### TaskStore

One operator over the table `row` per SQL statement, since each statement is one
transaction. A row keeps what the statements read: `status`, `mark` (the click's stamp
`custom_queue_at`; 0 for a task that is not in the custom queue), `held` (Undo start),
`verify` (a review or check round is open on the row), `parked` (waits for another task).
`Transition` is the conditional `UPDATE ... WHERE status IN (...)` with what every
transition clears; `HeldBy` and `HoldsForClaim` are the two *different* holder
predicates of the custom queue and the global claim; `CustomHead`/`CanClaimCustom` are
the peek and the re-selecting claim; `BaseHead` is the global claim.

### Orchestrator

An action is what runs between two awaits that leave the event loop. The default
SQLite driver answers synchronously, so storage calls do not cut an action. A pass of
the scheduler runs on until its next such await before anything else does: that is
`Next == SchedulerStep \/ (PassAwaits /\ EventStep)`.

| Variable | In the code |
|---|---|
| `row`, `before` | `tm_tasks`; the status before the last start, which `undoStart` finds in `tm_events` |
| `runTask`, `runStatus`, `latest`, `owner` | `tm_runs`; newest run per task; newest run's task per checkout (`treeOwner`) |
| `sess`, `idle`, `dying` | the PTYs of SessionManager: live, evicted, exit being settled, gone; idle flag; SIGHUP sent |
| `auto` | (history) runs whose present turn nobody asked for |
| `start[c]` | the `startWorker` call of caller `c`: `kill` (follow-up waits for a death), `gate` (compaction), `base` (base commit), `row` (run row exists, no PTY) |
| `stops` | Stop hooks asleep in `settleStop` |
| `holds`, `reviewing` | `customQueueHold`, `pendingReviews` |
| `sched` | where the pass is, the repositories it skips, the head it commits for, `rerunWanted` |
| `acts`, `restarts` | bounds |

| Action | Code |
|---|---|
| `Tick`, `PassBegins`, `PassEnds`, `PassReturns` | `maybeSchedule`: the 10 s tick, the loop, the early return that leaves `rerunWanted` behind |
| `PumpLooks`, `PumpClaims` | `pumpCustomQueue`: guards and peek; the claim after the hand-off commit |
| `BaseClaims` | the global `claimNextQueuedTask` loop |
| `RunNow`, `FollowUp`, `FollowUpKills`, `FollowUpGoesOn` | `runNow`; `followUp` without and with an idle terminal to kill first |
| `GateAborted`, `GatePassed`, `CreateRun`, `Spawn`, `SpawnFails` | the stretches of `startWorker`, and `SessionManager.spawn` with cap and eviction |
| `StopArrives`, `StopIgnored`, `StopParks`, `StopLands` | `settleStop` before and after its sleep |
| `WaitEnds` | `endWait` |
| `ReviewEnds` | the end of a review, which closes the round and releases the hold |
| `Prompt` | `promptInLiveSession` |
| `Dispose`, `Exits`, `ExitSettles` | TTL sweep; the two halves of `handleExit` around the transcript read |
| `Cancel`, `UndoStart`, `KillRun`, `Complete`, `Enqueue`, `QueueAdd`, `QueueRemove` | the requests of those names |
| `Restart` | the process dies; `recoverOnBoot` |

### Turns

What `Orchestrator` promises of one task with sessions, awaits and queues taken away: its
status, and one turn that `starts`, `works` or `ends`. `Give`, `Work`, `Park`, `Finish`,
`Die` and `Settle` are the life of a turn, `TakeBack`/`Vanish` a human's second thought,
`Crash` the server's. `Orchestrator` defines `Turn` over the variables of `Orchestrator`
(a start in flight, an agent at work, an exit being settled) and instantiates
`T == INSTANCE Turns WITH status <- [t \in Task |-> row[t].status], turn <- Turn`;
`TurnsImplemented == T!Spec` is a property of the run `calm`.

### TaskWaits

| Variable | In the code |
|---|---|
| `status`, `dependsOn`, `waitFor` | `tm_tasks`; "unborn" and "gone" stand for no row |
| `request` | `waitRequests`: the wait the present turn asked for and its Stop will park |
| `late`, `parked` | the age of a park past `WAIT_MAX_MS`; the parks in the order they began, as pairs of one and one no older |
| `calls` | a resume on its way, by the sweep (`waitResumesInFlight`) or a click (`endTaskWait`) |

| Action | Code |
|---|---|
| `SetDependsOn`, `AskWait`, `Withdraw` | the editor and the agents' routes with the cycle test over rows and requests (`Edges`, `Reach`) |
| `TurnEnds`, `TurnFails` | `settleStop` that parks or lands; a turn that dies |
| `Timeout`, `ResumeFires`, `EndWait` | `waitOutcome`; `resumeWaiters`; `endTaskWait` |
| `ResumeKills`, `ResumeMoves`, `ResumeFails` | `fireWaitResume` and the `followUp` in it, which reads git and waits for the old terminal |
| `AcceptSplit`, `Unblock`, `Resolves`, `AfterMove` | the split; `resolveChildCompletion` in every transition |
| `Claim`, `HumanStarts`, `Requeue`, `Complete`, `Cancel`, `Delete`, `Restart` | as in `Orchestrator`, a turn being one status here |

### PauseAll

`row[t].mark` is `paused_turn` (`resume`, `message`, `publish`, `land`), `round` the review
state, `start`, `session`, `backoff`, `loop` and `resuming` the phases a pause can cut, `sweep`
the 15 s between `pauseAll`'s two sweeps. `due` is history: the turn the task was given and has
not finished. `Pause` and `PauseEnds` are the two sweeps, `Drain` the form that raises the flag
alone, `Continue` with `ResumeVerifyRounds` is `continueAll`, `ResumeFires`/`ResumeTurn`/
`LandingEnds` are `resumePaused`, `resumeOne` and `landIfClean`, `ApiFails`/`BackoffFires` the
transient retries. `Restart` is `recoverOnBoot` with a pause on or off; it leaves `due` as it was
in a pause, so that what boot forgets shows. Without `Forced` a restart in a pause waits until no
start and no retry is in memory only (`Caught`), as the restart guard of `index.ts` does for agents
and compactions; a crash does not.

### VerifyLoop

One task from the Stop of a turn to its landing. `row` holds both states with the hash of the
change each is about, `loop` the stage of the pass (`start`, `checks`, `checked`, `review`,
`end`, `lands`; `cut` when a pause stopped the reviewer) and the change it read, `recheck` a Stop
that joined, `fixes` the two budgets; `judged` is history. `Stop`, `PassBegins`, `ChecksPass`,
`ChecksRed`, `ChecksCut`, `ReviewBegins`, `ReviewEnds`, `NextPass` follow `reviewCompletedRun`;
`LandBegins` and `Lands` are `landIfClean` before and after its sync of the PR, with a land whose
checks are red (`Reopened`); `RoundThrows` is the catch; `PassPaused` is `deferLanding`; `Boot` the
release of marks at boot. What a reviewer or a check says is a choice.

### Worktrees

The tree is a set of patches: `dir.dirty` is not committed, `branch` has a base and its own
commits, `detached` a rebase that is under way or was left, `main` is the base branch on the
remote and `track` what was last fetched of it. `NewFile` are the patches that add a file, which git
does not track until they are committed: `landedCheck` (`Shipped`) does not look at those. The `Land...` actions are the git steps of
`land.ts` in order, each of which may fail or be cut by a restart; `LandConflicts` is
`resolveLandConflict`; `LandCleans`, `SweepLooks`, `SweepRemoves` and `Evict` are the ways a
directory goes. `Detours` names the races a behaviour may take (section 5).

### Approvals

Every storage call is a step. `asking`, `taps`, `runs` and `polls` are the request, the
decisions, the execution and the agent's long poll of each row. `Decide` is
`APPROVAL_DECIDE_SQL`, whose `WHERE status = 'pending'` is what two surfaces meet at. `Look`
and `Push` are `pushApproved`; `OthersPush` moves the ref meanwhile.

### Jobs

Times are ticks from now. `run[j]` is the entry of `live`, with the way the run was started
(`advance` takes the slot, `keep` and `paused` are extra runs of `Run now`), its slot and
`suspending`. `Fire`, `RunNow`, `RunEnds` with `Settle`, `Pause` (`suspendAll`), the edits of a human
and `Restart` are the service's methods.

### Dispatches

`status`, `ran`, `session` and `start` are what delivery reads of a task: its row, whether it
has a worker run, its newest terminal, and the start in flight with who asked for it and the
messages it carries. A start has two phases: `kill`, in which `followUp` waits for an idle
terminal to die, and `gate`, up to the spawn. `running` stands for `waiting` too. `msg` is
`tm_dispatches.status`, `used` the budget of a run; `heard` counts (history) how often an agent,
or a finished task as a note, got each message.

| Action | Code |
|---|---|
| `Send`, `CancelMsg` | the agents' route with its two caps, which tries to deliver at once; the human's cancel |
| `Deliver` in `Send` and `Tick` | `deliverDispatches`: targets in any order, until there is no slot |
| `Claim`, `FollowUp` | the scheduler's claims; follow-ups and Run now of a human, fix turns |
| `KillEnds`, `Bounces`, `Spawns`, `SpawnFails`, `StartLost` | `followUp` and `startWorker` with the messages that ride along |
| `TurnEnds`, `Closes`, `Enqueue`, `Settle`, `Delete`, `Restart` | the rest of a task's life |

### HeavySlots

Everything in the class is synchronous, so an action is one call of it with the route,
runner or sweep that makes it. Nine callers end in the same `pump`; `Pump` is that
operator and every action uses it as its caller does. Time is left out: a rule that
fires after so many seconds (`Abandon`, `Unclaim`, `Expire`, `PollEnds`) may fire whenever
the rest of its condition holds, which only adds behaviours. The queue is kept as the order of
the tickets in it (pairs of one and one that stands no later) and not as a sequence: `pump`,
`cancel` and `promote` look for the first that fits and take one out, and an order says that
without positions.

### MCParts

The parts share no variable with each other here (where they touch, each has the other's
effect as a choice: the slot in `TaskWaits`, the round in `PauseAll`, the pause in
`VerifyLoop`). So one run checks several: `part` picks one in the initial state and the
others stay still. It instantiates the `_proofs` module of a part where there is one, so that
`MCParts_proofs` can cite its theorems for the instance. The two parts whose constants it all
leaves open, `TaskWaits` and `Worktrees`, are proved in `MCParts_proofs` itself. `PartsAssumption`
collects what the parts assume of their constants, and TLC evaluates it. A liveness property is stated for its part under the fairness of that part.

## 3. Runs

| Run | Expect | Question | Distinct states |
|---|---|---|---|
| `calm` | pass | the turn lifecycle's type, `Driven`, `NoStrayAgent`, `OneAgentPerTask`, `OneAutoAgentPerRepo`, `StartNotUndone` and the refinement of `Turns`, with restarts, when nobody acts on a task between two states of its turn | 1.8 million |
| `anytime` | pass | `AutoWithinCap`, `ClaimsInOrder` with a human acting at any await | 1.9 million |
| `drains` | pass | `QueueDrains`: every queued task that nobody holds is claimed or taken out | 0.37 million |
| `parts` | pass | the safety of waits, Pause all, verify, approvals, jobs, land and messages | 0.91 million |
| `live` | pass | the heavy slots, and `OncePerSlot`, and what each part must do in the end | 152 thousand |
| `stray`, `double`, `undone`, `held`, `wedge`, `verdict`, `lost` | violation | the findings of section 5 | |

**`Patient`.** Three properties of the turn lifecycle are false when a human acts inside
the windows of section 1: that is what the violation runs show. To say what does hold,
`Patient = TRUE` assumes that nobody acts on a task *between two states of its turn*
(a start past its re-check, a Stop or an exit being settled). It is an assumption about
the environment and not about the code; within it everything else still interleaves:
scheduler, exits, evictions, Stops of other runs, follow-ups of other tasks, aborted
gates, restarts. `anytime` and the first three violation runs do without it, and so do the
theorems about types, claims and slots (section 6); `drains` needs it, for a task stranded by the race of finding 3 holds its
checkout and the queue behind it. `Hurried`, `Forced`, `Detours` and `LandDetours` do the same for
the parts: each member is a race or a case in which the code breaks a promise, which section 5
describes with the property that then fails. What a run can have of them it has: `parts`
has `"red"` (the safety of landings holds with it), `live` has `"pause"` and `Forced`.

**Bounds.** Named constants bound everything: `Run` (spawns), `HumanActions`, `Restarts`,
`Cap`, `MaxLive` and the ones below.

* `calm`: two tasks in one repository, so that each is the other's competitor for the
  checkout; two runs, so that a task can have an old and a new one; two slots and two
  terminals, so that the cap is not what separates them; both positions of the global
  switch; one requester. `Total` allows two requests, or one request and two
  restarts: the second of anything finds what the first left.
* `anytime`: three tasks in two repositories (the least for which a pass has a second
  repository to go on to) and one slot, so that the slot count is what the scheduler
  runs into; one request at any await. Every task stands in a queue at first: a request does
  with a draft what it does with a queued task.
* `drains`: one slot and a pool of one terminal: every refusal (slot, pool, spawn) then
  happens. No symmetry and no view, as it is a liveness run.
* `parts`, waits: three tasks, one of them a piece of another, one slot, one dependency each:
  cycles through a dependency, a wait and a request all fit, and one task is deleted or has its
  wait ended by a human. Pause: two tasks in one repository and two slots; a human
  gives turns with a message, while fresh and publish turns come from claims and landings (the
  human's own as well, `Asked` with all three, 0.19 million states, give the same answers).
  Verify: two changes, so that one can replace the other under a reviewer; one fix turn of
  each kind. Approvals: two requests for one commit, a line of three commits. Jobs: one that
  repeats, here up to a limit of one run and in `live` without a limit, and one that runs once,
  one run at a time (a limit of two gives the same answers). Land: two patches of the agent, one of which adds a file, and one of
  somebody else, two pushes, one restart; a land with two foreign patches and three pushes
  (318 thousand states) gives the same answers. Dispatches: two tasks of one checkout, one
  writes the other a request and a message for information, `MaxMoves` is two: a start can be
  disturbed and the task started anew.
* `live`: the same smaller where a graph of fairness is checked: a task and its piece, one
  slot, no turn by a human, one change, but with the pause in the verify loop, two surfaces and a
  foreign commit for the approvals, and the slots: two worker runs, a lease each, one
  check asked for by a worker that also has a lease and one of the server's own, and a count
  that moves between one and two, which is the smallest instance where a lease, the fuse and a
  check compete for the last slot with one ticket left to be overtaken. Of the messages, one
  request and one move.

**Symmetry and view.** Runs and humans are interchangeable, and the safety runs of the
orchestrator use that; tasks are not (they have a rank). The view `Seen` drops what no later
step reads: the status before a start of a task outside a turn, the flags of a session
that is gone. Neither is used in a liveness run.

**Fairness.**

* Orchestrator: weak fairness of what the event loop gets round to: the pass, the 10 s tick,
  each start and exit in flight, the Stop hook that sleeps, the review that runs, the five
  seconds of a follow-up, a session told to go. Strong fairness of two things that are offered
  again and again and may fail each time: a Stop that ends the turn (an agent may park in
  `waiting` many times, but not for ever) and a hand-off commit that succeeds. `Swept` is weak
  fairness of the TTL sweep; `wedge` leaves it out. Nothing is assumed of a human.
* Waits: a turn ends, the day of a wait passes, a resume in flight comes back; the sweep, which
  runs at every end of a turn and every 10 s, finds a free slot if there is one again and again
  (`[]<>SlotFree`: humans' own starts do not fill every slot for ever).
* Pause, jobs, verify: what is promised is promised once humans stop and restarts are over
  (`<>[][~Disturbance]`); from then on the calls in flight and the passes are fair.
* Dispatches: passes come, starts and turns end, a killed agent dies (weak). A spawn that fails
  and is tried again by the same kind of start (a claim, a delivery) succeeds at some time
  (strong). Nothing of humans or of the TTL sweep.
* Approvals: the server goes on with what it has begun. Nothing of the human or of the remote.
* Heavy slots: the end of a check (it has a timeout and is killed past it) and the one-hour
  limit of a lease; an agent may poll for ever and never release.

Each property has a mutant in `PROJECT.json`: a plausible bug, written as an operator
beside the definition it replaces, under which the same run finds the property violated.

## 4. Properties

* `Driven` - a task that reads `running` or `waiting` has a start in flight, or its
  newest run is at work or will settle it. Boot recovery, refused spawns, failed starts,
  ignored Stops and killed runs could each break it.
* `NoStrayAgent` - an agent works only for a task in a turn.
* `OneAgentPerTask` - no second agent while another one, though told to go, still works.
* `OneAutoAgentPerRepo` - two turns no human asked for never edit one checkout, although
  two statements with different holder tests hand them out.
* `AutoWithinCap` - automatic agents never exceed the slots, also while turns are in a
  gate or parked in `waiting`.
* `ClaimsInOrder` - the scheduler starts no held task, and no member before an older
  waiting one of its repository; the claim comes an await after the look.
* `HeldRepoWaits` - no member starts in a repository held between a turn and its follow-on.
* `StartNotUndone` - what a start in flight began, no Stop or exit of an earlier run ends.
* `TurnsImplemented` - every step of the lifecycle is a step of `Turns` or none.
* `QueueDrains` - liveness of both queues.
* `GrantsInOrder`, `NoSlotIdle`, `PollsAnswered`, `LeaseOfLiveRun`,
  `CheckGetsSlot` - the heavy slots' promises, one per caller that could break them.
  `CheckGetsSlot` includes the case where a lease of the check's own task is granted in
  front of it: the route refuses a check behind a *held* lease, not behind a waiting one,
  and only the one-hour limit resolves that.
* `NoWaitCycle` - no chain of dependencies, parked waits and waits only asked for comes back
  to where it began; `WaitKept` (with `ParkKept`) - a park is in the row, in the order of the
  sweep and nowhere else, and only its own end or a human's click releases it; `ParentLands` -
  no parent stays blocked behind settled pieces; `ResumesWithinCap` - resumes that are still
  reading git count; `WaitsEnd`.
* `TurnKept`, `RoundKept`, `CutWorkUndisturbed`, `OwedGiven` - what `docs/pause.md` promises:
  a turn, a message on its way and a round survive the pause in whatever phase it finds them,
  nobody is started in the checkout meanwhile, and Continue gives all of it back. `TurnKept` compares
  with what was owed (`due`), a message as long as it has not reached the agent.
* `LandsReviewed`, `LandsChecked` - a tier lands a change only on a clean verdict, or green
  checks, *about that change*; `RoundAlive`, `VerifySettles` - no badge says auto-review for
  ever, and fix turns and re-reviews come to rest.
* `WorkKept`, `LandsJudged`, `PublishedIsLanded` - of a worktree: nothing written is lost (once the
  task has landed: nothing committed or written to a tracked file), what is pushed was judged as
  it is pushed, and a task becomes published only with all of that on the base branch.
* `PushedAsApproved`, `PollsHear`, `ApprovalEnds` - approvals: the push is the one described,
  once, with whichever surface answering first; the poll that stands open hears of it.
* `RunningIsLive`, `OncePerSlot`, `DueJobsRun` - jobs, over Run now, pauses and restarts.
* `HandedOver` - nobody gets a message twice, none reads delivered that nobody got, and a turn,
  whoever started it, begins with all its task was to know; over refused spawns, stopped gates,
  bounces, cancelled targets and restarts. `RequestsSettle` - a request does not stay pending for
  ever, unless it is for a draft that nobody has run.

## 5. Findings

1. `stray`: a cancel, undo or kill between the last status check of a start and its spawn
   does not stop the start. A comment in `cancel` says the check covers it.
2. `double`: a follow-up goes on, after up to five seconds, with the status it read before;
   a Run now in between yields two agents for one task.
3. `undone`: the exit or Stop of an earlier run settles the task while the newer start has
   no run row yet, which both guards look for.
4. `held`: the held repositories are read once per pump, which goes on over several awaits.
5. `wedge`: with the TTL sweep off, idle terminals at the limit stop the custom queue for
   good; comment and design document say the pressure eviction prevents that, but the pump's
   own guard stands in front of it.
6. `verdict`: a turn given while the reviewer reads, whose session ends with code 0 before
   its Stop, lands on the verdict about the change it replaced.
7. `lost`: a follow-up while the server waits for GitHub to confirm a land works in a
   directory that the clean-up then deletes with its branch.

The quotations and lines are in `PROJECT.json`, "findings".

**Observations.** Smaller things met while modelling, each a step of the code that text or
intent does not quite cover. Those marked with a constant can be reproduced by setting it.

* Pause. Continue pressed before a stopped compaction settles parks its task unmarked, and
  before a suspended terminal is dead (5 s) releases the marker (`Hurried = TRUE`;
  `orchestrator.ts:4008-4040`). A start past its pause check spawns after both sweeps; the second
  sweep may come after Continue and suspends again. A back-off whose terminal died does not
  hold its repository.
* Boot in a pause (`Forced = TRUE` breaks `TurnKept` in four steps, and `CutWorkUndisturbed`). Boot
  marks every task it finds in a turn `{kind: 'resume'}` or `publish` (`orchestrator.ts:2032-2038`,
  `2096-2097`), so the message of a follow-up that was in its gate is lost, a publish turn in its gate
  becomes a resume, a task that never ran is failed, and a back-off a drain left without a
  terminal is forgotten. `docs/pause.md:171-172` says "Boot recovery treats anything it finds cut as
  owed". The restart guard (`index.ts:383-411`) waits for agents at work and compactions; a crash
  does not.
* Verify (`Detours` with `"red"` breaks `RoundAlive` in seven steps, and `VerifySettles`). A land whose
  checks are red makes them pending again and calls `reviewCompletedRun` (`orchestrator.ts:4753-4762`).
  When the land was the end of a round (`auto-publish`, or the land again after a conflict), that
  round is still in `pendingReviews`, so the call only joins it (`5580-5583`); the round
  returns without looking (`5684`) and its `finally` drops the request (`5707`). The task stays in review with
  checks pending and nobody working on it until a boot or a Continue, although its error says "the
  verify loop runs again" and the comment at `4653-4659` that "red checks on the rebased change re-open
  the verify loop". A land a human asked for outside a round does start one (`ResumeOwed`
  has that case for a landing that is owed).
* Verify (`"late"` breaks `RoundAlive` in nine steps). `landIfClean` syncs the PR, up to a minute, after the
  round has looked for a recheck (`5681`, `5780`): a follow-up whose Stop falls into that time, or
  into the few seconds of a git read, joins a round that will not look again.
* Verify and pause (`Detours` with `"early"`). Continue before a stopped reviewer settles records
  an error, or is missed by `resumeVerifyRounds` and leaves the row pending until the next boot. A drain, a follow-up and
  a second Stop while the reviewer reads mark `land` for a change nobody read. A red check held by a
  pause drops the review that was due. Review now on a task owed a turn lands a half-done
  change. The boot re-runs rounds of tasks that are owed a turn. `handleExit` clears
  `review_state` but not `check_state`.
* Waits. A piece that waits for its own blocked parent is not seen as a cycle, and ends after
  the 24 hours of `WAIT_MAX_MS`. A pause during a resume's git call loses the wait. The resume by
  hand and the one by the sweep do not see each other. Deleting the last unresolved piece strands
  its parent, and a nested parent that lands does not resolve its own.
* Land (`LandDetours`). `"cut"`: a restart or failure between rebase and checks leaves the
  rebased tree, which the next Publish takes as judged (`land.ts:211`). `"rebase"`: a turn on a rebase
  left half done commits to a detached head that the next land's `rebase --abort` drops.
  `"asked"`: a follow-up between Publish's busy test and its landing mark is killed and its
  half-done work landed. A crash between the push and `settlePublish` makes the next Publish fail
  with nothing to land. `worktreeSweep` has the race of finding 7 with a stale list.
* A new file after a land (`NewFile`). `landedCheck` ignores untracked files (`land.ts:48-50`), so a
  task that landed once and whose follow-up adds a file without committing it counts as landed:
  `on-green` makes it published (`orchestrator.ts:5819-5830`), and the clean-up removes directory and
  branch without committing what is left (`worktrees.ts:711-722`). The comment at `land.ts:41-45` wants
  "what the task has NOW" landed too. `WorkKept` and `PublishedIsLanded` therefore except a new file
  after a land; with `NewFile` empty they say all is kept.
* Approvals. The cap can be exceeded by concurrent requests. Between `ls-remote` and `git push` the
  ref may move to a commit that is still an ancestor, and the push goes through.
* Jobs. A Run now of a future slot that is suspended, interrupted or retried is then run as the
  slot itself. Extra runs count towards `maxRuns`. A paused job whose Run now is cut by a restart
  becomes scheduled. A new schedule set during a run is overwritten by its end. Over Postgres, with
  two runs at a time, the end of one may delete the live entry of another.
* Dispatches. `repoBusy` looks at terminals, and at the turns delivery itself has on their way,
  and not at other starts in the gate; nor does a claim see a delivery that still waits for the
  old terminal, or a turn in `kill`. So two agents nobody asked for may start in one checkout
  (three tasks, `MaxMoves = 0`), although `docs/dispatch.md` says a delivery is held while another
  agent edits the repository (`orchestrator.ts:3452-3455`). A draft that was cancelled without
  ever running is started by a request, as the test for a draft looks at the status only
  (`orchestrator.ts:3443-3446`). A message cancelled while its turn is in the gate is in the
  prompt, and reads cancelled. A delivery refused at the terminal cap leaves a finished target
  `queued`, and a target whose spawn fails is tried again in each pass. A delivery does not look
  at verify rounds or owed turns of other tasks in the checkout.

## 6. Theorems

TLC checks an instance; what follows is proved by TLAPS for any tasks, repositories, runs,
requests and limits. Each part has its theorems in its `_proofs` module, `TaskWaits` and
`Worktrees` in `MCParts_proofs`; that module also says what the others mean for the behaviours of
`MCParts`, so that each property of a run of `MCParts` that is proved has a theorem under its own
name. An inductive invariant named below was checked
by TLC, as an invariant of the run of its part, before it was proved.

| Property | Theorem | Under |
|---|---|---|
| `TypeOK`, `ClaimsInOrder`, `AutoWithinCap` | `Orchestrator_proofs`: `TypeCorrect`, `InOrder`, `WithinCap` | the assumptions of `TaskStore` and `Orchestrator` |
| `Driven`, `NoStrayAgent`, `OneAgentPerTask`, `StartNotUndone`, `OneAutoAgentPerRepo`, `TurnsImplemented` | `NeverStranded`, `NoStray`, `OneAgent`, `StartsKept`, `OneTurnPerCheckout`, `TurnsRefined` | the same, and `Patient` |
| `NoWaitCycle`, `WaitKept`, `ResumesWithinCap` | `MCParts_proofs`: `NoCycle`, `WaitsKept`, `WithinCap` | the assumptions of `TaskWaits` |
| `ParentLands` | `ParentsLand` | the same, and `FlatAssumption` |
| `NoSlotIdle`, `PollsAnswered`, `LeaseOfLiveRun`, `GrantsInOrder` | `HeavySlots_proofs`: `Busy`, `Answered`, `LeasesDie`, `Grants` | `TicketAssumption`, `SlotsAssumption` |
| `PushedAsApproved`, `PollsHear` | `Approvals_proofs`: `PushesOnce`, `Hears` | `CommitAssumption` |
| `RunningIsLive`, `OncePerSlot` | `Jobs_proofs`: `RunningAlive`, `Once` | `JobAssumption` |
| `RoundAlive` | `VerifyLoop_proofs`: `RoundsLive` | `NoChangeAssumption`, `BudgetAssumption`, `Detours` at most `"pause"` |
| `LandsReviewed`, `LandsChecked` | `Reviews`, `Checks` | the same two, `Detours` without `"pause"`, `"exit"` and `"late"` |
| `RoundKept` | `PauseAll_proofs`: `RoundsSurvive` | `AskedAssumption`, `~Hurried` |
| `TurnKept`, `CutWorkUndisturbed` | `TurnsSurvive`, `CutWorkStays` | the same, and `~Forced` |
| `WorkKept`, `PublishedIsLanded` | `MCParts_proofs`: `LandsKeepWork`, `PublishesAll` | `TriesAssumption`, `PatchAssumption`, `LandDetours` at most `"cut"` |
| `LandsJudged` | `LandingsJudged` | `TriesAssumption`, `LandDetours` at most `"cleanup"` and `"rebase"` |
| `HandedOver` | `Dispatches_proofs`: `HandsOver` | `MessageAssumption`, `BoundsAssumption` |
| `PartsTyped` | `MCParts_proofs`: `PartsKeepTypes` | those of all parts, `~Hurried` |

**Assumptions.** Those on constants say what the constants are (finitely many tasks, limits that
are naturals, tickets with a worker each, a line of commits in which each is below itself) and
TLC evaluates them in every run. The others say which behaviours are meant, and each has a
counterexample where it does not hold:

* `Patient`, `~Hurried`, `~Forced` and those on `Detours` and `LandDetours` are those of section 3:
  findings 1 to 3, 6 and 7 and the observations on pauses, boot, rounds and lands are what
  happens otherwise.
* `FlatAssumption`: no piece of a split is deleted by hand, and none is itself split. For
  those the code does leave a parent blocked (section 5, waits).

**Arguments.**

*Types and queue order* (`Inv == TypeOK /\ Named /\ Places`). `TypeOK` alone is not inductive:
`CreateRun` writes `owner[RepoOf[start[s].task]]`, so one must know that a start in flight names
a task and not `NoTask`; `Named` says so for starts, sessions, sleeping Stops and the pump's
head. `ClaimsInOrder` needs `Places`: two members never share a mark. The claim re-selects the
*oldest eligible* member, which gives `<=`; an older waiting member of the repository is
eligible whenever the head is (the head itself, being queued, holds nothing), and with
distinct marks `<=` becomes `<`. `Places` is inductive because only `QueueAdd` writes a mark
other than 0 or the old one, and its stamp is behind all others.

*Slots of the scheduler* (`SlotInv`). What a pass counted free must still be free three awaits
later. Runs that have not started have no past (`RunsFresh`), the start of the scheduler owns the
run it made (`OwnRun`), a pass that has a start in flight is not looking for another
(`PassBusy`), and then the number of automatic agents is below `Cap` while one is on its way
(`SlotLeft`).

*One turn per task* (`CalmInv`, `CheckoutInv`). `TurnOK(t)` relates everything in flight of one
task: which of its starts may exist in which status (`StartOK`), which of its runs may still
settle it (`RunOK`), and that nothing else of it is in flight (`Quiet`). Each action is a lemma
about the task it touches, and two frame lemmas (`Left`, `Touches`) keep all others. Under
`Patient` this gives five of the properties, and the refinement: `Phase` reads a task's turn off
the state in the order of `Turn`, `TurnIsPhase` shows that they agree, and one lemma per action
shows the step of `Turns` that it is. What `Turns` keeps then holds of the orchestrator: a
status says the truth about the turn (`StatusIsTrue`), which is proved of `Turns` alone.

*Waits*. Edges come from three sources (dependencies, parks, requests), and each is added only
when its end does not reach its start. Without induction over paths the proof keeps a
certificate (`Acyclic`): for each task a set of tasks that is closed under the edges, holds all
the task comes after, and does not hold the task itself. Fewer edges need no new one, and for an
edge that passed the test the set the test computed (`Reach`) is one, of which the intersections
and unions with the old ones make those of the other tasks (`AcyclicGrows`). `ResumesWithinCap`
rests on the sweep's count, which includes the resumes that are still reading git.

*Heavy slots* (`SlotsOK`). The queue is a line (total, transitive, of the waiting tickets only).
Among the tickets a pump could grant, the number of those before a ticket is its rank, and the
ranks are `0 .. n-1`, each once (`Ranks`); so a pump admits as many as there are free slots, or
all (`GrantedCount`), and never one before an older one that fits (`GrantedBefore`). Every caller
ends in `Pump`, so one lemma about it serves nine actions.

*Approvals* (`Inv`). Who has decided a row and not told of it yet is alone, and the row is as
it decided (`OneTeller`); only an approved row begins to run, and nobody else writes it while it
does (`RunOfApproved`); a row whose commit went out is past its push (`PushedOnce`).

*Jobs* (`Inv`). `OncePerSlot` compares two runs that may lie far apart. `Spaced` carries it from one to
the other: since the last run that was counted, and as long as nobody planned or ran the job by
hand, the next slot lies a full cadence behind the slot of that run, and behind its end.

*Verify loop* (`AliveInv`, `LandInv`). `Stages` says where the two states of a row may stand at
each stage of the pass. What lands was judged because what a pass read stays what the task has as
long as it stays parked and no Stop has joined the pass (`Current`); `Checked` and `Reviewed` then
carry the verdict from the stage that wrote it to the landing.

*Pause all* (`Fit`). A turn can be in seven places: the row and its marker, a start, a terminal, a
retry, a resume that is on its way, the round, and the history of what is due. `Fit(t)` says
how they go together, in seven parts. The parts that are not obvious are what they say of races: a
marker is never on a task whose terminal still dies unless the pause is on (`MarkFit`), so that a
resume that is refused gives up only a turn without a session on disk, for which nothing can be
done (`ResumeFit`); a retry whose terminal died has no round (`BackoffFit`). `TurnKept` is part
of it, so the proof has one lemma per action.

*Worktrees* (`KeepInv`, `JudgeInv`). What the agent wrote is on the base branch, on the branch or in the
directory. That a step which drops one of the three drops nothing that is there alone needs:
what a branch is based on, was fetched or is rebased onto has landed (`OnMain`); a rebase under way
or left half done has no commit of its own and a clean directory (`HalfDone`); a published task has landed with all it wrote to tracked files
(`Delivered`); and nobody works in a
directory that a land or a removal is about to take (`Alone`). Without `"cleanup"`, `"asked"` and
`"rebase"`, the races in which somebody does, that is inductive, also over lands that a crash cuts
anywhere (`"cut"`). `LandsJudged` is about other races, so it has an invariant of its own: the tree
a land began with was judged (`SeenCleared`) and a task comes to rest only with a tree that
was (`RestCleared`). A land rebased and not yet checked is the one place where it is not, which
is why `"cut"` breaks it and a turn on a removed directory does not.

*Dispatches* (`Inv`). A start carries messages over the seconds in which the old terminal dies, and
only their rows say meanwhile that nobody has read them. `CarriesUnread` says what may become of
these: a human takes one back, or it fails with its task, and then no agent starts. So each message
in a prompt is told for the first time, and one that failed is never told. `Delivers` states once
what a pass does to rows and starts, whatever its cap and the order of its visits, and the proofs
use only that.

**Only model-checked.** What holds under fairness only: `QueueDrains`, `CheckGetsSlot` and the other
properties of `live` that end in a diamond, which the prover does not handle; and the violations.
`HeldRepoWaits` is false (finding 4), so there is nothing to prove. All other properties of the
passing runs are proved.

## 7. Abstractions and what is not modelled

* One event loop; storage calls do not cut an action (default driver), except in `Approvals`.
  With Postgres each is an await: more interleavings than are modelled elsewhere.
* In `Orchestrator`, repositories are `direct` (one holder per checkout) and a verify round is
  one flag, opened by a Stop and closed by `ReviewEnds`; `Worktrees` and `VerifyLoop` have what
  is behind the two. Whether a check is still due when a task is enqueued is nondeterministic.
* The 30 minutes after which a hold ends by itself are left out: a hold ends by its events.
* Which idle terminal the pressure eviction takes is nondeterministic, within the number it
  takes at most.
* The stamp of a click is later than every earlier one: two clicks in one millisecond are not
  modelled.
* In `TaskWaits` each task has a checkout of its own; in `PauseAll` all tasks share one.
* `VerifyLoop` has one task, and what a reviewer says does not depend on the change. A running
  check is cut within seconds of a takeover, and git reads and the sync of the PR are short, so a
  turn may start in them but, without `"late"`, not end.
* In `Worktrees` patches never depend on each other: a rebase keeps or gives up all of them. Nobody
  merges the change on GitHub, so the branch of `landedCheck` that accepts a tip older than the
  newest landed commit (`land.ts:57-59`) is left out.
* In `TaskWaits` a wait has its age and place in line from its park, in the code from its request,
  earlier in the same turn. In `Orchestrator` an exit closes the round of both kinds, and a follow-up
  with an idle terminal to kill starts only when no other session of the task is at work.
* In `Dispatches` a task has one start at a time (the races of two are in `Orchestrator`), and the
  targets of a pass are visited in any order.
* In `Approvals` a push stands for all four actions; in `Jobs` no time passes between the
  storage calls around a run.

Not modelled: overflow claims (credits of live creators), wake-ups after a usage
limit, loops, questions, publish turns of the shared checkout, pull requests, retargeting of a
base branch, push health, features' phases, queue reorder (planned, section 8); budgets, the
memory fuse and pressure sampling (arithmetic over samples whose result is an input here);
the host supervisor's delayed restart (a restart may come at any time here, which is more);
chat, auxiliary sessions and offices (subsystems with tables of their own that meet the core
only at the terminal cap); shared spaces, reports, transcripts, statistics, push, Telegram,
Sentry, WebSocket, settings, the clients and the scripts (text, rendering and I/O).

## 8. Plan

1. Done: `TaskStore`, `Orchestrator`, `Turns`, `HeavySlots`, `TaskWaits`, `PauseAll`,
   `VerifyLoop`, `Worktrees`, `Approvals`, `Jobs`, `Dispatches`, their runs, the first theorems, the
   refinement of `Turns`.
2. Done: theorems for all safety properties of the passing runs. Next: what comes with the
   modules below.
3. Modules: `QueueReorder` (`planQueueReorder` against a reference over bounded lists), `SessionPool`
   (clients, ages, order of eviction), overflow claims in `TaskStore`, loops in `VerifyLoop`.
