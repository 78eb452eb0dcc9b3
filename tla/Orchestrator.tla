--------------------------- MODULE Orchestrator ---------------------------
(***************************************************************************)
(* The life of a task under server/src/orchestrator.ts: the scheduler pass *)
(* that claims queued tasks, the several-await path that turns a claimed   *)
(* task into a live agent session, the Stop hook and the exit handler that *)
(* settle its turn, and the human requests that arrive at any await in     *)
(* between.                                                                *)
(*                                                                         *)
(* The process is one event loop: an action is what runs between two       *)
(* awaits that leave it (git, a transcript read, a timer, a child          *)
(* process).  Storage calls do not cut an action, for the default driver   *)
(* answers synchronously; a scheduler pass runs on to its next such await  *)
(* before anything else does.                                              *)
(***************************************************************************)
EXTENDS TaskStore

CONSTANTS
    Run,            \* ids of worker runs (tm_runs rows), a bound on spawns
    Human,          \* human requests that can be in flight at once
    Sched,          \* the scheduler, the other caller of startWorker
    NoTask, NoRun,
    Cap,            \* orchestrator.concurrency
    MaxLive,        \* MAX_LIVE_SESSIONS
    Switch,         \* the positions a pass may find orchestrator.enabled in,
                    \* the switch of the global queue
    Patient,        \* TRUE: nobody acts on a task while its turn is between
                    \* two states (a start past its re-check, an exit or a
                    \* Stop being settled); FALSE: anybody may
    HumanActions,   \* bound: human requests in a behaviour
    Restarts        \* bound: server restarts in a behaviour

ASSUME SchedAssumption == Sched \notin Human
ASSUME NoTaskAssumption == NoTask \notin Task
ASSUME NoRunAssumption == NoRun \notin Run
ASSUME LimitsAssumption == /\ Cap \in Nat /\ MaxLive \in Nat
                           /\ HumanActions \in Nat /\ Restarts \in Nat
ASSUME SwitchAssumption == Switch \subseteq BOOLEAN /\ Patient \in BOOLEAN

Starter == Human \cup {Sched}

VARIABLES
    row,        \* tm_tasks
    before,     \* the status each task had before its last start (events)
    runTask,    \* tm_runs.task_id
    runStatus,  \* tm_runs.status
    latest,     \* the newest run of each task (listRuns newest first)
    owner,      \* the task of each repository's newest run (treeOwner)
    sess,       \* the PTY of each run, as SessionManager and its exit see it
    idle,       \* runs whose session is flagged idle
    dying,      \* live sessions that got SIGHUP
    auto,       \* runs whose present turn no human asked for
    start,      \* startWorker calls in flight, one per caller
    stops,      \* runs whose Stop hook sleeps in settleStop
    holds,      \* customQueueHold
    reviewing,  \* pendingReviews
    sched,      \* the scheduler pass
    acts,       \* human requests made so far
    restarts    \* restarts so far

store    == <<row, before>>
sessions == <<runTask, runStatus, latest, owner, sess, idle, dying, auto>>
bounds   == <<acts, restarts>>
vars == <<store, sessions, start, stops, holds, reviewing, sched, bounds>>

NotStarting == [pc |-> "off", task |-> NoTask, run |-> NoRun,
                resume |-> FALSE, abort |-> FALSE]

StartRecord ==
    [pc : {"off", "kill", "gate", "base", "row"}, task : Task \cup {NoTask},
     run : Run \cup {NoRun}, resume : BOOLEAN, abort : BOOLEAN]

SchedRecord ==
    [pc : {"off", "begin", "custom", "handoff", "customStart", "base",
           "baseStart", "end", "disabled"},
     skip : SUBSET Repo, head : Task \cup {NoTask}, again : BOOLEAN]

TypeOK ==
    /\ row \in [Task -> Row]
    /\ before \in [Task -> Status]
    /\ runTask \in [Run -> Task \cup {NoTask}]
    /\ runStatus \in [Run -> {"unused", "running", "exited", "killed"}]
    /\ latest \in [Task -> Run \cup {NoRun}]
    /\ owner \in [Repo -> Task \cup {NoTask}]
    /\ sess \in [Run -> {"none", "live", "evicted", "settling", "gone"}]
    /\ idle \in SUBSET Run /\ dying \in SUBSET Run /\ auto \in SUBSET Run
    /\ start \in [Starter -> StartRecord]
    /\ stops \in SUBSET Run
    /\ holds \in SUBSET Task /\ reviewing \in SUBSET Task
    /\ sched \in SchedRecord
    /\ acts \in 0 .. HumanActions /\ restarts \in 0 .. Restarts

Asleep == [pc |-> "off", skip |-> {}, head |-> NoTask, again |-> FALSE]

\* The pass runs once at a time; a call meanwhile only leaves a note.
Woken(s) == IF s.pc = "off" THEN [s EXCEPT !.pc = "begin"]
                            ELSE [s EXCEPT !.again = TRUE]

NewRow(st, place) == [status |-> st, mark |-> place, held |-> FALSE,
                      verify |-> FALSE, parked |-> FALSE]

\* The places in the custom queue are 1, 2, ...
InPlace(table) == \A t, u \in Task :
    /\ table[t].mark = table[u].mark /\ table[t].mark > 0 => t = u
    /\ table[t].mark > 1 => \E v \in Task : table[v].mark = table[t].mark - 1

\* A server that has just started on a database of drafts and queued tasks,
\* some of them members of the custom queue, with nothing running.
Init ==
    /\ row \in [Task -> {NewRow("draft", 0)} \cup
                       {NewRow("queued", n) : n \in 0 .. Cardinality(Task)}]
    /\ InPlace(row)
    /\ before = [t \in Task |-> "queued"]
    /\ runTask = [r \in Run |-> NoTask]
    /\ runStatus = [r \in Run |-> "unused"]
    /\ latest = [t \in Task |-> NoRun]
    /\ owner = [g \in Repo |-> NoTask]
    /\ sess = [r \in Run |-> "none"]
    /\ idle = {} /\ dying = {} /\ auto = {}
    /\ start = [s \in Starter |-> NotStarting]
    /\ stops = {} /\ holds = {} /\ reviewing = {}
    /\ sched = Woken(Asleep)
    /\ acts = 0 /\ restarts = 0

---------------------------------------------------------------------------
(* Sessions *)

Live(r) == sess[r] = "live"

AtWork(r) == Live(r) /\ r \notin idle

LiveRuns == {r \in Run : Live(r)}

\* Mutant of HasLive: a session being killed is taken for gone.
HasUnkilled(t) == \E r \in Run : runTask[r] = t /\ Live(r) /\ runStatus[r] = "running"

HasLive(t) == \E r \in Run : runTask[r] = t /\ Live(r)

\* Mutant of Killable: the runs a human started are forgotten.
KillableAutoOnly(t) == {r \in auto : runTask[r] = t /\ runStatus[r] = "running"}

\* SIGHUP to every run of t whose row still says running, which is marked
\* killed first so that its exit moves nothing.
Killable(t) == {r \in Run : runTask[r] = t /\ runStatus[r] = "running"}

KillAll(rs) ==
    /\ dying' = dying \cup {r \in rs : Live(r)}
    /\ runStatus' = [r \in Run |-> IF r \in rs THEN "killed" ELSE runStatus[r]]

---------------------------------------------------------------------------
(* maybeSchedule *)

Wake == sched' = Woken(sched)

\* activeWorkers: working sessions and the turns inside a start's gate.
Gated == {start[s].task : s \in {s \in Starter : start[s].pc = "gate"}}

\* Mutant of ActiveWorkers: a turn that waits for subagents frees its slot.
ActiveUnparked == Cardinality({r \in Run : AtWork(r) /\ row[runTask[r]].status # "waiting"})
                  + Cardinality(Gated)

ActiveWorkers == Cardinality({r \in Run : AtWork(r)}) + Cardinality(Gated)

\* repoBusy: another task's session works in the repository.
RepoBusy(t) == \E r \in Run : /\ AtWork(r) /\ runStatus[r] = "running"
                              /\ SameRepo(t, runTask[r])

\* customQueueHeldRepos drops the holds that no longer apply and reports the
\* repositories of the others.
LiveHolds == {t \in holds : Member(row, t) /\ row[t].status = "review"}

---------------------------------------------------------------------------
(* startWorker *)

\* What the caller does with the answer: the pump goes on and skips the
\* repository of a failed start, the global loop stops claiming.
Answered(s, ok) ==
    IF s # Sched THEN sched
    ELSE IF sched.pc = "customStart"
    THEN [sched EXCEPT !.pc = "custom", !.head = NoTask,
                       !.skip = IF ok THEN @ ELSE @ \cup {RepoOf[start[s].task]}]
    ELSE [sched EXCEPT !.pc = IF ok THEN "base" ELSE "end"]

StartOver(s) == start' = [start EXCEPT ![s] = NotStarting]

\* Remember the status a start leaves, for Undo start.
NotedBefore(t) ==
    IF Working(row, t) THEN before ELSE [before EXCEPT ![t] = row[t].status]

\* The first stretch of startWorker on a task just moved to running in
\* `moved`: a live session sends it to review, a resume enters the compaction
\* gate, a fresh start goes straight to the base commit.
EnterStart(s, t, resume, moved) ==
    IF HasLive(t)
    THEN /\ row' = Transition(moved, t, {"running"}, "review")
         /\ StartOver(s)
    ELSE /\ row' = moved
         /\ start' = [start EXCEPT ![s] =
                [pc |-> IF resume THEN "gate" ELSE "base", task |-> t,
                 run |-> NoRun, resume |-> resume, abort |-> FALSE]]

\* The gate was aborted: the task is parked in review.
GateAborted(s) ==
    /\ start[s].pc = "gate" /\ start[s].abort
    /\ row' = Transition(row, start[s].task, {"running"}, "review")
    /\ StartOver(s)
    /\ UNCHANGED <<before, sessions, stops, holds, reviewing, sched, bounds>>

\* The gate is through: the start goes on only while the task is running.
GatePassed(s) ==
    /\ start[s].pc = "gate" /\ ~start[s].abort
    /\ IF row[start[s].task].status = "running"
       THEN start' = [start EXCEPT ![s].pc = "base"]
       ELSE StartOver(s)
    /\ UNCHANGED <<store, sessions, stops, holds, reviewing, sched, bounds>>

\* ensureBase answered: the run row is written.
CreateRun(s) ==
    /\ start[s].pc = "base"
    /\ \E r \in Run :
        /\ runStatus[r] = "unused"
        /\ runTask' = [runTask EXCEPT ![r] = start[s].task]
        /\ runStatus' = [runStatus EXCEPT ![r] = "running"]
        /\ latest' = [latest EXCEPT ![start[s].task] = r]
        /\ owner' = [owner EXCEPT ![RepoOf[start[s].task]] = start[s].task]
        /\ auto' = IF s = Sched THEN auto \cup {r} ELSE auto
        /\ start' = [start EXCEPT ![s].pc = "row", ![s].run = r]
    /\ UNCHANGED <<store, sess, idle, dying, stops, holds, reviewing, sched,
                   bounds>>

\* Sessions the manager may still hold, those that ended included.
Kept == {r \in Run : sess[r] \in {"live", "settling", "gone"}}

\* SessionManager.spawn: with the map full, idle sessions nobody watches make
\* room, the longest ended or idle first; MaxLive sessions at work refuse the
\* spawn, and the task goes back to the queue.
Spawn(s) ==
    LET r == start[s].run
        t == start[s].task
        full == Cardinality({q \in Run : AtWork(q)}) >= MaxLive
    IN  /\ start[s].pc = "row"
        /\ \E out \in SUBSET {q \in LiveRuns : q \in idle} :
            /\ out # {} => Cardinality(out) <= Cardinality(Kept) - MaxLive + 1
            /\ sess' = [q \in Run |-> IF q \in out THEN "evicted"
                                      ELSE IF q = r /\ ~full THEN "live"
                                      ELSE sess[q]]
        /\ IF full
           THEN /\ runStatus' = [runStatus EXCEPT ![r] = "exited"]
                /\ row' = Transition(row, t, {"running"}, "queued")
           ELSE UNCHANGED <<runStatus, row>>
        /\ sched' = Answered(s, ~full)
        /\ StartOver(s)
        /\ UNCHANGED <<before, runTask, latest, owner, idle, dying, auto, stops,
                       holds, reviewing, bounds>>

\* The PTY or the prompt could not be made: the task fails.
SpawnFails(s) ==
    /\ start[s].pc = "row"
    /\ runStatus' = [runStatus EXCEPT ![start[s].run] = "exited"]
    /\ row' = Transition(row, start[s].task, {"running"}, "failed")
    /\ sched' = Answered(s, FALSE)
    /\ StartOver(s)
    /\ UNCHANGED <<before, runTask, latest, owner, sess, idle, dying, auto, stops,
                   holds, reviewing, bounds>>

---------------------------------------------------------------------------
(* The scheduler pass *)

\* The 10 s safety tick.
Tick == /\ Wake
        /\ UNCHANGED <<store, sessions, start, stops, holds, reviewing, bounds>>

PassBegins ==
    /\ sched.pc = "begin"
    /\ holds' = LiveHolds
    /\ sched' = [pc |-> "custom", skip |-> {RepoOf[t] : t \in LiveHolds},
                 head |-> NoTask, again |-> FALSE]
    /\ UNCHANGED <<store, sessions, start, stops, reviewing, bounds>>

\* handOffCheckout: the task whose worker ran last in the checkout still
\* works there or is being verified, so nothing of it is committed yet.
OwnerWorks(g) == /\ owner[g] # NoTask
                 /\ Working(row, owner[g]) \/ VerifyOpen(row, owner[g])

\* Past the pump, the global queue has its turn when its switch is on.
AfterPump(on) == IF on THEN "base" ELSE "disabled"

\* pumpCustomQueue looks at the next head; the repository is out of the pass
\* either way, and a busy one is not claimed in.
PumpLooks ==
    LET heads == CustomHead(row, sched.skip)
        out(t) == RepoBusy(t) \/ OwnerWorks(RepoOf[t])
    IN  /\ sched.pc = "custom"
        /\ IF ActiveWorkers < Cap /\ Cardinality(LiveRuns) < MaxLive /\ heads # {}
           THEN LET t == CHOOSE t \in heads : TRUE
                IN  sched' = [sched EXCEPT !.skip = @ \cup {RepoOf[t]},
                                           !.pc = IF out(t) THEN @ ELSE "handoff",
                                           !.head = IF out(t) THEN @ ELSE t]
           ELSE \E on \in Switch : sched' = [sched EXCEPT !.pc = AfterPump(on)]
        /\ UNCHANGED <<store, sessions, start, stops, holds, reviewing, bounds>>

\* The hand-off commit ended (only a left checkout has one that can fail), and
\* the head is claimed by id: the statement looks again whether it is still
\* its repository's head.
PumpClaims(ok) ==
    LET t == sched.head
    IN  /\ sched.pc = "handoff"
        /\ ~ok => owner[RepoOf[t]] # NoTask
        /\ IF ok /\ CanClaimCustom(row, t)
           THEN /\ before' = NotedBefore(t)
                /\ EnterStart(Sched, t, FALSE, Claimed(row, t))
                /\ sched' = IF HasLive(t)
                            THEN [sched EXCEPT !.pc = "custom", !.head = NoTask]
                            ELSE [sched EXCEPT !.pc = "customStart"]
           ELSE /\ sched' = [sched EXCEPT !.pc = "custom", !.head = NoTask]
                /\ UNCHANGED <<store, start>>
        /\ UNCHANGED <<sessions, stops, holds, reviewing, bounds>>

\* The global claims, one at a time while a slot is free.
BaseClaims ==
    LET heads == BaseHead(row)
    IN  /\ sched.pc = "base"
        /\ IF ActiveWorkers < Cap /\ heads # {}
           THEN LET t == CHOOSE t \in heads : TRUE
                IN  /\ before' = NotedBefore(t)
                    /\ EnterStart(Sched, t, FALSE, Claimed(row, t))
                    /\ sched' = [sched EXCEPT !.pc = IF HasLive(t) THEN "end"
                                                     ELSE "baseStart"]
           ELSE /\ sched' = [sched EXCEPT !.pc = "end"]
                /\ UNCHANGED <<store, start>>
        /\ UNCHANGED <<sessions, stops, holds, reviewing, bounds>>

\* The end of the loop body: again when a call was noted meanwhile.
PassEnds ==
    /\ sched.pc = "end"
    /\ sched' = IF sched.again THEN [sched EXCEPT !.pc = "begin"] ELSE Asleep
    /\ UNCHANGED <<store, sessions, start, stops, holds, reviewing, bounds>>

\* With the global queue stopped the pass returns from inside the loop.
PassReturns ==
    /\ sched.pc = "disabled"
    /\ sched' = [Asleep EXCEPT !.again = sched.again]
    /\ UNCHANGED <<store, sessions, start, stops, holds, reviewing, bounds>>

---------------------------------------------------------------------------
(* The agent: its Stop hook, its exit, the review after its turn *)

\* The Stop hook of the task's newest, working session: it sleeps 1.5 s for
\* the transcript.
StopArrives(r) ==
    /\ AtWork(r) /\ r \notin stops /\ latest[runTask[r]] = r
    /\ stops' = stops \cup {r}
    /\ UNCHANGED <<store, sessions, start, holds, reviewing, sched, bounds>>

\* A session that went idle meanwhile, or was superseded, settles nothing.
StopStale(r) == r \in idle \/ latest[runTask[r]] # r

StopIgnored(r) ==
    /\ r \in stops /\ StopStale(r)
    /\ stops' = stops \ {r}
    /\ UNCHANGED <<store, sessions, start, holds, reviewing, sched, bounds>>

\* A subagent or a shell still runs: the turn is not over.
StopParks(r) ==
    /\ r \in stops /\ ~StopStale(r)
    /\ stops' = stops \ {r}
    /\ row' = TransitionVerify(row, runTask[r], {"running", "waiting"}, "waiting", FALSE)
    /\ UNCHANGED <<before, sessions, start, holds, reviewing, sched, bounds>>

\* The turn is over: the queue is held, the task lands in review with its
\* verify round pending when one is due, the session idles and the review
\* starts; a task somebody has taken lets the hold go again.
StopLands(r, due) ==
    LET t == runTask[r]
        from == {"running", "waiting"}
    IN  /\ r \in stops /\ ~StopStale(r)
        /\ stops' = stops \ {r}
        /\ row' = TransitionVerify(row, t, from, "review", due)
        /\ Wake
        /\ IF CanMove(row, t, from)
           THEN /\ holds' = holds \cup {t}
                /\ reviewing' = reviewing \cup {t}
                /\ idle' = idle \cup {r}
           ELSE /\ holds' = holds \ {t}
                /\ UNCHANGED <<reviewing, idle>>
        /\ UNCHANGED <<before, runTask, runStatus, latest, owner, sess, dying,
                       auto, start, bounds>>

\* The last subagent returned and the agent goes on.
WaitEnds(t) ==
    /\ \E r \in Run : AtWork(r) /\ runTask[r] = t
    /\ row[t].status = "waiting"
    /\ row' = Transition(row, t, {"waiting"}, "running")
    /\ UNCHANGED <<before, sessions, start, stops, holds, reviewing, sched, bounds>>

\* Mutant of ReviewEnds: the hold is released and the round left open.
ReviewEndsOpen(t) ==
    /\ t \in reviewing
    /\ reviewing' = reviewing \ {t}
    /\ holds' = holds \ {t}
    /\ IF t \in holds THEN Wake ELSE UNCHANGED sched
    /\ UNCHANGED <<row, before, sessions, start, stops, bounds>>

\* The review of a turn settled, whatever became of its task: its round is
\* closed and the queue's hold released.
ReviewEnds(t) ==
    /\ t \in reviewing
    /\ row' = [row EXCEPT ![t].verify = FALSE]
    /\ reviewing' = reviewing \ {t}
    /\ holds' = holds \ {t}
    /\ IF t \in holds THEN Wake ELSE UNCHANGED sched
    /\ UNCHANGED <<before, sessions, start, stops, bounds>>

\* A human types into an idle terminal whose task waits in review (one that is
\* being closed takes no prompt any more).
Prompt(r) ==
    LET t == runTask[r]
    IN  /\ Live(r) /\ r \in idle \ dying
        /\ runStatus[r] = "running" /\ latest[t] = r
        /\ row[t].status = "review" /\ ~row[t].verify /\ t \notin reviewing
        /\ row' = Transition(row, t, {"review"}, "running")
        /\ before' = NotedBefore(t)
        /\ idle' = idle \ {r}
        /\ auto' = auto \ {r}
        /\ UNCHANGED <<runTask, runStatus, latest, owner, sess, dying, start,
                       stops, holds, reviewing, sched>>

\* The TTL sweep lets an idle session go that nobody watches.
Dispose(r) ==
    /\ Live(r) /\ r \in idle
    /\ sess' = [sess EXCEPT ![r] = "evicted"]
    /\ UNCHANGED <<store, runTask, runStatus, latest, owner, idle, dying, auto,
                   start, stops, holds, reviewing, sched, bounds>>

\* The process of a session ends; its row says exited unless it was killed.
Exits(r) ==
    /\ sess[r] \in {"live", "evicted"}
    /\ sess' = [sess EXCEPT ![r] = "settling"]
    /\ runStatus' = [runStatus EXCEPT ![r] = IF @ = "running" THEN "exited" ELSE @]
    /\ dying' = dying \ {r}
    /\ UNCHANGED <<store, runTask, latest, owner, idle, auto, start, stops,
                   holds, reviewing, sched, bounds>>

\* What an exit makes of its task: `from` is where the task may stand.
ExitLeaves(r, clean, from) ==
    LET t == runTask[r]
        to == IF clean THEN "review" ELSE "failed"
    IN  TransitionVerify(row, t, from, to, FALSE)

\* Mutant of ExitMoves: a parked task is left where it is.
ExitMovesRunning(r, clean) ==
    IF runStatus[r] = "killed" \/ latest[runTask[r]] # r THEN row
    ELSE ExitLeaves(r, clean, {"running"})

\* Mutant of ExitMoves: a killed run is not told from one that ended.
ExitMovesKilled(r, clean) ==
    IF latest[runTask[r]] # r THEN row
    ELSE ExitLeaves(r, clean, {"running", "waiting"})

\* A killed or superseded run moves nothing.
ExitMoves(r, clean) ==
    IF runStatus[r] = "killed" \/ latest[runTask[r]] # r THEN row
    ELSE ExitLeaves(r, clean, {"running", "waiting"})

\* handleExit after the transcript was read: the task leaves its turn.
ExitSettles(r, clean) ==
    /\ sess[r] = "settling"
    /\ sess' = [sess EXCEPT ![r] = "gone"]
    /\ row' = ExitMoves(r, clean)
    /\ Wake
    /\ UNCHANGED <<before, runTask, runStatus, latest, owner, idle, dying,
                   auto, start, stops, holds, reviewing, bounds>>

---------------------------------------------------------------------------
(* Human requests *)

\* No state of the task's turn is between two awaits.
Settled(t) ==
    /\ \A s \in Starter : start[s].pc \in {"kill", "base", "row"} \/ start[s].abort
                           => start[s].task # t
    /\ \A r \in Run : runTask[r] = t => r \notin stops /\ sess[r] \notin {"evicted", "settling"}

Asks(t) == /\ acts < HumanActions
           /\ acts' = acts + 1
           /\ Patient => Settled(t)

\* Run now: a fresh start of a task without a live session.
RunNowFrom == {"draft", "queued", "review", "failed", "cancelled"}

RunNow(h, t) ==
    /\ Asks(t) /\ start[h].pc = "off"
    /\ ~HasLive(t) /\ CanMove(row, t, RunNowFrom)
    /\ before' = NotedBefore(t)
    /\ EnterStart(h, t, FALSE, Transition(row, t, RunNowFrom, "running"))
    /\ UNCHANGED <<sessions, stops, holds, reviewing, sched, restarts>>

FollowUpFrom == {"draft", "queued", "running", "review", "published", "done",
                 "failed", "cancelled"}

\* The second half of followUp: the row moves to running and the start begins.
FollowUpStarts(h, t, resume) ==
    IF CanMove(row, t, FollowUpFrom)
    THEN /\ before' = NotedBefore(t)
         /\ EnterStart(h, t, resume, Transition(row, t, FollowUpFrom, "running"))
    ELSE StartOver(h) /\ UNCHANGED store

\* A follow-up to a task with no live session; a running one is refused.
FollowUp(h, t, resume) ==
    /\ Asks(t) /\ start[h].pc = "off"
    /\ resume => latest[t] # NoRun
    /\ ~HasLive(t) /\ row[t].status # "running"
    /\ CanMove(row, t, FollowUpFrom)
    /\ FollowUpStarts(h, t, resume)
    /\ UNCHANGED <<sessions, stops, holds, reviewing, sched, restarts>>

\* A follow-up to a task with an idle terminal: it is killed, and the request
\* waits for its exit.
FollowUpKills(h, t, resume) ==
    /\ Asks(t) /\ start[h].pc = "off"
    /\ \E r \in Run :
        /\ runTask[r] = t /\ Live(r) /\ r \in idle
        /\ \A q \in Run : runTask[q] = t /\ Live(q) => q \in idle
        /\ dying' = dying \cup {r}
        /\ start' = [start EXCEPT ![h] = [pc |-> "kill", task |-> t, run |-> r,
                                         resume |-> resume, abort |-> FALSE]]
    /\ UNCHANGED <<store, runTask, runStatus, latest, owner, sess, idle, auto,
                   stops, holds, reviewing, sched, restarts>>

\* The old terminal is gone (or five seconds have passed): its run is marked
\* killed and the follow-up goes on with the status it read before.
FollowUpGoesOn(h) ==
    /\ start[h].pc = "kill"
    /\ FollowUpStarts(h, start[h].task, start[h].resume)
    /\ runStatus' = [runStatus EXCEPT ![start[h].run] = "killed"]
    /\ UNCHANGED <<runTask, latest, owner, sess, idle, dying, auto, stops,
                   holds, reviewing, sched, bounds>>

\* A gate compacting this task's session is aborted.
AbortGate(t) ==
    start' = [s \in Starter |-> IF start[s].pc = "gate" /\ start[s].task = t
                                THEN [start[s] EXCEPT !.abort = TRUE] ELSE start[s]]

\* Cancel: a draft or queued task just moves; any other has its runs killed,
\* and moves when it was in a turn.
Cancel(t) ==
    /\ Asks(t)
    /\ IF row[t].status \in {"draft", "queued"}
       THEN /\ row' = Transition(row, t, {"draft", "queued"}, "cancelled")
            /\ UNCHANGED <<start, dying, runStatus, sched>>
       ELSE /\ AbortGate(t)
            /\ KillAll(Killable(t))
            /\ row' = Transition(row, t, {"running", "waiting"}, "cancelled")
            /\ IF Working(row, t) THEN Wake ELSE UNCHANGED sched
    /\ UNCHANGED <<before, runTask, latest, owner, sess, idle, auto, stops,
                   holds, reviewing, restarts>>

\* Undo start: back to the status before the start, held when that is the
\* queue, so that the pass it wakes does not claim it again.
UndoStart(t) ==
    /\ Asks(t)
    /\ Working(row, t)
    /\ AbortGate(t)
    /\ KillAll(Killable(t))
    /\ row' = [row EXCEPT ![t] = [Moved(@, before[t]) EXCEPT
                                    !.held = before[t] = "queued"]]
    /\ Wake
    /\ UNCHANGED <<before, runTask, latest, owner, sess, idle, auto, stops,
                   holds, reviewing, restarts>>

\* Kill a terminal: a task in its turn is cancelled with it.
KillRun(r) ==
    /\ Live(r) /\ Asks(runTask[r])
    /\ KillAll({r})
    /\ row' = Transition(row, runTask[r], {"running", "waiting"}, "cancelled")
    /\ UNCHANGED <<before, runTask, latest, owner, sess, idle, auto, start,
                   stops, holds, reviewing, sched, restarts>>

\* Mutant of Behind: counted from the members there are.
BehindCounted == Cardinality({t \in Task : Member(row, t)}) - 1

\* The stamp of a click: later than every earlier one.
Behind == Cardinality(Task) + acts + 1

EnqueueFrom == {"draft", "failed", "cancelled", "review"}

\* Add to queue: the mark is written first, then the status.  A held member
\* is released, keeping its place.
QueueAdd(t) ==
    /\ Asks(t)
    /\ row[t].status \in EnqueueFrom \cup {"queued"} /\ ~HasLive(t)
    /\ IF row[t].status = "queued" /\ Member(row, t)
       THEN /\ row[t].held
            /\ row' = [row EXCEPT ![t].held = FALSE]
       ELSE row' = Transition([row EXCEPT ![t].mark = Behind, ![t].held = FALSE],
                              t, EnqueueFrom, "queued")
    /\ Wake
    /\ UNCHANGED <<before, sessions, start, stops, holds, reviewing, restarts>>

\* Enqueue for the global queue: the mark goes, and with it a verify round that
\* is only a check still due; a held task is released.
Enqueue(t) ==
    /\ Asks(t)
    /\ ~HasLive(t)
    /\ \/ row[t].status \in EnqueueFrom
       \/ row[t].status = "queued" /\ row[t].held
    /\ \E round \in {row[t].verify, FALSE} :
        row' = TransitionVerify([row EXCEPT ![t].mark = 0, ![t].held = FALSE],
                                t, EnqueueFrom, "queued", round)
    /\ Wake
    /\ UNCHANGED <<before, sessions, start, stops, holds, reviewing, restarts>>

\* Leave the queue: a waiting member is cancelled, another only loses its mark.
QueueRemove(t) ==
    /\ Asks(t)
    /\ Member(row, t)
    /\ row' = Transition([row EXCEPT ![t].mark = 0], t, {"queued"}, "cancelled")
    /\ Wake
    /\ UNCHANGED <<before, sessions, start, stops, holds, reviewing, restarts>>

\* Mark done closes the terminals of the task.
Complete(t) ==
    /\ Asks(t)
    /\ row[t].status = "review"
    /\ row' = Transition(row, t, {"review"}, "done")
    /\ KillAll({r \in Run : runTask[r] = t /\ Live(r)})
    /\ UNCHANGED <<before, runTask, latest, owner, sess, idle, auto, start,
                   stops, holds, reviewing, sched, restarts>>

---------------------------------------------------------------------------
(* The server goes down and comes back *)

\* Mutant of Booted: only a task whose run was cut is settled.
BootedCutOnly(t) ==
    IF \E r \in Run : runTask[r] = t /\ runStatus[r] = "running" /\ Working(row, t)
    THEN Moved(row[t], "failed") ELSE row[t]

\* What boot makes of a task that was in a turn: its run cut, it fails; stranded
\* without a running one, it is freed to review when an agent ever worked on it.
Booted(t) ==
    LET cut == \E r \in Run : runTask[r] = t /\ runStatus[r] = "running"
    IN  IF ~Working(row, t) THEN row[t]
        ELSE Moved(row[t], IF cut \/ latest[t] = NoRun THEN "failed" ELSE "review")

ReviewNowFrom == {"review", "done", "blocked", "failed"}

\* The open rounds boot starts again: those of the tasks in review; of a task
\* that failed or is done only a review round, not a check; of a freed one only
\* a check.
RoundsAgain(again) ==
    /\ \A t \in again : /\ row[t].verify /\ Booted(t).status \in ReviewNowFrom
                        /\ Working(row, t) => Booted(t).status = "review"
    /\ \A t \in Task : VerifyOpen(row, t) => t \in again

\* Every session and every request dies with the process; boot marks the runs
\* that were running exited, settles their tasks and starts open rounds again.
Restart ==
    /\ restarts < Restarts
    /\ restarts' = restarts + 1
    /\ runStatus' = [r \in Run |-> IF runStatus[r] = "running" THEN "exited"
                                                          ELSE runStatus[r]]
    /\ \E again \in SUBSET Task :
        /\ RoundsAgain(again)
        /\ row' = [t \in Task |-> [Booted(t) EXCEPT !.verify = t \in again]]
        /\ reviewing' = again
    /\ sess' = [r \in Run |-> IF sess[r] = "none" THEN "none" ELSE "gone"]
    /\ start' = [s \in Starter |-> NotStarting]
    /\ dying' = {} /\ stops' = {} /\ holds' = {}
    /\ sched' = Woken(Asleep)
    /\ UNCHANGED <<before, runTask, latest, owner, idle, auto, acts>>

---------------------------------------------------------------------------

SchedulerStep == \/ PassBegins \/ PumpLooks \/ (\E ok \in BOOLEAN : PumpClaims(ok))
                 \/ BaseClaims \/ PassEnds \/ PassReturns

StartStep(s) == GateAborted(s) \/ GatePassed(s) \/ CreateRun(s) \/ Spawn(s)
                \/ SpawnFails(s)

AgentStep(r) ==
    \/ StopArrives(r) \/ StopIgnored(r) \/ StopParks(r)
    \/ (\E due \in BOOLEAN : StopLands(r, due))
    \/ Dispose(r) \/ Exits(r)
    \/ (\E clean \in BOOLEAN : ExitSettles(r, clean))

RequestStep(h, t) ==
    \/ RunNow(h, t) \/ FollowUpGoesOn(h)
    \/ \E resume \in BOOLEAN : FollowUp(h, t, resume) \/ FollowUpKills(h, t, resume)

TaskStep(t) == \/ WaitEnds(t) \/ ReviewEnds(t)
               \/ Cancel(t) \/ UndoStart(t) \/ Complete(t)
               \/ QueueAdd(t) \/ Enqueue(t) \/ QueueRemove(t)

TerminalStep(r) == (Prompt(r) /\ Asks(runTask[r]) /\ UNCHANGED restarts)
                   \/ KillRun(r)

\* The pass sleeps, or awaits the start of a worker or the hand-off commit of
\* a checkout somebody left.
PassAwaits == \/ sched.pc \in {"off", "customStart", "baseStart"}
              \/ sched.pc = "handoff" /\ owner[RepoOf[sched.head]] # NoTask

EventStep ==
    \/ Tick \/ Restart
    \/ \E s \in Starter : StartStep(s)
    \/ \E r \in Run : AgentStep(r) \/ TerminalStep(r)
    \/ \E h \in Human, t \in Task : RequestStep(h, t)
    \/ \E t \in Task : TaskStep(t)

Next == SchedulerStep \/ (PassAwaits /\ EventStep)

Spec == Init /\ [][Next]_vars

\* The event loop gets round to everything that is due: the pass, the 10 s
\* tick, a start and an exit in flight, the sleeping Stop hook, a review.  Of
\* an agent it is assumed that every turn comes to its end at last: the Stop
\* comes, not forever with subagents still at work; and of the hand-off commit
\* that it does not fail forever.  Nothing is assumed of a human, nor of the
\* TTL sweep: it may be off, or the session be watched.
Fairness ==
    /\ WF_vars(SchedulerStep) /\ SF_vars(PumpClaims(TRUE))
    /\ WF_vars(Tick)
    /\ \A s \in Starter : WF_vars(StartStep(s))
    /\ \A r \in Run :
        /\ WF_vars(StopArrives(r))
        /\ WF_vars(StopIgnored(r))
        /\ SF_vars(\E due \in BOOLEAN : StopLands(r, due))
        /\ WF_vars(sess[r] = "evicted" /\ Exits(r))
        /\ WF_vars(r \in dying /\ Exits(r))
        /\ WF_vars(\E clean \in BOOLEAN : ExitSettles(r, clean))
    /\ \A t \in Task : WF_vars(WaitEnds(t)) /\ WF_vars(ReviewEnds(t))
    /\ \A h \in Human : WF_vars(FollowUpGoesOn(h))

\* With the TTL sweep on, and nobody who watches an idle session for ever.
Swept == \A r \in Run : WF_vars(Dispose(r))

FairSpec == Spec /\ Fairness /\ Swept

---------------------------------------------------------------------------
(* Properties *)

\* A session that works for its task: not idle, not told to go.
Agent(r) == AtWork(r) /\ r \notin dying

Starting(t) == \E s \in Starter : start[s].task = t /\ start[s].pc \in {"gate", "base", "row"}

\* The newest run of a task decides what becomes of it: its session is at
\* work, or its exit is being settled and nobody decided otherwise.
NewestDecides(t) ==
    LET r == latest[t]
    IN  /\ r # NoRun
        /\ \/ AtWork(r)
           \/ sess[r] = "settling" /\ runStatus[r] # "killed"

\* A task that reads running or waiting is never stranded: a start of it is in
\* flight, or its newest run will still settle it.
Driven == \A t \in Task : Working(row, t) => Starting(t) \/ NewestDecides(t)

\* No agent works for a task that is not in a turn.
NoStrayAgent == \A r \in Run : Agent(r) => Working(row, runTask[r])

\* No agent starts on a task while another one, though told to go, still works
\* for it.
OneAgentPerTask ==
    \A r, q \in Run : AtWork(r) /\ AtWork(q) /\ runTask[r] = runTask[q] => r = q

\* Two turns no human asked for never edit one checkout.
OneAutoAgentPerRepo ==
    \A r, q \in {r \in auto : Agent(r)} :
        RepoOf[runTask[r]] = RepoOf[runTask[q]] => r = q

\* The scheduler alone never fills more than Cap slots.
AutoWithinCap == Cardinality({r \in auto : AtWork(r)}) <= Cap

ScheduledBy(t) == start[Sched].task # t /\ start'[Sched].task = t

\* The scheduler never starts a held task, nor a member before an older one.
ClaimsInOrder ==
    [][\A t \in Task : ScheduledBy(t) =>
        /\ ~row[t].held
        /\ Member(row, t) => \A u \in Task :
             SameRepo(t, u) /\ Waiting(row, u) /\ Member(row, u)
                => row[t].mark < row[u].mark]_vars

\* The scheduler starts no member in a repository whose queue is held between
\* a finished turn and its follow-on.
HeldRepoWaits ==
    [][\A t \in Task : ScheduledBy(t) /\ Member(row, t) =>
         \A u \in LiveHolds : ~SameRepo(t, u)]_vars

\* A queued task nobody holds is at last claimed, or taken out of the queue.
QueueDrains == \A t \in Task : Waiting(row, t) ~> ~Waiting(row, t)

\* What a start in flight began, no Stop or exit of an earlier run ends.
StartNotUndone ==
    [][\A s \in Starter : LET t == start[s].task IN
        (/\ start[s].pc \in {"base", "row"} /\ start'[s] = start[s]
         /\ row[t].status = "running")
        => row'[t].status \notin {"review", "failed"}]_vars

---------------------------------------------------------------------------
(* The life of a turn *)

\* The turn of each task as Turns sees it.
Turn == [t \in Task |->
    IF \E r \in Run : runTask[r] = t /\ Agent(r) THEN "works"
    ELSE IF Starting(t) THEN "starts"
    ELSE IF Working(row, t) /\ NewestDecides(t) THEN "ends" ELSE "none"]

T == INSTANCE Turns WITH status <- [t \in Task |-> row[t].status], turn <- Turn

\* The scheduler, the starts, the hooks and the exits implement the life of a
\* turn: whatever they interleave, each step of theirs is one of it or none.
TurnsImplemented == T!Spec
=============================================================================
