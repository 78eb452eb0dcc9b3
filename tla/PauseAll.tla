------------------------------ MODULE PauseAll ------------------------------
(***************************************************************************)
(* Pause all and Continue (pauseAll, continueAll and everything in         *)
(* orchestrator.ts that reads the flag): the turns a pause cuts, refuses   *)
(* or holds, and who gives them back.                                      *)
(*                                                                         *)
(* Starts, Stops and review rounds are coarser here than in Orchestrator   *)
(* and VerifyLoop: a task has one caller at a time, a terminal that is     *)
(* replaced goes at once, a turn outlasts the git queries of a resume, and *)
(* nobody follows up while a reviewer reads or a landing reads git.        *)
(* "review" stands for review and failed, the statuses a resume starts     *)
(* from, and "done" for everything that is over.                           *)
(* Loops, dispatches and the memory fuse, which ask the same questions     *)
(* again, and the order of the owed turns (oldest first) are left out.     *)
(***************************************************************************)
EXTENDS Integers, FiniteSets

CONSTANTS
    Task,
    RepoOf,      \* the repository whose checkout the task works in
    Cap,         \* orchestrator.concurrency
    Asked,       \* bound: the turns a human asks for
    Hurried,     \* Continue may come while what the pause cut still winds down
    Forced       \* a restart in a pause may catch a start or a retry on its way

VARIABLES
    paused,      \* orchestrator.paused
    sweep,       \* "waits": pauseAll is between its two sweeps
    row,         \* tm_tasks: status, paused_turn, review_state
    start,       \* the startWorker in flight of each task
    session,     \* its terminal
    disk,        \* tasks with a session on disk that can be resumed
    backoff,     \* transientRetries: turns the API cut, waiting to go on
    resuming,    \* pauseResumesInFlight: the marker each resumeOne reads git for
    loop,        \* pendingReviews
    due          \* (history) the turn a task was given and has not finished

vars == <<paused, sweep, row, start, session, disk, backoff, resuming, loop, due>>

Turns == {"fresh", "message", "publish"}
Marks == {"none", "resume", "message", "publish", "land"}
AskedAssumption == Asked \subseteq Turns

NoStart == [at |-> "none", by |-> "none", turn |-> "none"]

Rows == [status : {"queued", "running", "review", "done"}, mark : Marks,
         round : {"none", "pending", "reviewing"}]
Starts == {NoStart} \cup [at : {"gate", "stopped", "spawn"},
                          by : {"claim", "human", "server", "resume"}, turn : Turns]

TypeOK ==
    /\ paused \in BOOLEAN /\ sweep \in {"none", "waits"}
    /\ row \in [Task -> Rows]
    /\ start \in [Task -> Starts]
    /\ session \in [Task -> {"none", "work", "publish", "idle", "dying"}]
    /\ disk \in SUBSET Task /\ backoff \in SUBSET Task
    /\ resuming \in [Task -> Marks]
    /\ loop \in [Task -> {"none", "runs", "cut"}]
    /\ due \in [Task -> Turns \cup {"none", "work"}]

Init ==
    /\ paused = FALSE /\ sweep = "none"
    /\ row = [t \in Task |-> [status |-> "queued", mark |-> "none", round |-> "none"]]
    /\ start = [t \in Task |-> NoStart]
    /\ session = [t \in Task |-> "none"]
    /\ disk = {} /\ backoff = {}
    /\ resuming = [t \in Task |-> "none"]
    /\ loop = [t \in Task |-> "none"]
    /\ due = [t \in Task |-> "none"]

Status(t) == row[t].status
Owed == {t \in Task : row[t].mark # "none"}
Gates == {t \in Task : start[t].at \in {"gate", "stopped"}}
Resuming == {t \in Task : resuming[t] # "none" \/ start[t].by = "resume"}

\* Mutant of Workers: a turn that is owed holds a slot.
WorkersWithOwed == Cardinality({t \in Task : session[t] \in {"work", "publish", "dying"}})
                     + Cardinality(Gates \cup Resuming \cup Owed)

\* activeWorkers: terminals at work, and the turns on their way.
Workers == Cardinality({t \in Task : session[t] \in {"work", "publish", "dying"}})
             + Cardinality(Gates \cup Resuming)

---------------------------------------------------------------------------
(* Moves of the row *)

\* transitionTask: every move releases the marker, but the one that sets it.
Moved(r, t, to, mark) == [r EXCEPT ![t].status = to, ![t].mark = mark]

\* followUp, runNow or a claim, and startWorker up to its gate.
Begin(t, by, turn) ==
    /\ row' = Moved(row, t, "running", "none")
    /\ start' = [start EXCEPT ![t] = [at |-> "gate", by |-> by, turn |-> turn]]
    /\ session' = [session EXCEPT ![t] = "none"]
    /\ backoff' = backoff \ {t}
    /\ due' = [due EXCEPT ![t] = turn]

\* Mutant of PauseOwed: a message that was on its way is not kept.
OwedWithoutMessage(turn) == IF turn = "publish" THEN "publish" ELSE "resume"

\* pauseOwed: what Continue must deliver instead of a start that did not get
\* through.
PauseOwed(turn) == turn

\* landIfClean on a round without findings: the tier of the repository leaves
\* the task to the human, lands it, or starts its publish turn.
Lands(t) ==
    \/ /\ row' = [row EXCEPT ![t].round = "none", ![t].mark = IF paused THEN @ ELSE "none"]
       /\ UNCHANGED <<start, session, backoff, due>>
    \/ /\ row' = [Moved(row, t, "done", "none") EXCEPT ![t].round = "none"]
       /\ session' = [session EXCEPT ![t] = "none"]
       /\ due' = [due EXCEPT ![t] = "none"]
       /\ UNCHANGED <<start, backoff>>
    \/ /\ paused
       /\ row' = [row EXCEPT ![t].round = "none", ![t].mark = "land"]
       /\ UNCHANGED <<start, session, backoff, due>>
    \/ /\ ~paused
       /\ row' = [Moved(row, t, "running", "none") EXCEPT ![t].round = "none"]
       /\ start' = [start EXCEPT ![t] = [at |-> "gate", by |-> "server", turn |-> "publish"]]
       /\ session' = [session EXCEPT ![t] = "none"]
       /\ due' = [due EXCEPT ![t] = "publish"]
       /\ UNCHANGED backoff

---------------------------------------------------------------------------
(* Turns *)

\* Mutant of HoldsRepo: the marker does not hold the repository.
HoldsWithoutMark(u) == Status(u) = "running" \/ row[u].round # "none"

\* heldBy, REPO_EXCLUSIVE_GATE: a task that works, is verified or is owed.
HoldsRepo(u) == Status(u) = "running" \/ row[u].round # "none" \/ u \in Owed

\* The pass of the scheduler gives the owed turns their slots first.
Claim(t) ==
    /\ ~paused /\ Workers < Cap /\ Owed \subseteq Resuming
    /\ Status(t) = "queued" /\ session[t] = "none" /\ start[t] = NoStart
    /\ \A u \in Task : start[u].by # "claim"
    /\ \A u \in Task \ {t} : RepoOf[u] = RepoOf[t] => ~HoldsRepo(u)
    /\ Begin(t, "claim", "fresh")
    /\ UNCHANGED <<paused, sweep, disk, resuming, loop>>

\* Run now, Follow up and Publish, in a pause too.
HumanStarts(t, turn) ==
    /\ Status(t) # "running" /\ session[t] \in {"none", "idle"}
    /\ start[t] = NoStart /\ loop[t] = "none" /\ resuming[t] # "land"
    /\ turn = "publish" => Status(t) = "review" /\ row[t].round = "none"
    /\ Begin(t, "human", turn)
    /\ UNCHANGED <<paused, sweep, disk, resuming, loop>>

\* pauseUnspawned: past its gate, a start the server made finds the flag.
Unspawned(t) ==
    IF start[t].turn = "fresh" THEN Moved(row, t, "queued", "none")
    ELSE Moved(row, t, "review", PauseOwed(start[t].turn))

\* The gate of startWorker: a task that left running meanwhile starts nothing.
GatePasses(t) ==
    /\ start[t].at = "gate"
    /\ \/ /\ Status(t) # "running"
          /\ start' = [start EXCEPT ![t] = NoStart]
          /\ UNCHANGED row
       \/ /\ Status(t) = "running" /\ paused /\ start[t].by # "human"
          /\ row' = Unspawned(t)
          /\ start' = [start EXCEPT ![t] = NoStart]
       \/ /\ Status(t) = "running" /\ (~paused \/ start[t].by = "human")
          /\ start' = [start EXCEPT ![t].at = "spawn"]
          /\ UNCHANGED row
    /\ UNCHANGED <<paused, sweep, session, disk, backoff, resuming, loop, due>>

\* Its compaction was stopped: parked with its turn, if the pause did it.
GateAborts(t) ==
    /\ start[t].at = "stopped"
    /\ row' = IF Status(t) # "running" THEN row
              ELSE Moved(row, t, "review", IF paused THEN PauseOwed(start[t].turn) ELSE "none")
    /\ start' = [start EXCEPT ![t] = NoStart]
    /\ UNCHANGED <<paused, sweep, session, disk, backoff, resuming, loop, due>>

Spawns(t) ==
    /\ start[t].at = "spawn"
    /\ session' = [session EXCEPT ![t] = IF start[t].turn = "publish" THEN "publish" ELSE "work"]
    /\ due' = [due EXCEPT ![t] = IF start[t].turn = "publish" THEN "publish" ELSE "work"]
    /\ start' = [start EXCEPT ![t] = NoStart]
    /\ disk' = disk \cup {t}
    /\ UNCHANGED <<paused, sweep, row, backoff, resuming, loop>>

\* The Stop of a turn lands in review; the round it marks, or without one the
\* resuming, is for the verify loop, which a pause holds (deferLanding).
StopArrives(t) ==
    /\ session[t] = "work" /\ t \notin backoff /\ Status(t) = "running"
    /\ resuming[t] = "none"
    /\ session' = [session EXCEPT ![t] = "idle"]
    /\ due' = [due EXCEPT ![t] = "none"]
    /\ \/ /\ row' = [Moved(row, t, "review", "none")
                       EXCEPT ![t].round = IF paused THEN "pending" ELSE "reviewing"]
          /\ loop' = [loop EXCEPT ![t] = IF paused THEN "none" ELSE "runs"]
       \/ /\ \E mark \in IF paused THEN {"none", "land"} ELSE {"none"} :
                row' = [Moved(row, t, "review", mark) EXCEPT ![t].round = "none"]
          /\ UNCHANGED loop
    /\ UNCHANGED <<paused, sweep, start, disk, backoff, resuming>>

\* settlePublish, at the Stop or the death of a publish turn.
PublishEnds(t) ==
    /\ session[t] = "publish" /\ Status(t) = "running"
    /\ \E to \in {"review", "done"} :
          row' = [Moved(row, t, to, "none") EXCEPT ![t].round = "none"]
    /\ session' = [session EXCEPT ![t] = "idle"]
    /\ due' = [due EXCEPT ![t] = "none"]
    /\ UNCHANGED <<paused, sweep, start, disk, backoff, resuming, loop>>

\* The agent's process dies in its turn, or the API cut it and a retry is
\* armed; a terminal may also die in the back-off.
Dies(t) ==
    /\ session[t] = "work" /\ Status(t) = "running"
    /\ session' = [session EXCEPT ![t] = "none"]
    /\ row' = [Moved(row, t, "review", "none") EXCEPT ![t].round = "none"]
    /\ due' = IF t \in backoff THEN due ELSE [due EXCEPT ![t] = "none"]
    /\ UNCHANGED <<paused, sweep, start, disk, backoff, resuming, loop>>

ApiFails(t) ==
    /\ session[t] = "work" /\ Status(t) = "running" /\ t \notin backoff
    /\ backoff' = backoff \cup {t}
    /\ UNCHANGED <<paused, sweep, row, start, session, disk, resuming, loop, due>>

\* The terminal of a suspended task needs up to five seconds to go.
Gone(t) ==
    /\ session[t] = "dying"
    /\ session' = [session EXCEPT ![t] = "none"]
    /\ UNCHANGED <<paused, sweep, row, start, disk, backoff, resuming, loop, due>>

\* Mark done and Cancel.
HumanMoves(t) ==
    /\ Status(t) # "done" /\ start[t].at \notin {"spawn"}
    /\ row' = Moved(row, t, "done", "none")
    /\ session' = [session EXCEPT ![t] = IF @ \in {"none", "idle"} THEN "none" ELSE "dying"]
    /\ backoff' = backoff \ {t}
    /\ due' = [due EXCEPT ![t] = "none"]
    /\ UNCHANGED <<paused, sweep, start, disk, resuming, loop>>

---------------------------------------------------------------------------
(* The verify round *)

\* The reviewer answers: nothing to do, findings for a fix turn, findings for
\* the human, or, when the pause stopped it, no verdict.
RoundEnds(t) ==
    /\ loop[t] # "none"
    /\ loop' = [loop EXCEPT ![t] = "none"]
    /\ \/ /\ loop[t] = "runs" /\ Status(t) = "review"
          /\ Lands(t)
       \/ /\ loop[t] = "runs" /\ Status(t) = "review" /\ session[t] = "idle" /\ ~paused
          /\ row' = [Moved(row, t, "running", "none") EXCEPT ![t].round = "none"]
          /\ start' = [start EXCEPT ![t] = [at |-> "gate", by |-> "server", turn |-> "message"]]
          /\ session' = [session EXCEPT ![t] = "none"]
          /\ due' = [due EXCEPT ![t] = "message"]
          /\ UNCHANGED backoff
       \/ /\ paused /\ (loop[t] = "cut" \/ (Status(t) = "review" /\ session[t] = "idle"))
          /\ row' = [row EXCEPT ![t].round = "pending"]
          /\ UNCHANGED <<start, session, backoff, due>>
       \/ /\ loop[t] = "runs" \/ ~paused
          /\ row' = [row EXCEPT ![t].round = "none"]
          /\ UNCHANGED <<start, session, backoff, due>>
    /\ UNCHANGED <<paused, sweep, disk, resuming>>

\* Rounds of rows at rest that nobody runs are started again, but for the tasks
\* whose owed turn is on its way.
Rerun(r, l, away) ==
    {t \in Task : r[t].status \in {"review", "done"} /\ r[t].round # "none"
                   /\ r[t].mark = "none" /\ l[t] = "none" /\ t \notin away}

\* Mutant of ResumeVerifyRounds: Continue leaves the held rounds alone.
NoRounds(r, l, away) == row' = r /\ loop' = l

ResumeVerifyRounds(r, l, away) ==
    /\ row' = [t \in Task |-> IF t \in Rerun(r, l, away) THEN [r[t] EXCEPT !.round = "reviewing"]
                               ELSE r[t]]
    /\ loop' = [t \in Task |-> IF t \in Rerun(r, l, away) THEN "runs" ELSE l[t]]

---------------------------------------------------------------------------
(* Pause *)

\* Tasks suspendTask ends: in a turn with a live terminal, not in a gate.
Suspended == {t \in Task : Status(t) = "running" /\ session[t] \in {"work", "publish"}
                           /\ t \notin Gates}

\* The marker a sweep leaves on a task.
Marked(t) ==
    IF t \in Suspended THEN IF session[t] = "publish" THEN "publish" ELSE "resume"
    ELSE IF t \in backoff /\ Status(t) = "review" /\ row[t].mark = "none" THEN "resume"
    ELSE row[t].mark

\* suspendSweep: reviewers and compactions are stopped, turns are ended with
\* their markers.  Not every gate is a compaction that can be stopped.
SuspendSweep ==
    /\ row' = [t \in Task |-> [row[t] EXCEPT
                 !.status = IF t \in Suspended THEN "review" ELSE @, !.mark = Marked(t)]]
    /\ session' = [t \in Task |-> IF t \in Suspended THEN "dying" ELSE session[t]]
    /\ backoff' = {t \in backoff : t \notin Suspended /\ Status(t) # "review"}
    /\ loop' = [t \in Task |-> IF loop[t] = "runs" THEN "cut" ELSE loop[t]]
    /\ \E stop \in SUBSET {t \in Task : start[t].at = "gate" /\ start[t].turn # "fresh"
                                          /\ t \in disk} :
          start' = [t \in Task |-> IF t \in stop THEN [start[t] EXCEPT !.at = "stopped"]
                                   ELSE start[t]]
    /\ UNCHANGED <<disk, resuming, due>>

\* pauseAll: without a gate in flight the second sweep follows the first.
Pause ==
    /\ sweep = "none"
    /\ paused' = TRUE
    /\ SuspendSweep
    /\ sweep' = IF Gates # {} THEN "waits" ELSE "none"

\* The second sweep, when the gates are through or 15 s later.
PauseEnds ==
    /\ sweep = "waits"
    /\ sweep' = "none"
    /\ SuspendSweep
    /\ UNCHANGED paused

\* The drain form: the flag alone.
Drain ==
    /\ ~paused
    /\ paused' = TRUE
    /\ UNCHANGED <<sweep, row, start, session, disk, backoff, resuming, loop, due>>

WoundDown ==
    /\ sweep = "none"
    /\ \A t \in Task : session[t] # "dying" /\ start[t].at # "stopped" /\ loop[t] # "cut"

\* continueAll; its first resumes are steps of their own, which only a slot
\* and the flag hold back.
Continue ==
    /\ paused /\ (Hurried \/ WoundDown)
    /\ paused' = FALSE
    /\ ResumeVerifyRounds(row, loop, Resuming)
    /\ UNCHANGED <<sweep, start, session, disk, backoff, resuming, due>>

---------------------------------------------------------------------------
(* The owed turns *)

\* resumePaused: a slot is taken, and the marker stays until the task moves.
ResumeFires(t) ==
    /\ ~paused /\ t \in Owed \ Resuming /\ Workers < Cap
    /\ resuming' = [resuming EXCEPT ![t] = row[t].mark]
    /\ UNCHANGED <<paused, sweep, row, start, session, disk, backoff, loop, due>>

\* followUp on the owed turn: refused while a terminal of the task is alive
\* and not idle, or without a session on disk for a turn that was cut.
Refused(t) ==
    \/ session[t] \in {"work", "publish", "dying"} \/ start[t] # NoStart
    \/ resuming[t] = "resume" /\ t \notin disk

\* resumeOne, which releases the marker of a turn that did not start; paused
\* again, it keeps it.
ResumeTurn(t) ==
    /\ resuming[t] \in Turns \cup {"resume"}
    /\ resuming' = [resuming EXCEPT ![t] = "none"]
    /\ \/ /\ paused
          /\ UNCHANGED <<row, start, session, backoff, due>>
       \/ /\ ~paused /\ Refused(t)
          /\ row' = [row EXCEPT ![t].mark = "none"]
          /\ UNCHANGED <<start, session, backoff, due>>
       \/ /\ ~paused /\ ~Refused(t)
          /\ Begin(t, "resume", IF resuming[t] = "publish" THEN "publish" ELSE "message")
    /\ UNCHANGED <<paused, sweep, disk, loop>>

\* landIfClean reads git before it decides.
LandingEnds(t) ==
    /\ resuming[t] = "land"
    /\ resuming' = [resuming EXCEPT ![t] = "none"]
    /\ IF Status(t) = "review" /\ row[t].round = "none" /\ start[t] = NoStart
       THEN Lands(t)
       ELSE UNCHANGED <<row, start, session, backoff, due>>
    /\ UNCHANGED <<paused, sweep, disk, loop>>

\* fireTransient: the API is asked again; a pause owes the turn instead.
BackoffFires(t) ==
    /\ t \in backoff
    /\ \/ /\ paused
          /\ row' = [row EXCEPT ![t].status = IF t \in Suspended THEN "review" ELSE @,
                                ![t].mark = Marked(t)]
          /\ session' = [session EXCEPT ![t] = IF t \in Suspended THEN "dying" ELSE @]
          /\ backoff' = backoff \ {t}
          /\ UNCHANGED <<start, due>>
       \/ /\ ~paused /\ session[t] = "work"
          /\ backoff' = backoff \ {t}
          /\ UNCHANGED <<row, start, session, due>>
       \/ /\ ~paused /\ session[t] = "none" /\ Status(t) = "review" /\ Workers < Cap
          /\ Begin(t, "server", "message")
    /\ UNCHANGED <<paused, sweep, disk, resuming, loop>>

---------------------------------------------------------------------------
(* Restart *)

\* A start or a retry that is in memory only: no boot knows what it carried.
\* The restart guard waits for agents and compactions; a crash does not.
Caught == {t \in Task : start[t] # NoStart \/ (t \in backoff /\ session[t] = "none")}

\* Every call and terminal is gone.  In a pause a turn with a run row, or of a
\* task that ever had one, is owed; otherwise it fails and a human reads why.
OwedAtBoot(t) ==
    /\ paused /\ Status(t) = "running"
    /\ t \in disk \/ start[t].at = "spawn" \/ session[t] = "work"

BootMark(t) == IF session[t] = "publish" \/ (start[t].at = "spawn" /\ start[t].turn = "publish")
               THEN "publish" ELSE "resume"

BootRow == [t \in Task |->
    IF Status(t) # "running" THEN row[t]
    ELSE [status |-> "review", round |-> "none",
          mark |-> IF OwedAtBoot(t) THEN BootMark(t) ELSE "none"]]

Restart ==
    /\ paused => Forced \/ Caught = {}
    /\ IF paused THEN row' = BootRow /\ loop' = [t \in Task |-> "none"]
       ELSE ResumeVerifyRounds(BootRow, [t \in Task |-> "none"], {})
    /\ due' = IF paused THEN due
              ELSE [t \in Task |-> IF t \in Owed \/ Status(t) = "queued" THEN due[t] ELSE "none"]
    /\ start' = [t \in Task |-> NoStart]
    /\ session' = [t \in Task |-> "none"]
    /\ sweep' = "none" /\ backoff' = {} /\ resuming' = [t \in Task |-> "none"]
    /\ UNCHANGED <<paused, disk>>

---------------------------------------------------------------------------

ServerStep(t) ==
    \/ Claim(t) \/ GatePasses(t) \/ GateAborts(t) \/ Spawns(t)
    \/ RoundEnds(t) \/ ResumeFires(t) \/ ResumeTurn(t) \/ LandingEnds(t)
    \/ BackoffFires(t)

AgentStep(t) ==
    \/ StopArrives(t) \/ PublishEnds(t) \/ Dies(t) \/ ApiFails(t) \/ Gone(t)

HumanStep(t) ==
    \/ HumanMoves(t)
    \/ \E turn \in Asked : HumanStarts(t, turn)

Next ==
    \/ Pause \/ PauseEnds \/ Drain \/ Continue \/ Restart
    \/ \E t \in Task : ServerStep(t) \/ AgentStep(t) \/ HumanStep(t)

Spec == Init /\ [][Next]_vars

Disturbance ==
    Pause \/ Drain \/ Continue \/ Restart \/ \E t \in Task : HumanStep(t)

\* Continue has been pressed and nobody touches anything after it: turns end,
\* the reviewer answers, the calls of the server go on and its pass finds the
\* owed turn as often as it looks.
Fairness ==
    /\ <>[][~Disturbance]_vars
    /\ WF_vars(PauseEnds)
    /\ SF_vars(\E t \in Task : ResumeFires(t))
    /\ \A t \in Task :
          /\ WF_vars(GatePasses(t) \/ GateAborts(t) \/ Spawns(t))
          /\ WF_vars(StopArrives(t) \/ PublishEnds(t) \/ Dies(t) \/ Gone(t))
          /\ WF_vars(RoundEnds(t)) /\ WF_vars(BackoffFires(t))
          /\ WF_vars(ResumeTurn(t) \/ LandingEnds(t))

FairSpec == Spec /\ Fairness

---------------------------------------------------------------------------
(* Properties *)

Carried(t) ==
    CASE due[t] = "fresh"   -> start[t].turn = "fresh" \/ Status(t) = "queued"
      [] due[t] = "message" -> start[t].turn = "message" \/ row[t].mark = "message"
      [] due[t] = "work"    -> \/ session[t] = "work" \/ t \in backoff
                               \/ row[t].mark = "resume"
      [] due[t] = "publish" -> \/ start[t].turn = "publish" \/ session[t] = "publish"
                               \/ row[t].mark = "publish"
      [] OTHER -> TRUE

\* A turn that was given is carried on, by a start, a terminal, a retry, a
\* place in the queue or a marker for Continue, with its message as long as that
\* has not reached the agent, until it ends, its agent dies, a human does
\* something else with the task, or a restart outside a pause fails it on its
\* row: no pause, in whatever phase it cuts a turn, drained, pressed again or
\* with a restart in it, loses one.  The restart must not catch a start or a
\* retry on its way (Forced): its message is in memory only.
TurnKept == \A t \in Task : Carried(t)

\* Outside a pause a round that is due is under way, or the task has a turn to
\* take before it: Continue and the boot forget none that the pause held.
RoundKept ==
    ~paused => \A t \in Task : row[t].round # "none" /\ Status(t) = "review" =>
                  loop[t] # "none" \/ t \in Owed

\* No claim takes a repository while a turn that was cut there waits.
CutWorkUndisturbed ==
    [][start' # start => \A t, u \in Task :
          start[t].by # "claim" /\ start'[t].by = "claim" /\ t # u /\ RepoOf[t] = RepoOf[u]
             => due[u] \in {"none", "fresh"} \/ u \in backoff]_vars

\* Every turn Pause all owes is given back: once it is continued and left
\* alone, no marker stays, whichever order slots come free in.
OwedGiven == <>[](paused \/ Owed = {})
=============================================================================
