------------------------------ MODULE MCParts ------------------------------
(***************************************************************************)
(* Instances for TLC of the parts of the server that are specified apart   *)
(* from the scheduler.  They share no variable here, so one run checks     *)
(* several of them side by side: a behaviour is one of the part chosen in  *)
(* its initial state, and the others stay as they began.                   *)
(***************************************************************************)
EXTENDS TaskWaits, TLC

CONSTANTS
    Active,      \* the parts this run checks
    p, k, q,     \* tasks of TaskWaits
    a, b, PauseTask, PauseCap, Asked, Hurried, Forced,
    c1, c2, Content, NoChange, Nothing, Detours,
    w1, w2, l1, l2, x1, x2, Slots,
    r1, r2, d0, d1, d2, e1, Row, Commit, Surface, Polled,
    j1, j2, MaxRuns, Ahead,
    p1, p2, Patch, NewFile, Foreign, Tries, MaxCuts, LandDetours,
    s1, s2, m1, m2, Msg, MaxMoves

VARIABLES
    part,
    pausing, sweep, pauseRow, start, session, disk, backoff, resuming, rounds, due,
    row, tree, loop, recheck, fixes, idle, paused, judged,
    queue, held, told, polling, max, memory, turn,
    approval, asking, taps, runs, polls, origin, acted,
    job, run, retried, jobsPaused, served,
    landing, agent, open, dir, branch, detached, main, track, land, red, vetted, written, cuts,
    target, ever, terminal, firing, mail, used, heard, left

pauseVars == <<pausing, sweep, pauseRow, start, session, disk, backoff, resuming, rounds, due>>
loopVars == <<row, tree, loop, recheck, fixes, idle, paused, judged>>
slotVars == <<queue, held, told, polling, max, memory, turn>>
approvalVars == <<approval, asking, taps, runs, polls, origin, acted>>
jobVars == <<job, run, retried, jobsPaused, served>>
treeVars == <<landing, agent, open, dir, branch, detached, main, track, land, red,
              vetted, written, cuts>>
mailVars == <<target, ever, terminal, firing, mail, used, heard, left>>

OnePiece == [t \in Task |-> IF t = k THEN p ELSE NoTask]

P == INSTANCE PauseAll_proofs WITH
        Task <- PauseTask, RepoOf <- [t \in PauseTask |-> "repo"], Cap <- PauseCap,
        paused <- pausing, row <- pauseRow, loop <- rounds

V == INSTANCE VerifyLoop_proofs WITH
        ReviewOn <- TRUE, ChecksOn <- TRUE, ReviewRounds <- 1, CheckRounds <- 1

\* Two worker runs with a lease each, one that also asks for a check, and a
\* check of the server's own.
H == INSTANCE HeavySlots_proofs WITH
        Worker <- {w1, w2}, Lease <- {l1, l2}, AgentCheck <- {x1}, StageCheck <- {x2},
        By <- [t \in {l1, l2, x1, x2} |-> IF t \in {l1, x1} THEN w1 ELSE w2]

\* Every request asks for the second commit of a line; e1 is somebody else's.
A == INSTANCE Approvals_proofs WITH
        Below <- [c \in Commit |-> CASE c = d0 -> {d0}
                                    [] c = d1 -> {d0, d1}
                                    [] c = d2 -> {d0, d1, d2}
                                    [] c = e1 -> {d0, e1}],
        Wants <- [r \in Row |-> d2], First <- d0, PendingCap <- 1

\* A job that comes round every tick and one that runs once.
J == INSTANCE Jobs_proofs WITH
        Job <- {j1, j2}, Every <- [j \in {j1, j2} |-> IF j = j1 THEN 1 ELSE 0],
        Concurrency <- 1, Late <- 1, paused <- jobsPaused

W == INSTANCE Worktrees WITH status <- landing, Detours <- LandDetours

\* Two tasks of one checkout; all messages go one way, the first of them a
\* request.
D == INSTANCE Dispatches_proofs WITH
        Task <- {s1, s2}, RepoOf <- [t \in {s1, s2} |-> "repo"],
        From <- [m \in Msg |-> s1], To <- [m \in Msg |-> s2], Wakes <- {m1} \cap Msg,
        Cap <- 2, RunCap <- 2, PairCap <- 3,
        status <- target, ran <- ever, session <- terminal, start <- firing, msg <- mail

ASSUME PartsAssumption ==
    /\ P!AskedAssumption
    /\ V!NoChangeAssumption /\ V!BudgetAssumption /\ V!DetoursAssumption
    /\ H!TicketAssumption /\ H!OneLeaseAssumption /\ H!SlotsAssumption
    /\ A!CommitAssumption /\ J!JobAssumption /\ W!DetoursAssumption /\ W!TriesAssumption
    /\ W!PatchAssumption
    /\ D!MessageAssumption /\ D!BoundsAssumption

PartsInit ==
    /\ part \in Active
    /\ Init /\ P!Init /\ V!Init /\ H!Init /\ A!Init /\ J!Init /\ W!Init /\ D!Init
    /\ part # "slots" => max = 1
    /\ part # "dispatches" => target = [t \in {s1, s2} |-> "queued"]

PartsNext ==
    \/ /\ part = "waits" /\ Next
       /\ UNCHANGED <<part, pauseVars, loopVars, slotVars, approvalVars, jobVars, treeVars, mailVars>>
    \/ /\ part = "pause" /\ P!Next
       /\ UNCHANGED <<part, waitVars, loopVars, slotVars, approvalVars, jobVars, treeVars, mailVars>>
    \/ /\ part = "verify" /\ V!VerifyNext
       /\ UNCHANGED <<part, waitVars, pauseVars, slotVars, approvalVars, jobVars, treeVars, mailVars>>
    \/ /\ part = "slots" /\ H!Next
       /\ UNCHANGED <<part, waitVars, pauseVars, loopVars, approvalVars, jobVars, treeVars, mailVars>>
    \/ /\ part = "approvals" /\ A!Next
       /\ UNCHANGED <<part, waitVars, pauseVars, loopVars, slotVars, jobVars, treeVars, mailVars>>
    \/ /\ part = "jobs" /\ J!Next
       /\ UNCHANGED <<part, waitVars, pauseVars, loopVars, slotVars, approvalVars, treeVars, mailVars>>
    \/ /\ part = "worktrees" /\ W!Next
       /\ UNCHANGED <<part, waitVars, pauseVars, loopVars, slotVars, approvalVars, jobVars, mailVars>>
    \/ /\ part = "dispatches" /\ D!Next
       /\ UNCHANGED <<part, waitVars, pauseVars, loopVars, slotVars, approvalVars, jobVars, treeVars>>

partVars == <<part, waitVars, pauseVars, loopVars, slotVars, approvalVars, jobVars, treeVars,
              mailVars>>

PartsSpec == PartsInit /\ [][PartsNext]_partVars

\* Every variable of the part at work has its type.
PartsTyped ==
    /\ part = "waits" => TypeOK
    /\ part = "pause" => P!TypeOK
    /\ part = "verify" => V!TypeOK
    /\ part = "slots" => H!TypeOK
    /\ part = "approvals" => A!TypeOK
    /\ part = "jobs" => J!TypeOK
    /\ part = "worktrees" => W!TypeOK
    /\ part = "dispatches" => D!TypeOK

\* What a pause must not lose: the turn it cut, the round it cut, and what is in
\* the directory of either.
TurnKept == part = "pause" => P!TurnKept
RoundKept == part = "pause" => P!RoundKept
CutWorkUndisturbed == P!CutWorkUndisturbed

\* What a verify round is for: no change lands without the verdict over it, and
\* no round is left that nobody works on.
LandsReviewed == V!LandsReviewed
LandsChecked == V!LandsChecked
RoundAlive == part = "verify" => V!RoundAlive

\* Heavy slots go to the first in the queue, within the cap, none stays free
\* while somebody waits, everybody is told, and a lease has a live run.
GrantsInOrder == H!GrantsInOrder
NoSlotIdle == part = "slots" => H!NoSlotIdle
PollsAnswered == part = "slots" => H!PollsAnswered
LeaseOfLiveRun == part = "slots" => H!LeaseOfLiveRun

\* An approved push is of what the human saw, and its worker hears of it.
PushedAsApproved == A!PushedAsApproved
PollsHear == part = "approvals" => A!PollsHear

\* A job that is running has a run under way, and a slot of its schedule one run.
RunningIsLive == part = "jobs" => J!RunningIsLive
OncePerSlot == J!OncePerSlot

\* A land loses nothing, lands what was judged, and publishes what has landed.
WorkKept == part = "worktrees" => W!WorkKept
LandsJudged == W!LandsJudged
PublishedIsLanded == W!PublishedIsLanded

\* Every message is handed over once, and with the next turn at the latest.
HandedOver == D!HandedOver

\* What each part eventually does, under the fairness of that part alone: a
\* parked wait ends, an owed turn is given, a verify round settles, a check gets
\* its slot, an approved action comes to an outcome, a due job runs, and a request
\* is handed over.
WaitsEnd == part = "waits" /\ Fairness /\ []<>SlotFree => WaitEnds
OwedGiven == part = "pause" /\ P!Fairness => P!OwedGiven
VerifySettles == part = "verify" /\ V!VerifyFairness => V!VerifySettles
CheckGetsSlot == part = "slots" /\ H!Fairness => H!CheckGetsSlot
ApprovalEnds == part = "approvals" /\ A!Fairness => A!ApprovalEnds
DueJobsRun == part = "jobs" /\ J!Fairness => J!DueJobsRun
RequestsSettle == part = "dispatches" /\ D!Fairness => D!RequestsSettle
=============================================================================
