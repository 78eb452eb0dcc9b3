----------------------------- MODULE VerifyLoop -----------------------------
(***************************************************************************)
(* What happens to one task between the Stop of a turn and its landing:    *)
(* the repo checks, the adversarial review, the fix turns they send back,  *)
(* the landing tier, and the pause that holds them (reviewCompletedRun and *)
(* everything it calls in orchestrator.ts, the Stop of routes/internal.ts).*)
(*                                                                         *)
(* A reviewer reads for minutes, and whole turns fit into that.  A running *)
(* check is cut within seconds of the task being taken over, git reads are *)
(* short and the sync of the PR before a landing takes up to a minute: a   *)
(* turn that starts there is not over before the stage is, unless Detours  *)
(* has "late".  "landed" is what a tier did on its own: done with          *)
(* auto_landed_at, published, or the start of the publish turn.  "review"  *)
(* stands for blocked too, and the memory fuse, which holds a round as a   *)
(* pause does, is left out.                                                *)
(***************************************************************************)
EXTENDS Integers, FiniteSets

CONSTANTS
    Content,       \* the changes a turn can leave behind
    NoChange,      \* the empty diff
    Nothing,       \* no diff: a hash that was never written
    ReviewOn,      \* the reviewer is on for this task
    ChecksOn,      \* its repository has checks
    ReviewRounds,  \* review.maxRounds
    CheckRounds,   \* checks.maxRounds
    Detours        \* what happens besides Stops and their rounds: "pause" (Pause
                   \* all), "exit" (a session ends with code 0 in its turn),
                   \* "early" (a human does not wait for what a pause left),
                   \* "late" (a turn is over before a short stage is), "red"
                   \* (the checks of a land are red inside its own round)

NoChangeAssumption ==
    NoChange \notin Content /\ Nothing \notin Content /\ NoChange # Nothing
BudgetAssumption == ReviewRounds \in Nat /\ CheckRounds \in Nat
DetoursAssumption == Detours \subseteq {"pause", "exit", "early", "late", "red"}

VARIABLES
    row,      \* tm_tasks: status, review_state, check_state and their hashes
    tree,     \* the diff of the task now
    loop,     \* pendingReviews: the stage it is at and the diff it read
    recheck,  \* reviewRecheck
    fixes,    \* fixRounds and checkLoops
    idle,     \* the session of the last turn is still alive
    paused,   \* orchestrator.paused
    judged    \* (history) the diffs a reviewer found clean, those checks passed

verifyVars == <<row, tree, loop, recheck, fixes, idle, paused, judged>>

ReviewStates == {"none", "pending", "reviewing", "fixing",
                 "passed", "flagged", "skipped", "error"}
CheckStates == {"none", "pending", "running", "green", "red", "error"}

\* REVIEW_NOW_FROM
Judgeable == {"review", "done", "landed", "failed"}

NoLoop == [at |-> "none", forced |-> FALSE, hash |-> Nothing]

TypeOK ==
    /\ row \in [status : {"queued", "running", "review", "done", "landed", "failed"},
                mark : {"none", "land", "turn"},
                review : ReviewStates, verdict : {"none", "passed", "flagged", "error"},
                reviewed : Content \cup {Nothing},
                checks : CheckStates, results : {"none", "green", "red", "error"},
                checked : Content \cup {Nothing}]
    /\ tree \in Content \cup {NoChange}
    /\ loop \in [at : {"none", "start", "checks", "checked", "review", "cut", "end",
                        "lands"},
                 forced : BOOLEAN, hash : Content \cup {NoChange, Nothing}]
    /\ recheck \in BOOLEAN
    /\ fixes \in [review : 0 .. ReviewRounds, checks : 0 .. CheckRounds,
                  hash : Content \cup {Nothing}]
    /\ idle \in BOOLEAN /\ paused \in BOOLEAN
    /\ judged \in [clean : SUBSET Content, green : SUBSET Content]

NoFixes == [review |-> 0, checks |-> 0, hash |-> Nothing]

Init ==
    /\ row = [status |-> "queued", mark |-> "none",
              review |-> "none", verdict |-> "none", reviewed |-> Nothing,
              checks |-> "none", results |-> "none", checked |-> Nothing]
    /\ tree = NoChange
    /\ loop = NoLoop /\ recheck = FALSE /\ fixes = NoFixes
    /\ idle = FALSE /\ paused = FALSE
    /\ judged = [clean |-> {}, green |-> {}]

ReviewDue == row.review \in {"pending", "reviewing"}
ChecksDue == row.checks \in {"pending", "running"}

\* verifyOpen: the machine is not done with what the task left in review.
VerifyOpen ==
    row.status = "review" /\ (ChecksDue \/ ReviewDue \/ row.review = "fixing")

\* Mutant of LandingReason: a red check does not keep the task from landing.
ReasonWithoutChecks(r) == r.review \in {"none", "passed", "skipped"}

\* landingReason
LandingReason(r) ==
    r.checks \in {"none", "green"} /\ r.review \in {"none", "passed", "skipped"}

\* settledReviewState on the rounds recorded so far.
SettledReview == IF row.verdict = "none" THEN "skipped" ELSE row.verdict

\* transitionTask releases the marker with every move.
Moves(r, to) == [r EXCEPT !.status = to, !.mark = "none"]

At(stage) == loop' = [loop EXCEPT !.at = stage]
Ends == loop' = NoLoop /\ recheck' = FALSE
Starts(forced) == loop' = [at |-> "start", forced |-> forced, hash |-> Nothing]

---------------------------------------------------------------------------
(* The turn *)

\* Neither the seconds of a cut check nor the moments between two stages.
TurnMayEnd == loop.at \in {"none", "review", "cut"} \/ "late" \in Detours

Edit ==
    /\ row.status = "running"
    /\ tree' \in (Content \cup {NoChange}) \ {tree}
    /\ UNCHANGED <<row, loop, recheck, fixes, idle, paused, judged>>

\* Mutant of Joins: a Stop during a round is not looked at again.
JoinsSilently == UNCHANGED recheck

\* reviewCompletedRun while a round of the task is in flight.
Joins == recheck' = TRUE

\* The Stop route parks the task with what is due, and asks for the round.
Stop ==
    /\ row.status = "running" /\ TurnMayEnd
    /\ row' = [Moves(row, "review") EXCEPT
                 !.review = IF ReviewOn THEN "pending" ELSE "none",
                 !.checks = IF ChecksOn THEN "pending" ELSE "none"]
    /\ idle' = TRUE
    /\ IF loop.at = "none" THEN Starts(FALSE) /\ UNCHANGED recheck
       ELSE Joins /\ UNCHANGED loop
    /\ UNCHANGED <<tree, fixes, paused, judged>>

\* The session ends before its Stop: failed, or, when it ended with code 0,
\* in review for a human to look at.  No review is due.
TurnDies ==
    /\ row.status = "running" /\ TurnMayEnd
    /\ \E to \in {"failed"} \cup (IF "exit" \in Detours THEN {"review"} ELSE {}) :
          row' = [Moves(row, to) EXCEPT !.review = "none"]
    /\ UNCHANGED idle
    /\ UNCHANGED <<tree, loop, recheck, fixes, paused, judged>>

IdleEvicted ==
    /\ idle /\ row.status # "running"
    /\ idle' = FALSE
    /\ UNCHANGED <<row, tree, loop, recheck, fixes, paused, judged>>

---------------------------------------------------------------------------
(* The human *)

\* A turn is given: the claim of the queued task, or a follow-up.
FollowUp ==
    /\ row.status \in Judgeable \cup {"queued"}
    /\ row' = Moves(row, "running")
    /\ idle' = FALSE
    /\ UNCHANGED <<tree, loop, recheck, fixes, paused, judged>>

MarkDone ==
    /\ row.status = "review"
    /\ row' = Moves(row, "done")
    /\ UNCHANGED <<tree, loop, recheck, fixes, idle, paused, judged>>

\* reviewNow: a fresh verdict and a fresh budget of fix turns.
ReviewNow ==
    /\ row.status \in Judgeable /\ ~paused /\ loop.at = "none"
    /\ row.mark = "none" \/ "early" \in Detours
    /\ row' = [row EXCEPT !.review = "pending", !.reviewed = Nothing]
    /\ fixes' = [fixes EXCEPT !.review = 0]
    /\ Starts(TRUE)
    /\ UNCHANGED <<tree, recheck, idle, paused, judged>>

---------------------------------------------------------------------------
(* The round *)

\* deferLanding: a settled round whose tier lands is owed its landing.
DeferLanding ==
    /\ Ends
    /\ \/ UNCHANGED row
       \/ /\ row.status = "review" /\ row.mark = "none"
          /\ ~VerifyOpen /\ LandingReason(row)
          /\ row' = [row EXCEPT !.mark = "land"]

PassPaused ==
    /\ paused /\ loop.at \in {"start", "checked"}
    /\ DeferLanding
    /\ UNCHANGED <<tree, fixes, idle, paused, judged>>

\* Green on the same change: a turn that only talked.
UnchangedGreen == tree = row.checked /\ row.results = "green"

\* The pass begins, and its check stage unless it has nothing to run.
PassBegins ==
    /\ loop.at = "start" /\ ~paused
    /\ recheck' = FALSE
    /\ IF ChecksDue /\ row.status = "review" /\ tree # NoChange /\ ~UnchangedGreen
       THEN /\ row' = [row EXCEPT !.checks = "running"]
            /\ loop' = [loop EXCEPT !.at = "checks", !.hash = tree]
            /\ UNCHANGED fixes
       ELSE /\ row' = [row EXCEPT !.checks =
                         IF ~ChecksDue THEN @
                         ELSE IF row.status = "review" /\ UnchangedGreen THEN "green" ELSE "none"]
            /\ fixes' = IF ChecksDue THEN [fixes EXCEPT !.checks = 0, !.hash = Nothing] ELSE fixes
            /\ At("checked")
    /\ UNCHANGED <<tree, idle, paused, judged>>

NoCheckFixes == fixes' = [fixes EXCEPT !.checks = 0, !.hash = Nothing]

\* The task was taken over while the checks ran: they are cut, no verdict.
ChecksCut ==
    /\ loop.at = "checks" /\ row.status # "review"
    /\ row' = [row EXCEPT !.checks = "none"]
    /\ NoCheckFixes
    /\ At("checked")
    /\ UNCHANGED <<tree, recheck, idle, paused, judged>>

ChecksPass ==
    /\ loop.at = "checks"
    /\ \E verdict \in {"green", "error"} :
          /\ row' = [row EXCEPT !.checks = verdict, !.results = verdict, !.checked = loop.hash]
          /\ judged' = IF verdict = "green" THEN [judged EXCEPT !.green = @ \cup {loop.hash}]
                       ELSE judged
    /\ NoCheckFixes
    /\ At("checked")
    /\ UNCHANGED <<tree, recheck, idle, paused>>

\* Red drops the review that was due.
Red(state) == [row EXCEPT !.checks = state, !.results = "red", !.checked = loop.hash,
                          !.review = IF @ = "pending" THEN "none" ELSE @]

\* A red check sends the worker back while that may help: the change is not
\* the one that was red before, rounds are left, the task is still parked and
\* its session lives.  The budget may refuse it too.
MayFixChecks == /\ fixes.hash # loop.hash /\ fixes.checks < CheckRounds
                /\ row.status = "review" /\ idle

ChecksRed ==
    /\ loop.at = "checks"
    /\ \/ /\ row' = Red("red")
          /\ NoCheckFixes /\ UNCHANGED idle
       \/ /\ MayFixChecks /\ paused
          /\ row' = Red("pending")
          /\ UNCHANGED <<fixes, idle>>
       \/ /\ MayFixChecks /\ ~paused
          /\ row' = Moves(Red("red"), "running")
          /\ fixes' = [fixes EXCEPT !.checks = @ + 1, !.hash = loop.hash]
          /\ idle' = FALSE
    /\ IF paused THEN Ends ELSE At("end") /\ UNCHANGED recheck  \* deferLanding has no reason
    /\ UNCHANGED <<tree, paused, judged>>

\* Statuses a pass reviews: a round that was asked for, more of them.
ReviewableFrom == IF loop.forced THEN Judgeable ELSE Judgeable \ {"failed"}

\* Mutant of SameDiff: any verdict of the task stands for its present diff.
AnyDiff == row.reviewed # Nothing

\* The unchanged-diff gate of runReviewRound.
SameDiff == tree = row.reviewed

\* runReviewRound until its reviewer is spawned, or without one.
ReviewBegins ==
    /\ loop.at = "checked" /\ ~paused
    /\ LET from == row.status \in ReviewableFrom
           look == from /\ (loop.forced \/ ReviewOn)
       IN  \/ /\ ~from
              /\ row' = [row EXCEPT !.review =
                           IF ~ReviewDue THEN @ ELSE IF row.verdict = "none" THEN "none"
                           ELSE SettledReview]
              /\ UNCHANGED fixes /\ At("end")
           \/ /\ from /\ ~look
              /\ row' = [row EXCEPT !.review = IF @ = "pending" THEN "none" ELSE @]
              /\ UNCHANGED fixes /\ At("end")
           \/ /\ look /\ (tree = NoChange \/ SameDiff)
              /\ row' = [row EXCEPT !.review = IF tree = NoChange THEN "skipped" ELSE SettledReview]
              /\ fixes' = [fixes EXCEPT !.review = 0]
              /\ At("end")
           \/ /\ look /\ tree # NoChange /\ ~SameDiff
              /\ row' = [row EXCEPT !.review = "reviewing"]
              /\ UNCHANGED fixes
              /\ loop' = [loop EXCEPT !.at = "review", !.hash = tree]
    /\ UNCHANGED <<tree, recheck, idle, paused, judged>>

\* Mutant of MayFixReview: review.maxRounds is not asked for.
MayFixAgain == row.status = "review" /\ idle

\* Findings go back to the session that did the work.
MayFixReview == fixes.review < ReviewRounds /\ row.status = "review" /\ idle

Recorded(verdict, state) ==
    row' = [row EXCEPT !.review = state, !.verdict = verdict, !.reviewed = loop.hash]

\* The reviewer answers; it is not asked again whether a newer Stop has parked
\* the task meanwhile.  In a pause an error, or findings a turn would follow
\* from, leave the round due.
ReviewEnds ==
    /\ loop.at \in {"review", "cut"}
    /\ \/ /\ loop.at = "review"
          /\ Recorded("passed", "passed")
          /\ judged' = [judged EXCEPT !.clean = @ \cup {loop.hash}]
          /\ fixes' = [fixes EXCEPT !.review = 0] /\ UNCHANGED idle
       \/ /\ loop.at = "review"
          /\ Recorded("flagged", "flagged")
          /\ fixes' = [fixes EXCEPT !.review = 0] /\ UNCHANGED <<idle, judged>>
       \/ /\ ~paused
          /\ Recorded("error", "error")
          /\ fixes' = [fixes EXCEPT !.review = 0] /\ UNCHANGED <<idle, judged>>
       \/ /\ paused
          /\ row' = [row EXCEPT !.review = "pending"]
          /\ UNCHANGED <<fixes, idle, judged>>
       \/ /\ loop.at = "review" /\ MayFixReview /\ ~paused
          /\ row' = [Moves(row, "running") EXCEPT
                       !.review = "fixing", !.verdict = "flagged", !.reviewed = loop.hash]
          /\ fixes' = [fixes EXCEPT !.review = @ + 1]
          /\ idle' = FALSE /\ UNCHANGED judged
    /\ At("end")
    /\ UNCHANGED <<tree, recheck, paused>>

\* A git or storage call throws: nothing was judged, the marks become errors.
RoundThrows ==
    /\ loop.at \in {"start", "checks", "checked", "review"}
    /\ row' = [row EXCEPT !.review = IF ReviewDue THEN "error" ELSE @,
                          !.checks = IF ChecksDue THEN "error" ELSE @]
    /\ Ends
    /\ UNCHANGED <<tree, fixes, idle, paused, judged>>

\* A Stop that joined the round gets a pass of its own, not a forced one.
NextPass ==
    /\ loop.at = "end" /\ recheck
    /\ IF row.status = "review" THEN Starts(FALSE) /\ UNCHANGED recheck ELSE Ends
    /\ UNCHANGED <<row, tree, fixes, idle, paused, judged>>

\* landIfClean: a tier that lands reads the verdict, and then syncs the branch
\* and its PR; any other leaves the task to the human.
LandBegins ==
    /\ loop.at = "end" /\ ~recheck
    /\ \/ /\ row.status = "review" /\ LandingReason(row)
          /\ At("lands") /\ UNCHANGED recheck
       \/ Ends
    /\ UNCHANGED <<row, tree, fixes, idle, paused, judged>>

Landed == row' = Moves(row, "landed")

\* publishWorktree: the land has ended the session, the checks on the rebased
\* change are red, and they are due again.
Reopened ==
    /\ row' = [row EXCEPT !.status = "review", !.mark = "none",
                          !.checks = "pending", !.results = "red"]
    /\ idle' = FALSE

\* The tier acts on what it read: the task is refused, landed, or, in a pause,
\* owed its landing, whatever its status is by now.  A round asked for by a red
\* land would join the one that lands, which does not look again.
Lands ==
    /\ loop.at = "lands"
    /\ \/ UNCHANGED <<row, idle>>
       \/ row.status \in {"review", "done"} /\ Landed /\ UNCHANGED idle
       \/ paused /\ row' = [row EXCEPT !.mark = "land"] /\ UNCHANGED idle
       \/ "red" \in Detours /\ ChecksOn /\ row.status \in {"review", "done"} /\ Reopened
    /\ Ends
    /\ UNCHANGED <<tree, fixes, paused, judged>>

---------------------------------------------------------------------------
(* Pause and restart *)

\* pauseAll: the drain form only raises the flag; the full one suspends the
\* turn, in review with a marker, and stops the reviewer.
Pause ==
    /\ "pause" \in Detours /\ ~paused
    /\ paused' = TRUE
    /\ \/ UNCHANGED <<row, loop>>
       \/ /\ row.status = "running" => TurnMayEnd
          /\ row' = IF row.status = "running"
                    THEN [row EXCEPT !.status = "review", !.mark = "turn"] ELSE row
          /\ loop' = IF loop.at = "review" THEN [loop EXCEPT !.at = "cut"] ELSE loop
    /\ UNCHANGED <<tree, recheck, fixes, idle, judged>>

\* Mutant of Reruns: a red check that was held is not looked at again.
ReviewsRerun(r) ==
    /\ loop.at = "none"
    /\ r.mark = "none"
    /\ r.status \in Judgeable /\ r.review \in {"pending", "reviewing"}

\* resumeVerifyRounds: rounds of a task at rest that nobody runs.
Reruns(r) ==
    /\ loop.at = "none" /\ r.mark = "none"
    /\ \/ r.status \in Judgeable /\ r.review \in {"pending", "reviewing"}
       \/ r.status = "review" /\ r.checks \in {"pending", "running"}

Rerun(r) == Starts(r.review \in {"pending", "reviewing"})

\* continueAll; the owed turn or landing is a step of its own.
Continue ==
    /\ paused /\ (loop.at \in {"none", "checks", "review", "lands"} \/ "early" \in Detours)
    /\ paused' = FALSE
    /\ IF Reruns(row) THEN Rerun(row) ELSE UNCHANGED loop
    /\ UNCHANGED <<row, tree, recheck, fixes, idle, judged>>

MayLand == row.mark = "land" /\ row.status = "review" /\ LandingReason(row)

\* resumeOne: the turn goes on (PauseAll has the turns that cannot), or the
\* landing is decided again.  No round is in flight, so that one that is red
\* starts the round it asks for.
ResumeOwed ==
    /\ ~paused /\ row.mark # "none" /\ loop.at = "none"
    /\ \/ /\ row.mark = "turn" /\ row' = Moves(row, "running")
          /\ idle' = FALSE /\ UNCHANGED loop
       \/ /\ MayLand /\ Landed
          /\ UNCHANGED <<loop, idle>>
       \/ MayLand /\ ChecksOn /\ Reopened /\ Starts(FALSE)
       \/ /\ row.mark = "land" /\ row' = [row EXCEPT !.mark = "none"]
          /\ UNCHANGED <<loop, idle>>
    /\ UNCHANGED <<tree, recheck, fixes, paused, judged>>

\* A turn that died with the server: owed in a pause, failed otherwise.
BootTurn ==
    IF row.status # "running" THEN row
    ELSE [row EXCEPT !.status = IF paused THEN "review" ELSE "failed",
                     !.mark = IF paused THEN "turn" ELSE "none", !.review = "none"]

\* Marks nobody acts on are released.
BootMarks(r) ==
    [r EXCEPT !.review = IF @ = "fixing" THEN SettledReview ELSE @,
              !.checks = IF @ \in {"pending", "running"} /\ r.status # "review" THEN "none" ELSE @]

Boot ==
    LET r == BootMarks(BootTurn)
        due == r.review \in {"pending", "reviewing"}
    IN  /\ row' = r
        /\ IF ~paused /\ (due \/ r.checks \in {"pending", "running"})
           THEN Starts(due) ELSE loop' = NoLoop
        /\ recheck' = FALSE /\ fixes' = NoFixes /\ idle' = FALSE
        /\ UNCHANGED <<tree, paused, judged>>

---------------------------------------------------------------------------

AgentStep == Edit \/ Stop \/ TurnDies \/ IdleEvicted

HumanStep == FollowUp \/ MarkDone \/ ReviewNow \/ Pause \/ Continue

RoundStep ==
    \/ PassPaused \/ PassBegins \/ ChecksCut \/ ChecksPass \/ ChecksRed
    \/ ReviewBegins \/ ReviewEnds \/ NextPass \/ LandBegins \/ Lands

VerifyNext == AgentStep \/ HumanStep \/ RoundStep \/ RoundThrows \/ ResumeOwed \/ Boot

VerifySpec == Init /\ [][VerifyNext]_verifyVars

\* A round and its turns make their way; humans come, and the server goes
\* down, only so often.
VerifyFairness ==
    /\ <>[][~(FollowUp \/ MarkDone \/ ReviewNow \/ Pause \/ Boot)]_verifyVars
    /\ WF_verifyVars(RoundStep) /\ WF_verifyVars(Stop) /\ WF_verifyVars(ResumeOwed)
    /\ WF_verifyVars(Continue)

FairVerifySpec == VerifySpec /\ VerifyFairness

---------------------------------------------------------------------------
(* Properties *)

\* No tier lands a change its reviewer has not found clean: of what the task
\* has done since, in a follow-up while the reviewer read, nothing lands with
\* the verdict on what came before.
LandsReviewed ==
    [][ReviewOn /\ row.status # "landed" /\ row'.status = "landed"
         => tree \in judged.clean \cup {NoChange}]_verifyVars

\* Nor one its checks have not passed.
LandsChecked ==
    [][ChecksOn /\ row.status # "landed" /\ row'.status = "landed"
         => tree \in judged.green \cup {NoChange}]_verifyVars

\* A round that is due on a task at rest is being run, or held by the pause,
\* or comes after the turn the task is owed: no badge says auto-review for
\* ever.
RoundAlive ==
    VerifyOpen => loop.at # "none" \/ paused \/ row.mark = "turn"

\* The loop of checks, reviews and fix turns comes to rest.
VerifySettles == <>[](loop.at = "none" /\ row.status # "running" /\ (~paused => ~VerifyOpen))
=============================================================================
