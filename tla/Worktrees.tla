------------------------------ MODULE Worktrees ------------------------------
(***************************************************************************)
(* The worktree of a task in a repository that delivers by pull request,   *)
(* and the land of its change on the base branch (land.ts, worktrees.ts,   *)
(* publishWorktree, landIfClean and worktreeSweep of orchestrator.ts).     *)
(*                                                                         *)
(* One task; the lands of the others, which the lock of the repository     *)
(* keeps out of this one, and the pushes of anybody else come at any time. *)
(* Nobody merges the change on GitHub: the server's own land does.         *)
(* A tree is the set of changes in it; the base branch only grows, so that *)
(* a branch fast-forwards it exactly when it sits on all of it.            *)
(***************************************************************************)
EXTENDS Naturals, FiniteSets

CONSTANTS
    Patch,      \* what the agent may write, a change at a time
    NewFile,    \* those of them that add a file: untracked until committed
    Foreign,    \* what others land
    Tries,      \* the pushes of one land, three in the code
    MaxCuts,    \* bound: restarts of the server
    Detours     \* the races a behaviour may take, see below

\* "cleanup": a turn starts while the worktree of a landed or cancelled task is
\* being removed; "asked": one starts after Publish has looked for one and
\* before the task is marked landing; "rebase": one starts on a rebase that a
\* restart left half done, or the change is looked for on the base with it;
\* "cut": a land ends between its rebase and its checks.
DetoursAssumption == Detours \subseteq {"cleanup", "asked", "rebase", "cut"}

PatchAssumption == NewFile \subseteq Patch

TriesAssumption == Tries \in Nat \ {0} /\ MaxCuts \in Nat

VARIABLES
    status,    \* of the row
    agent,     \* the turn: starting, making its worktree, at work
    open,      \* verifyOpen: the round over the change has no verdict yet
    dir,       \* the directory, and what is not committed in it
    branch,    \* tm/<task>: what it is based on, and its own commits
    detached,  \* a rebase under way or left half done, and commits made on it
    main,      \* the base branch on the remote
    track,     \* origin/<base>, as last fetched or pushed
    land,      \* where the land or the removal is; the tree it began with
    red,       \* landRedTree
    vetted,    \* (history) the trees a round or the checks of a land judged
    written,   \* (history) what the agent has written
    cuts       \* (bound) restarts

treeVars == <<status, agent, open, dir, branch, detached, main, track, land, red,
              vetted, written, cuts>>

Tree == SUBSET (Patch \cup Foreign)
NoDir == [there |-> FALSE, dirty |-> {}]
NoBranch == [there |-> FALSE, base |-> {}, own |-> {}]
Attached == [on |-> FALSE, onto |-> {}, side |-> {}]
NoLand == [at |-> "none", seen |-> {}, try |-> 0]

\* this.landing
Landing == land.at \in {"prepares", "fetches", "rebases", "rebasing", "squashes", "checks", "pushes"}

TypeOK ==
    /\ status \in {"draft", "running", "review", "failed", "cancelled", "published"}
    /\ agent \in {"none", "starts", "ensures", "works"}
    /\ open \in BOOLEAN
    /\ dir \in [there : BOOLEAN, dirty : SUBSET Patch]
    /\ branch \in [there : BOOLEAN, base : Tree, own : SUBSET Patch]
    /\ detached \in [on : BOOLEAN, onto : Tree, side : SUBSET Patch]
    /\ main \in Tree /\ track \in Tree
    /\ Landing \/ land.at \in {"none", "asked", "settles", "confirms", "sweeps"}
    /\ land.seen \in Tree /\ land.try \in 0 .. Tries
    /\ red \in SUBSET Tree /\ vetted \in SUBSET Tree
    /\ written \in SUBSET Patch /\ cuts \in 0 .. MaxCuts

Init ==
    /\ status = "draft" /\ agent = "none" /\ open = FALSE
    /\ dir = NoDir /\ branch = NoBranch /\ detached = Attached
    /\ main = {} /\ track = {} /\ land = NoLand
    /\ red = {} /\ vetted = {} /\ written = {} /\ cuts = 0

Head == IF detached.on THEN detached.onto \cup detached.side ELSE branch.base \cup branch.own

At(where) == land' = [land EXCEPT !.at = where]

---------------------------------------------------------------------------
(* A turn *)

\* followUp
FollowUp ==
    /\ status # "running" /\ agent = "none" /\ ~Landing
    /\ land.at \in {"confirms", "sweeps"} => "cleanup" \in Detours
    /\ land.at = "asked" => "asked" \in Detours
    /\ detached.on => "rebase" \in Detours
    /\ status' = "running" /\ agent' = "starts" /\ open' = FALSE
    /\ UNCHANGED <<dir, branch, detached, main, track, land, red, vetted, written, cuts>>

\* startWorker puts a turn back that meets a land.
Starts ==
    /\ agent = "starts"
    /\ IF Landing
       THEN agent' = "none" /\ status' = IF status = "running" THEN "review" ELSE status
       ELSE agent' = "ensures" /\ UNCHANGED status
    /\ UNCHANGED <<open, dir, branch, detached, main, track, land, red, vetted, written, cuts>>

\* ensureTree: the directory as it is, or again from the branch, or from a new
\* branch off the base.
EnsuredDir == IF dir.there THEN dir ELSE [NoDir EXCEPT !.there = TRUE]
EnsuredBranch == IF dir.there \/ branch.there THEN branch
                 ELSE [there |-> TRUE, base |-> main, own |-> {}]
EnsuredTrack == IF dir.there \/ branch.there THEN track ELSE main

Spawns ==
    /\ agent = "ensures"
    /\ dir' = EnsuredDir /\ branch' = EnsuredBranch /\ track' = EnsuredTrack
    /\ agent' = IF status = "running" THEN "works" ELSE "none"
    /\ UNCHANGED <<status, open, detached, main, land, red, vetted, written, cuts>>

Writes ==
    /\ agent = "works" /\ dir.there
    /\ \E x \in Patch \ written :
          dir' = [dir EXCEPT !.dirty = @ \cup {x}] /\ written' = written \cup {x}
    /\ UNCHANGED <<status, agent, open, branch, detached, main, track, land, red, vetted, cuts>>

\* What is not committed goes where HEAD is.
Committed ==
    IF detached.on
    THEN detached' = [detached EXCEPT !.side = @ \cup dir.dirty] /\ UNCHANGED branch
    ELSE branch' = [branch EXCEPT !.own = @ \cup dir.dirty] /\ UNCHANGED detached

Commits ==
    /\ agent = "works" /\ dir.there /\ dir.dirty # {}
    /\ Committed
    /\ dir' = [dir EXCEPT !.dirty = {}]
    /\ UNCHANGED <<status, agent, open, main, track, land, red, vetted, written, cuts>>

\* A Stop, and the round that follows it is due.
TurnEnds ==
    /\ agent = "works" /\ agent' = "none"
    /\ IF status = "running" THEN status' = "review" /\ open' = TRUE ELSE UNCHANGED <<status, open>>
    /\ UNCHANGED <<dir, branch, detached, main, track, land, red, vetted, written, cuts>>

Cancel ==
    /\ status = "running" /\ status' = "cancelled"
    /\ agent' = IF agent = "works" THEN "none" ELSE agent
    /\ UNCHANGED <<open, dir, branch, detached, main, track, land, red, vetted, written, cuts>>

\* The round over the change comes to its verdict, or a human to one without.
RoundSettles ==
    /\ status = "review" /\ open /\ agent = "none" /\ dir.there
    /\ open' = FALSE /\ vetted' = vetted \cup {Head \cup dir.dirty}
    /\ UNCHANGED <<status, agent, dir, branch, detached, main, track, land, red, written, cuts>>

---------------------------------------------------------------------------
(* The land *)

\* publish, publishWorktree: no round is open, and no agent works.
Publish ==
    /\ status = "review" /\ ~open /\ agent = "none" /\ land.at = "none"
    /\ At("asked")
    /\ UNCHANGED <<status, agent, open, dir, branch, detached, main, track, red, vetted, written, cuts>>

\* From here the task is landing, and its terminals are gone.
LandBegins ==
    /\ land.at = "asked" /\ At("prepares")
    /\ agent' = IF agent = "works" THEN "none" ELSE agent
    /\ UNCHANGED <<status, open, dir, branch, detached, main, track, red, vetted, written, cuts>>

\* The worktree is there again, a rebase that was left is given up, and what is
\* not committed is.
LandPrepares ==
    /\ land.at = "prepares"
    /\ dir' = [EnsuredDir EXCEPT !.dirty = {}] /\ track' = EnsuredTrack
    /\ branch' = IF detached.on THEN branch ELSE [EnsuredBranch EXCEPT !.own = @ \cup dir.dirty]
    /\ detached' = Attached
    /\ land' = [at |-> "fetches", seen |-> branch'.base \cup branch'.own, try |-> 1]
    /\ UNCHANGED <<status, agent, open, main, red, vetted, written, cuts>>

LandFetches ==
    /\ land.at = "fetches" /\ At("rebases")
    /\ track' = main
    /\ UNCHANGED <<status, agent, open, dir, branch, detached, main, red, vetted, written, cuts>>

\* git does not rebase over a tracked change that is not committed.
LandRebases ==
    /\ land.at = "rebases"
    /\ IF branch.base = track THEN At("squashes") /\ UNCHANGED detached
       ELSE /\ dir.dirty \subseteq NewFile
            /\ detached' = [on |-> TRUE, onto |-> track, side |-> {}] /\ At("rebasing")
    /\ UNCHANGED <<status, agent, open, dir, branch, main, track, red, vetted, written, cuts>>

Rebased == [branch EXCEPT !.base = detached.onto, !.own = (@ \cup detached.side) \ detached.onto]

LandRebased ==
    /\ land.at = "rebasing" /\ At("squashes")
    /\ branch' = Rebased /\ detached' = Attached
    /\ UNCHANGED <<status, agent, open, dir, main, track, red, vetted, written, cuts>>

\* resolveLandConflict: the rebase is given up, and the agent resolves it, or,
\* after its rounds, a human.
LandConflicts ==
    /\ land.at = "rebasing" /\ land' = NoLand
    /\ detached' = Attached
    /\ \/ status = "review" /\ agent = "none"
          /\ status' = "running" /\ agent' = "starts" /\ open' = FALSE
       \/ UNCHANGED <<status, agent, open>>
    /\ UNCHANGED <<dir, branch, main, track, red, vetted, written, cuts>>

\* Mutant of ChecksAgain: only a tree known to be red is checked again.
ChecksRed == Head \in red

\* The checks run again where the tree is not the one the land began with, or
\* one an earlier land found red.
ChecksAgain == Head # land.seen \/ Head \in red

\* One commit, if there is anything to land.
LandSquashes ==
    /\ land.at = "squashes"
    /\ land' = IF branch.own \subseteq branch.base THEN NoLand
               ELSE [land EXCEPT !.at = IF ChecksAgain THEN "checks" ELSE "pushes"]
    /\ UNCHANGED <<status, agent, open, dir, branch, detached, main, track, red, vetted, written, cuts>>

LandChecks ==
    /\ land.at = "checks"
    /\ \/ At("pushes") /\ vetted' = vetted \cup {Head} /\ UNCHANGED <<red, open>>
       \/ land' = NoLand /\ red' = {Head} /\ open' = (status = "review") /\ UNCHANGED vetted
    /\ UNCHANGED <<status, agent, dir, branch, detached, main, track, written, cuts>>

\* A push that is not a fast-forward is rejected, and the land goes round again.
LandPushes ==
    /\ land.at = "pushes"
    /\ \/ /\ branch.base = main
          /\ main' = Head /\ track' = Head /\ red' = {}
          /\ At("settles")
       \/ /\ branch.base # main
          /\ land' = IF land.try < Tries THEN [land EXCEPT !.at = "fetches", !.try = @ + 1] ELSE NoLand
          /\ UNCHANGED <<main, track, red>>
    /\ UNCHANGED <<status, agent, open, dir, branch, detached, vetted, written, cuts>>

\* A call to git or to the remote fails.
LandFails ==
    /\ land.at \in {"asked", "prepares", "fetches", "rebases", "pushes"}
                      \cup (IF "cut" \in Detours THEN {"squashes"} ELSE {})
    /\ land' = NoLand
    /\ UNCHANGED <<status, agent, open, dir, branch, detached, main, track, red, vetted, written, cuts>>

\* Mutant of Shipped: a commit of the task on the base branch is enough.
ShippedByTrailer == track \cap Patch # {}

\* landedCheck: a commit of the task is on the base branch, and what the task
\* has now is there too; a file that git does not track yet is not looked at.
Shipped == track \cap Patch # {} /\ dir.dirty \subseteq NewFile /\ Head \subseteq track

\* settlePublish
LandSettles ==
    /\ land.at = "settles"
    /\ IF status = "review" /\ Shipped THEN status' = "published" /\ At("confirms")
       ELSE UNCHANGED status /\ land' = NoLand
    /\ UNCHANGED <<agent, open, dir, branch, detached, main, track, red, vetted, written, cuts>>

\* landIfClean, or a human, of a change that is seen to be landed.
MarkPublished ==
    /\ status = "review" /\ ~open /\ agent = "none" /\ land.at = "none" /\ Shipped
    /\ detached.on => "rebase" \in Detours
    /\ status' = "published"
    /\ UNCHANGED <<agent, open, dir, branch, detached, main, track, land, red, vetted, written, cuts>>

---------------------------------------------------------------------------
(* The removal of the worktree *)

\* finishWorktreeLand, once the remote shows the merge.
LandCleans ==
    /\ land.at = "confirms" /\ land' = NoLand
    /\ dir' = NoDir /\ branch' = NoBranch /\ detached' = Attached
    /\ UNCHANGED <<status, agent, open, main, track, red, vetted, written, cuts>>

\* worktreeSweep finds a published or cancelled task with a directory, and no agent.
SweepLooks ==
    /\ status \in {"published", "cancelled"} /\ dir.there /\ agent # "works" /\ land.at = "none"
    /\ land' = [NoLand EXCEPT !.at = "sweeps"]
    /\ UNCHANGED <<status, agent, open, dir, branch, detached, main, track, red, vetted, written, cuts>>

\* removeWorktree: with the branch, if the task was published.
SweepRemoves ==
    /\ land.at = "sweeps" /\ land' = NoLand
    /\ IF status = "published" THEN branch' = NoBranch /\ detached' = Attached
       ELSE branch' = [branch EXCEPT !.own = IF detached.on THEN @ ELSE @ \cup dir.dirty]
            /\ detached' = Attached
    /\ dir' = NoDir
    /\ UNCHANGED <<status, agent, open, main, track, red, vetted, written, cuts>>

\* Mutant of Evict: only what is committed stays.
EvictDirty ==
    /\ status \in {"review", "failed"} /\ ~open /\ agent = "none" /\ ~Landing /\ dir.there
    /\ dir' = NoDir /\ detached' = Attached
    /\ UNCHANGED <<status, agent, open, branch, main, track, land, red, vetted, written, cuts>>

\* evictWorktree of a task that is idle still.
Evict ==
    /\ status \in {"review", "failed"} /\ ~open /\ agent = "none" /\ ~Landing /\ dir.there
    /\ dir' = NoDir /\ detached' = Attached
    /\ branch' = [branch EXCEPT !.own = IF detached.on THEN @ ELSE @ \cup dir.dirty]
    /\ UNCHANGED <<status, agent, open, main, track, land, red, vetted, written, cuts>>

---------------------------------------------------------------------------

OthersLand ==
    /\ \E x \in Foreign \ main : main' = main \cup {x}
    /\ UNCHANGED <<status, agent, open, dir, branch, detached, track, land, red, vetted, written, cuts>>

\* A rebase stays half done; its process may also outlive the server's.
Restart ==
    /\ cuts < MaxCuts /\ cuts' = cuts + 1
    /\ land.at \in {"squashes", "checks"} => "cut" \in Detours
    /\ \/ UNCHANGED <<branch, detached>>
       \/ /\ "cut" \in Detours /\ land.at = "rebasing"
          /\ branch' = Rebased /\ detached' = Attached
    /\ land' = NoLand /\ agent' = "none" /\ red' = {}
    /\ status' = IF status = "running" THEN "failed" ELSE status
    /\ UNCHANGED <<open, dir, main, track, vetted, written>>

Next ==
    \/ FollowUp \/ Starts \/ Spawns \/ Writes \/ Commits \/ TurnEnds \/ Cancel \/ RoundSettles
    \/ Publish \/ LandBegins \/ LandPrepares \/ LandFetches \/ LandRebases \/ LandRebased
    \/ LandConflicts \/ LandSquashes \/ LandChecks \/ LandPushes \/ LandFails \/ LandSettles
    \/ MarkPublished \/ LandCleans \/ SweepLooks \/ SweepRemoves \/ Evict
    \/ OthersLand \/ Restart

Spec == Init /\ [][Next]_treeVars

---------------------------------------------------------------------------
(* Properties *)

\* Nothing the agent has written is lost: it is on the base branch, on the
\* branch of the task, or in its directory, whatever rebase, eviction, removal
\* or restart came over it.  Once the task has landed this is not said of a new
\* file: a task that is seen to be landed may still have one in its directory,
\* uncommitted, and goes with directory and branch.
WorkKept ==
    LET kept == main \cup branch.own \cup dir.dirty \cup detached.side
    IN  /\ written \ NewFile \subseteq kept
        /\ main \cap Patch = {} => written \subseteq kept

\* What lands is a tree the round over the change or the checks of the land
\* have judged, wherever the base branch went meanwhile.
LandsJudged == [][land.at = "pushes" /\ main' # main /\ main' \cap Foreign = main \cap Foreign =>
                     main' \in vetted]_treeVars

\* A task is published with everything it wrote to tracked files and everything
\* it committed: a turn between the land and the look at it does not leave its
\* work behind.
PublishedIsLanded ==
    [][status' = "published" /\ status # "published"
          => (written \ NewFile) \cup branch.own \subseteq main]_treeVars
=============================================================================
