---------------------------- MODULE TaskStore ----------------------------
(***************************************************************************)
(* The rows of tm_tasks as the scheduler sees them, and the statements of  *)
(* the storage drivers that decide on them: the conditional transition,    *)
(* the holder predicates and the two claims.  Every statement is one       *)
(* transaction, so each is one operator over the whole table `row`.        *)
(*                                                                         *)
(* A row keeps what those statements read: its status, its place in the    *)
(* custom queue (`mark`, the click's stamp, 0 when it is not a member),    *)
(* the Undo-start hold, whether a verify round is open on it (review_state *)
(* pending/reviewing/fixing or a check due or running) and whether it is   *)
(* parked on another task (wait_for).  Repositories here admit one holder  *)
(* (`direct` delivery); parallel worktrees are not modelled.               *)
(***************************************************************************)
EXTENDS Integers, FiniteSets

CONSTANTS
    Task,        \* the tasks
    Repo,        \* the repositories
    RepoOf,      \* the repository each task works in
    ClaimRank    \* manual order of the global queue, per task

ASSUME TaskAssumption == IsFiniteSet(Task)
ASSUME RepoOfAssumption == RepoOf \in [Task -> Repo]
ASSUME ClaimRankAssumption ==
    /\ ClaimRank \in [Task -> Nat]
    /\ \A t, u \in Task : ClaimRank[t] = ClaimRank[u] => t = u

Status == {"draft", "queued", "running", "waiting", "blocked", "review",
           "published", "done", "failed", "cancelled"}

Terminal == {"done", "failed", "cancelled", "published"}

Row == [status : Status, mark : Nat, held : BOOLEAN, verify : BOOLEAN,
        parked : BOOLEAN]

SameRepo(t, u) == t # u /\ RepoOf[t] = RepoOf[u]

---------------------------------------------------------------------------
(* transitionTask *)

\* Whether the conditional update of a transition finds its row.
CanMove(row, t, from) == row[t].status \in from

\* Every transition releases the hold and the park, and a terminal status
\* takes the task out of the custom queue; the verify round is patched only
\* by the callers that say so.
Moved(r, to) ==
    [r EXCEPT !.status = to, !.held = FALSE, !.parked = FALSE,
              !.mark = IF to \in Terminal THEN 0 ELSE @]

\* transitionTask(t, from, to): a no-op when the status is not in `from`.
Transition(row, t, from, to) ==
    IF CanMove(row, t, from) THEN [row EXCEPT ![t] = Moved(@, to)] ELSE row

\* The same with a patch of the verify round in the same statement.
TransitionVerify(row, t, from, to, verify) ==
    IF CanMove(row, t, from)
    THEN [row EXCEPT ![t] = [Moved(@, to) EXCEPT !.verify = verify]]
    ELSE row

---------------------------------------------------------------------------
(* Who holds a repository *)

Working(row, t) == row[t].status \in {"running", "waiting"}

VerifyOpen(row, t) == row[t].status = "review" /\ row[t].verify

\* A custom-queue member holds its repo also while `blocked` as a split
\* parent; parked on another task it does not.
HeldBy(row, t) ==
    \/ Working(row, t)
    \/ row[t].status = "blocked" /\ ~row[t].parked
    \/ VerifyOpen(row, t)

\* Mutant of HoldsForClaim: a parked turn lets the repository go.
HoldsWhileRunning(row, t) == row[t].status = "running" \/ VerifyOpen(row, t)

\* For the global claim a `blocked` task never holds its repo.
HoldsForClaim(row, t) == Working(row, t) \/ VerifyOpen(row, t)

---------------------------------------------------------------------------
(* Claims *)

Waiting(row, t) == row[t].status = "queued" /\ ~row[t].held

Member(row, t) == row[t].mark > 0

\* A waiting member no member of its repo stands in the way of.
CustomEligible(row, t) ==
    /\ Waiting(row, t) /\ Member(row, t)
    /\ \A u \in Task : SameRepo(t, u) /\ Member(row, u) => ~HeldBy(row, u)

\* Mutant of CustomHead: any eligible member.
CustomAny(row, skip) == {t \in Task : CustomEligible(row, t) /\ RepoOf[t] \notin skip}

\* The oldest eligible member outside the repositories the pass has skipped.
CustomHead(row, skip) ==
    LET eligible == {t \in Task : CustomEligible(row, t) /\ RepoOf[t] \notin skip}
    IN  {t \in eligible : \A u \in eligible : row[t].mark <= row[u].mark}

\* claimCustomQueuedTask: the row is re-selected among its own repository's
\* members, so a claim of a task that is no longer the head finds nothing.
CanClaimCustom(row, t) == t \in CustomHead(row, Repo \ {RepoOf[t]})

\* claimNextQueuedTask: the first task of the global queue whose repo is free.
BaseEligible(row, t) ==
    /\ Waiting(row, t) /\ ~Member(row, t)
    /\ \A u \in Task : SameRepo(t, u) => ~HoldsForClaim(row, u)

BaseHead(row) ==
    LET eligible == {t \in Task : BaseEligible(row, t)}
    IN  {t \in eligible : \A u \in eligible : ClaimRank[t] <= ClaimRank[u]}

\* A claim writes only the status.
Claimed(row, t) == [row EXCEPT ![t].status = "running"]
=============================================================================
