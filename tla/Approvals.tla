------------------------------ MODULE Approvals ------------------------------
(***************************************************************************)
(* Actions an agent may not take and asks a human for: the request, its    *)
(* answer from several surfaces, and its execution by the server           *)
(* (approvals.ts, routes/approvals.ts, storage/approval-sql.ts).           *)
(*                                                                         *)
(* Every storage call is a step, as it is over the Postgres driver; over   *)
(* the default one some of them happen at once.  Of the four actions the   *)
(* push of a commit to one ref stands for all: each is described when it   *)
(* is asked for and checked again when it runs.  Everybody else who pushes *)
(* to the ref does so at any time.                                         *)
(***************************************************************************)
EXTENDS Integers, FiniteSets

CONSTANTS
    Row,         \* tm_approvals, and the request that would make each
    Commit,
    Below,       \* of each commit, the commits its history has, itself too
    Wants,       \* of each request, the commit it asks to push
    First,       \* where the ref stands
    Surface,     \* where a human answers
    PendingCap,  \* APPROVAL_PENDING_CAP
    Polled       \* bound: the requests an agent waits for

CommitAssumption ==
    /\ Below \in [Commit -> SUBSET Commit]
    /\ \A x \in Commit : x \in Below[x]
    /\ First \in Commit /\ Wants \in [Row -> Commit]

VARIABLES
    approval,  \* tm_approvals: status, and origin when it was described
    asking,    \* the request calls in flight
    taps,      \* the decisions in flight, of humans and of the request itself
    runs,      \* ApprovalService.running: where each execution is
    polls,     \* the agent's wait for each row
    origin,    \* the ref on the remote
    acted      \* (history) the rows whose commit the server has pushed

approvalVars == <<approval, asking, taps, runs, polls, origin, acted>>

Statuses == {"none", "pending", "approved", "running", "done", "failed", "rejected", "expired"}
Final == {"done", "failed", "rejected", "expired"}
Caller == Surface \cup {"request"}
NoTap == [at |-> "none", yes |-> FALSE]

TypeOK ==
    /\ approval \in [Row -> [status : Statuses, old : Commit]]
    /\ asking \in [Row -> {"none", "builds", "built", "creates"}]
    /\ taps \in [Row -> [Caller -> [at : {"none", "writes", "tells"}, yes : BOOLEAN]]]
    /\ runs \in [Row -> {"none", "starts", "looks", "pushes", "done", "failed", "tells"}]
    /\ polls \in [Row -> {"none", "opens", "rereads", "waits"}]
    /\ origin \in Commit
    /\ acted \in SUBSET Row

Init ==
    /\ approval = [r \in Row |-> [status |-> "none", old |-> First]]
    /\ asking = [r \in Row |-> "none"]
    /\ taps = [r \in Row |-> [c \in Caller |-> NoTap]]
    /\ runs = [r \in Row |-> "none"]
    /\ polls = [r \in Row |-> "none"]
    /\ origin = First
    /\ acted = {}

Is(r, s) == approval[r].status = s
Set(r, s) == approval' = [approval EXCEPT ![r].status = s]
Goes(r, at) == runs' = [runs EXCEPT ![r] = at]

\* Who hears that r has changed.
Heard(r, s) == polls' = IF s \in Final THEN [polls EXCEPT ![r] = IF @ = "waits" THEN "none" ELSE @]
                        ELSE polls

\* git takes a commit the ref's history leads to.
FastForward(to) == to # origin /\ origin \in Below[to]

---------------------------------------------------------------------------
(* The request *)

\* request, up to the cap.
Ask(r) ==
    /\ Is(r, "none") /\ asking[r] = "none"
    /\ Cardinality({x \in Row : Is(x, "pending")}) < PendingCap
    /\ asking' = [asking EXCEPT ![r] = "builds"]
    /\ UNCHANGED <<approval, taps, runs, polls, origin, acted>>

\* describePush: only a fast-forward is offered.
Describe(r) ==
    /\ asking[r] = "builds"
    /\ IF FastForward(Wants[r])
       THEN /\ asking' = [asking EXCEPT ![r] = "built"]
            /\ approval' = [approval EXCEPT ![r].old = origin]
       ELSE /\ asking' = [asking EXCEPT ![r] = "none"]
            /\ UNCHANGED approval
    /\ UNCHANGED <<taps, runs, polls, origin, acted>>

\* The same request, still pending, answers with its row.
Reuse(r) ==
    /\ asking[r] = "built"
    /\ LET same == {x \in Row : Is(x, "pending") /\ Wants[x] = Wants[r]
                                  /\ approval[x].old = approval[r].old}
       IN  asking' = [asking EXCEPT ![r] = IF same = {} THEN "creates" ELSE "none"]
    /\ UNCHANGED <<approval, taps, runs, polls, origin, acted>>

\* The row is made; what the repository or the office allows without a human
\* is decided by the request itself.
Create(r) ==
    /\ asking[r] = "creates"
    /\ asking' = [asking EXCEPT ![r] = "none"]
    /\ Set(r, "pending")
    /\ \/ UNCHANGED taps
       \/ taps' = [taps EXCEPT ![r]["request"] = [at |-> "writes", yes |-> TRUE]]
    /\ UNCHANGED <<runs, polls, origin, acted>>

---------------------------------------------------------------------------
(* The answer *)

\* decide: a row that is not pending is refused.
Tap(r, c, yes) ==
    /\ Is(r, "pending") /\ taps[r][c] = NoTap
    /\ taps' = [taps EXCEPT ![r][c] = [at |-> "writes", yes |-> yes]]
    /\ UNCHANGED <<approval, asking, runs, polls, origin, acted>>

\* Mutant of Decide: the write does not ask for pending once more.
DecideAgain(r, c) ==
    /\ taps[r][c].at = "writes"
    /\ Set(r, IF taps[r][c].yes THEN "approved" ELSE "rejected")
    /\ taps' = [taps EXCEPT ![r][c].at = "tells"]
    /\ UNCHANGED <<asking, runs, polls, origin, acted>>

\* APPROVAL_DECIDE_SQL
Decide(r, c) ==
    /\ taps[r][c].at = "writes"
    /\ IF Is(r, "pending")
       THEN /\ Set(r, IF taps[r][c].yes THEN "approved" ELSE "rejected")
            /\ taps' = [taps EXCEPT ![r][c].at = "tells"]
       ELSE /\ taps' = [taps EXCEPT ![r][c] = NoTap]
            /\ UNCHANGED approval
    /\ UNCHANGED <<asking, runs, polls, origin, acted>>

\* The decision is written to the audit log and told; then a yes is executed.
Decided(r, c) ==
    /\ taps[r][c].at = "tells"
    /\ taps' = [taps EXCEPT ![r][c] = NoTap]
    /\ Heard(r, IF taps[r][c].yes THEN "approved" ELSE "rejected")
    /\ IF taps[r][c].yes /\ runs[r] = "none" THEN Goes(r, "starts") ELSE UNCHANGED runs
    /\ UNCHANGED <<approval, asking, origin, acted>>

---------------------------------------------------------------------------
(* The execution *)

Start(r) ==
    /\ runs[r] = "starts"
    /\ IF Is(r, "approved") THEN Set(r, "running") /\ Goes(r, "looks")
       ELSE UNCHANGED approval /\ Goes(r, "none")
    /\ UNCHANGED <<asking, taps, polls, origin, acted>>

\* pushApproved: the remote is asked again; a repository whose pushes fail is
\* left alone, and the call may fail.
Look(r) ==
    /\ runs[r] = "looks"
    /\ \E to \in {"failed", IF origin = Wants[r] THEN "done"
                            ELSE IF origin = approval[r].old THEN "pushes" ELSE "failed"} :
          Goes(r, to)
    /\ UNCHANGED <<approval, asking, taps, polls, origin, acted>>

\* git push, without force; it may have gone through and still be cut.
Push(r) ==
    /\ runs[r] = "pushes"
    /\ \/ /\ FastForward(Wants[r])
          /\ origin' = Wants[r] /\ acted' = acted \cup {r}
          /\ \E to \in {"done", "failed"} : Goes(r, to)
       \/ Goes(r, IF origin = Wants[r] THEN "done" ELSE "failed") /\ UNCHANGED <<origin, acted>>
       \/ Goes(r, "failed") /\ UNCHANGED <<origin, acted>>
    /\ UNCHANGED <<approval, asking, taps, polls>>

Record(r) ==
    /\ runs[r] \in {"done", "failed"}
    /\ IF Is(r, "running") THEN Set(r, runs[r]) /\ Goes(r, "tells")
       ELSE UNCHANGED approval /\ Goes(r, "none")
    /\ UNCHANGED <<asking, taps, polls, origin, acted>>

Finish(r) ==
    /\ runs[r] = "tells"
    /\ Heard(r, approval[r].status)
    /\ Goes(r, "none")
    /\ UNCHANGED <<approval, asking, taps, origin, acted>>

---------------------------------------------------------------------------
(* The agent's poll *)

\* wait: the row is read, then it subscribes and reads once more.
Poll(r) ==
    /\ r \in Polled /\ polls[r] = "none" /\ approval[r].status \in Statuses \ (Final \cup {"none"})
    /\ polls' = [polls EXCEPT ![r] = "opens"]
    /\ UNCHANGED <<approval, asking, taps, runs, origin, acted>>

\* Mutant of Subscribe: the row is not read again.
SubscribeOnly(r) ==
    /\ polls[r] = "opens"
    /\ polls' = [polls EXCEPT ![r] = "waits"]
    /\ UNCHANGED <<approval, asking, taps, runs, origin, acted>>

Subscribe(r) ==
    /\ polls[r] = "opens"
    /\ polls' = [polls EXCEPT ![r] = "rereads"]
    /\ UNCHANGED <<approval, asking, taps, runs, origin, acted>>

Reread(r) ==
    /\ polls[r] = "rereads"
    /\ polls' = [polls EXCEPT ![r] = IF approval[r].status \in Final THEN "none" ELSE "waits"]
    /\ UNCHANGED <<approval, asking, taps, runs, origin, acted>>

\* Its time is up, a minute at most.
PollEnds(r) ==
    /\ polls[r] \in {"rereads", "waits"}
    /\ polls' = [polls EXCEPT ![r] = "none"]
    /\ UNCHANGED <<approval, asking, taps, runs, origin, acted>>

---------------------------------------------------------------------------

OthersPush ==
    /\ \E to \in Commit : FastForward(to) /\ origin' = to
    /\ UNCHANGED <<approval, asking, taps, runs, polls, acted>>

\* Mutant of Recovered: what was approved and had not begun is left alone.
RecoveredRunning == {"running"}

\* recoverOnBoot expires what may have half happened.
Recovered == {"approved", "running"}

Restart ==
    /\ approval' = [r \in Row |-> IF approval[r].status \in Recovered
                                  THEN [approval[r] EXCEPT !.status = "expired"] ELSE approval[r]]
    /\ asking' = [r \in Row |-> "none"]
    /\ taps' = [r \in Row |-> [c \in Caller |-> NoTap]]
    /\ runs' = [r \in Row |-> "none"]
    /\ polls' = [r \in Row |-> "none"]
    /\ UNCHANGED <<origin, acted>>

ServerStep(r) ==
    \/ Describe(r) \/ Reuse(r) \/ Create(r)
    \/ \E c \in Caller : Decide(r, c) \/ Decided(r, c)
    \/ Start(r) \/ Look(r) \/ Push(r) \/ Record(r) \/ Finish(r)

Next ==
    \/ OthersPush \/ Restart
    \/ \E r \in Row :
          \/ ServerStep(r)
          \/ Ask(r) \/ \E c \in Surface, yes \in BOOLEAN : Tap(r, c, yes)
          \/ Poll(r) \/ Subscribe(r) \/ Reread(r) \/ PollEnds(r)

Spec == Init /\ [][Next]_approvalVars

\* The server goes on with what it has begun.
Fairness == \A r \in Row : WF_approvalVars(ServerStep(r))

FairSpec == Spec /\ Fairness

---------------------------------------------------------------------------
(* Properties *)

\* Where the ref moves and nobody else pushed, it moves to the commit of a
\* request, forward, that has a yes and no other answer, and for no request
\* twice: whatever was tapped on which surface meanwhile, and however often
\* the server went down between the tap and the push.
PushedAsApproved ==
    [][origin' # origin => \A r \in Row : runs[r] = "pushes" /\ runs'[r] # "pushes" =>
          /\ Is(r, "running") /\ r \notin acted
          /\ origin' = Wants[r] /\ origin \in Below[origin']]_approvalVars

\* A poll that stands open on an answered request is about to be told: no
\* answer falls between its read and its subscription.
PollsHear ==
    \A r \in Row : polls[r] = "waits" /\ approval[r].status \in Final =>
        runs[r] = "tells" \/ \E c \in Caller : taps[r][c].at = "tells"

\* What a human approved comes to an outcome: done, failed, or expired by the
\* restart that cut it.
ApprovalEnds ==
    \A r \in Row : approval[r].status \in {"approved", "running"} ~> approval[r].status \in Final
=============================================================================
