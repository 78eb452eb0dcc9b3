--------------------------- MODULE Approvals_proofs ---------------------------
(***************************************************************************)
(* Theorems about Approvals, for any requests, commits and surfaces: the   *)
(* types, that the server pushes what was approved and once, and that no   *)
(* poll sleeps through its answer.                                         *)
(*                                                                         *)
(* Both rest on what a row's status says of the calls still in flight for  *)
(* it: who decides it is the only one left to tell of the decision, and    *)
(* only the execution of an approved row ever writes the row again.        *)
(***************************************************************************)
EXTENDS Approvals, TLAPS

\* A call that still makes a row finds none; one that has made it is over.
AskedOnce == \A r \in Row : asking[r] # "none" => Is(r, "none")

\* Only an approved row begins to run, and while it runs nobody else writes it.
RunOfApproved == \A r \in Row :
    /\ Is(r, "none") \/ Is(r, "pending") => runs[r] = "none"
    /\ runs[r] = "starts" => Is(r, "approved")
    /\ runs[r] \in {"looks", "pushes", "done", "failed"} => Is(r, "running")

\* Who has decided and not yet told is alone, and the row is as it decided.
OneTeller == \A r \in Row, c \in Caller : taps[r][c].at = "tells" =>
    /\ runs[r] = "none"
    /\ Is(r, IF taps[r][c].yes THEN "approved" ELSE "rejected")
    /\ \A d \in Caller : taps[r][d].at = "tells" => d = c

\* A row whose commit went out is past its push.
PushedOnce == \A r \in acted :
    approval[r].status \in Final \/ runs[r] \in {"done", "failed"}

Inv == TypeOK /\ AskedOnce /\ RunOfApproved /\ OneTeller /\ PushedOnce /\ PollsHear

\* What PushedAsApproved says of a step.
PushStep == origin' # origin => \A r \in Row : runs[r] = "pushes" /\ runs'[r] # "pushes" =>
    /\ Is(r, "running") /\ r \notin acted
    /\ origin' = Wants[r] /\ origin \in Below[origin']

ApprovalRow == [status : Statuses, old : Commit]
TapRow == [Caller -> [at : {"none", "writes", "tells"}, yes : BOOLEAN]]
RunRow == {"none", "starts", "looks", "pushes", "done", "failed", "tells"}

\* The invariant of one row: what it reads, the call that makes it, its
\* decisions, its execution, its poll, and whether its commit went out.
RowInv(aa, kk, tt, xx, pp, pushed) ==
    /\ aa \in ApprovalRow /\ kk \in {"none", "builds", "built", "creates"}
    /\ tt \in TapRow /\ xx \in RunRow /\ pp \in {"none", "opens", "rereads", "waits"}
    /\ kk # "none" => aa.status = "none"
    /\ aa.status \in {"none", "pending"} => xx = "none"
    /\ xx = "starts" => aa.status = "approved"
    /\ xx \in {"looks", "pushes", "done", "failed"} => aa.status = "running"
    /\ \A c \in Caller : tt[c].at = "tells" =>
        /\ xx = "none"
        /\ aa.status = IF tt[c].yes THEN "approved" ELSE "rejected"
        /\ \A d \in Caller : tt[d].at = "tells" => d = c
    /\ pushed => aa.status \in Final \/ xx \in {"done", "failed"}
    /\ pp = "waits" /\ aa.status \in Final => xx = "tells" \/ \E c \in Caller : tt[c].at = "tells"

Shape ==
    /\ approval \in [Row -> ApprovalRow] /\ asking \in [Row -> {"none", "builds", "built", "creates"}]
    /\ taps \in [Row -> TapRow] /\ runs \in [Row -> RunRow]
    /\ polls \in [Row -> {"none", "opens", "rereads", "waits"}]
    /\ origin \in Commit /\ acted \in SUBSET Row

RowOK(r) == RowInv(approval[r], asking[r], taps[r], runs[r], polls[r], r \in acted)

\* The invariant is one of every row by itself.
LEMMA InvByRow == Inv <=> Shape /\ \A r \in Row : RowOK(r)
BY DEF Inv, TypeOK, AskedOnce, RunOfApproved, OneTeller, PushedOnce, PollsHear, Shape, RowOK,
       RowInv, Is, ApprovalRow, TapRow, RunRow

\* The same of the state a step leads to.
LEMMA InvPrimed ==
    ASSUME Shape', \A r \in Row : RowOK(r)'
    PROVE  Inv'
<1>1. (Inv <=> Shape /\ \A r \in Row : RowOK(r))'
  BY InvByRow, PTL
<1> QED BY <1>1

\* A step that touches one row keeps the invariant if that row does.
LEMMA OneRow ==
    ASSUME Inv, NEW r \in Row, Shape', RowOK(r)',
           \A x \in Row \ {r} :
               /\ approval'[x] = approval[x] /\ asking'[x] = asking[x] /\ taps'[x] = taps[x]
               /\ runs'[x] = runs[x] /\ polls'[x] = polls[x] /\ (x \in acted' <=> x \in acted)
    PROVE  Inv'
<1>1. ASSUME NEW x \in Row \ {r}
      PROVE  RowOK(x)'
  <2>1. RowOK(x)
    BY InvByRow
  <2> QED BY <2>1 DEF RowOK
<1> QED BY <1>1, InvPrimed

---------------------------------------------------------------------------
(* The steps *)

TapState == [at : {"none", "writes", "tells"}, yes : BOOLEAN]

\* Writing one tap leaves the others.
LEMMA OneTap ==
    ASSUME taps \in [Row -> TapRow], NEW r \in Row, NEW c \in Caller, NEW v \in TapState,
           taps' = [taps EXCEPT ![r][c] = v]
    PROVE  /\ taps' \in [Row -> TapRow] /\ \A x \in Row \ {r} : taps'[x] = taps[x]
           /\ taps'[r][c] = v /\ \A d \in Caller \ {c} : taps'[r][d] = taps[r][d]
<1>1. taps[r] \in [Caller -> TapState]
  BY DEF TapRow, TapState
<1>2. taps'[r] = [taps[r] EXCEPT ![c] = v]
  OBVIOUS
<1>3. taps'[r] \in [Caller -> TapState] /\ taps'[r][c] = v
  BY <1>1, <1>2
<1>4. taps'[r] \in TapRow
  BY <1>3 DEF TapRow, TapState
<1> QED BY <1>1, <1>2, <1>3, <1>4

\* The request: asking, describing, making the row.
LEMMA AskInv ==
    ASSUME Inv, NEW r \in Row, Ask(r) \/ Describe(r) \/ Reuse(r) \/ Create(r)
    PROVE  Inv'
<1> DEFINE Kept == \A x \in Row \ {r} :
               /\ approval'[x] = approval[x] /\ asking'[x] = asking[x] /\ taps'[x] = taps[x]
               /\ runs'[x] = runs[x] /\ polls'[x] = polls[x] /\ (x \in acted' <=> x \in acted)
<1>0. Shape /\ RowOK(r)
  BY InvByRow
<1>1. ASSUME Ask(r) \/ Reuse(r)
      PROVE  Shape' /\ RowOK(r)' /\ Kept
  <2>1. /\ asking' \in [Row -> {"none", "builds", "built", "creates"}]
        /\ approval[r].status = "none"
        /\ \A x \in Row \ {r} : asking'[x] = asking[x]
    BY <1>0, <1>1 DEF Ask, Reuse, Is, Shape, RowOK, RowInv
  <2>2. UNCHANGED <<approval, taps, runs, polls, origin, acted>>
    BY <1>1 DEF Ask, Reuse
  <2> QED BY <1>0, <2>1, <2>2 DEF Shape, RowOK, RowInv
<1>2. ASSUME Describe(r)
      PROVE  Shape' /\ RowOK(r)' /\ Kept
  <2>1. /\ asking' \in [Row -> {"none", "builds", "built", "creates"}]
        /\ approval' \in [Row -> ApprovalRow]
        /\ approval[r].status = "none" /\ approval'[r].status = "none"
        /\ \A x \in Row \ {r} : asking'[x] = asking[x] /\ approval'[x] = approval[x]
    BY <1>0, <1>2 DEF Describe, Shape, RowOK, RowInv, ApprovalRow
  <2>2. UNCHANGED <<taps, runs, polls, origin, acted>>
    BY <1>2 DEF Describe
  <2> QED BY <1>0, <2>1, <2>2 DEF Shape, RowOK, RowInv
<1>3. ASSUME Create(r)
      PROVE  Shape' /\ RowOK(r)' /\ Kept
  <2>1. /\ asking' \in [Row -> {"none", "builds", "built", "creates"}]
        /\ approval' \in [Row -> ApprovalRow]
        /\ approval[r].status = "none" /\ approval'[r].status = "pending" /\ asking'[r] = "none"
        /\ \A x \in Row \ {r} : asking'[x] = asking[x] /\ approval'[x] = approval[x]
    BY <1>0, <1>3 DEF Create, Set, Shape, RowOK, RowInv, ApprovalRow, Statuses
  <2>2. UNCHANGED <<runs, polls, origin, acted>>
    BY <1>3 DEF Create
  <2>3. /\ taps' \in [Row -> TapRow] /\ \A x \in Row \ {r} : taps'[x] = taps[x]
        /\ \A c \in Caller : taps'[r][c].at = "tells" => taps[r][c].at = "tells"
    <3>1. [at |-> "writes", yes |-> TRUE] \in TapState /\ "request" \in Caller
      BY DEF TapState, Caller
    <3>2. taps \in [Row -> TapRow]
      BY <1>0 DEF Shape
    <3>3. CASE UNCHANGED taps
      BY <3>2, <3>3
    <3>4. CASE taps' = [taps EXCEPT ![r]["request"] = [at |-> "writes", yes |-> TRUE]]
      <4>1. /\ taps' \in [Row -> TapRow] /\ \A x \in Row \ {r} : taps'[x] = taps[x]
            /\ taps'[r]["request"] = [at |-> "writes", yes |-> TRUE]
            /\ \A d \in Caller \ {"request"} : taps'[r][d] = taps[r][d]
        BY <3>1, <3>2, <3>4, OneTap
      <4>2. taps'[r]["request"].at = "writes"
        BY <4>1
      <4> QED BY <4>1, <4>2
    <3> QED BY <1>3, <3>3, <3>4 DEF Create
  <2>4. \A c \in Caller : taps[r][c].at # "tells"
    BY <1>0, <2>1 DEF RowOK, RowInv
  <2>5. r \notin acted /\ runs[r] = "none"
    BY <1>0, <2>1 DEF RowOK, RowInv, Final
  <2>6. "pending" \notin Final
    BY DEF Final
  <2> QED BY <1>0, <2>1, <2>2, <2>3, <2>4, <2>5, <2>6 DEF Shape, RowOK, RowInv
<1> QED BY <1>1, <1>2, <1>3, OneRow

\* The answer: a tap, its write, and what follows it.
LEMMA TapInv ==
    ASSUME Inv, NEW r \in Row,
           \/ \E c \in Surface, yes \in BOOLEAN : Tap(r, c, yes)
           \/ \E c \in Caller : Decide(r, c) \/ Decided(r, c)
    PROVE  Inv'
<1> DEFINE Kept == \A x \in Row \ {r} :
               /\ approval'[x] = approval[x] /\ asking'[x] = asking[x] /\ taps'[x] = taps[x]
               /\ runs'[x] = runs[x] /\ polls'[x] = polls[x] /\ (x \in acted' <=> x \in acted)
<1>0. Shape /\ RowOK(r)
  BY InvByRow
<1>00. \A c \in Caller : taps[r][c] \in TapState
  BY <1>0 DEF Shape, TapRow, TapState
<1>n. NoTap \in TapState /\ NoTap.at = "none"
  BY DEF NoTap, TapState
<1>1. ASSUME NEW c \in Surface, NEW yes \in BOOLEAN, Tap(r, c, yes)
      PROVE  Shape' /\ RowOK(r)' /\ Kept
  <2>1. c \in Caller /\ [at |-> "writes", yes |-> yes] \in TapState
    BY DEF Caller, TapState
  <2>2. /\ taps' \in [Row -> TapRow] /\ \A x \in Row \ {r} : taps'[x] = taps[x]
        /\ taps'[r][c] = [at |-> "writes", yes |-> yes]
        /\ \A d \in Caller \ {c} : taps'[r][d] = taps[r][d]
    BY <1>0, <1>1, <2>1, OneTap DEF Tap, Shape
  <2>3. UNCHANGED <<approval, asking, runs, polls, origin, acted>> /\ approval[r].status = "pending"
    BY <1>1 DEF Tap, Is
  <2>4. "pending" \notin Final
    BY DEF Final
  <2>5. \A d \in Caller : taps'[r][d].at = "tells" => taps'[r][d] = taps[r][d]
    <3>1. taps'[r][c].at = "writes"
      BY <2>2
    <3> QED BY <2>2, <3>1
  <2> QED BY <1>0, <2>2, <2>3, <2>4, <2>5 DEF Shape, RowOK, RowInv
<1>2. ASSUME NEW c \in Caller, Decide(r, c)
      PROVE  Shape' /\ RowOK(r)' /\ Kept
  <2>1. UNCHANGED <<asking, runs, polls, origin, acted>> /\ taps[r][c].at = "writes"
    BY <1>2 DEF Decide
  <2>2. CASE approval[r].status = "pending"
    <3> DEFINE v == [taps[r][c] EXCEPT !.at = "tells"]
               new == IF taps[r][c].yes THEN "approved" ELSE "rejected"
    <3>1. v \in TapState /\ v.at = "tells" /\ v.yes = taps[r][c].yes
      BY <1>00 DEF TapState
    <3>2. taps' = [taps EXCEPT ![r][c] = v] /\ approval' = [approval EXCEPT ![r].status = new]
      BY <1>2, <2>2 DEF Decide, Is, Set
    <3> HIDE DEF v
    <3>3. /\ taps' \in [Row -> TapRow] /\ \A x \in Row \ {r} : taps'[x] = taps[x]
          /\ taps'[r][c] = v /\ \A d \in Caller \ {c} : taps'[r][d] = taps[r][d]
      BY <1>0, <3>1, <3>2, OneTap DEF Shape
    <3>4. new \in Statuses
      BY DEF Statuses
    <3>5. /\ approval' \in [Row -> ApprovalRow] /\ \A x \in Row \ {r} : approval'[x] = approval[x]
          /\ approval'[r].status = new
      BY <1>0, <3>2, <3>4 DEF Shape, ApprovalRow
    <3>6. /\ runs[r] = "none" /\ \A d \in Caller : taps[r][d].at # "tells"
          /\ r \notin acted /\ asking[r] = "none"
      BY <1>0, <2>2 DEF RowOK, RowInv, Final
    <3>7. \A d \in Caller : taps'[r][d].at = "tells" <=> d = c
      BY <3>1, <3>3, <3>6
    <3>8. new \notin {"none", "pending"}
      OBVIOUS
    <3>9. /\ runs'[r] = "none" /\ asking'[r] = "none" /\ r \notin acted'
          /\ taps'[r][c].yes = taps[r][c].yes
      BY <2>1, <3>1, <3>3, <3>6
    <3>10. RowOK(r)'
      BY <1>0, <2>1, <3>3, <3>5, <3>7, <3>8, <3>9 DEF Shape, RowOK, RowInv
    <3> QED BY <1>0, <2>1, <3>3, <3>5, <3>10 DEF Shape
  <2>3. CASE approval[r].status # "pending"
    <3>1. taps' = [taps EXCEPT ![r][c] = NoTap] /\ UNCHANGED approval
      BY <1>2, <2>3 DEF Decide, Is
    <3>2. /\ taps' \in [Row -> TapRow] /\ \A x \in Row \ {r} : taps'[x] = taps[x]
          /\ taps'[r][c] = NoTap /\ \A d \in Caller \ {c} : taps'[r][d] = taps[r][d]
      BY <1>0, <1>n, <3>1, OneTap DEF Shape
    <3>3. \A d \in Caller : /\ taps'[r][d].at = "tells" => taps'[r][d] = taps[r][d]
                            /\ taps[r][d].at = "tells" => taps'[r][d] = taps[r][d]
      BY <1>n, <2>1, <3>2
    <3> QED BY <1>0, <2>1, <3>1, <3>2, <3>3 DEF Shape, RowOK, RowInv
  <2> QED BY <2>2, <2>3
<1>3. ASSUME NEW c \in Caller, Decided(r, c)
      PROVE  Shape' /\ RowOK(r)' /\ Kept
  <2>1. /\ UNCHANGED <<approval, asking, origin, acted>> /\ taps[r][c].at = "tells"
        /\ runs[r] = "none"
        /\ approval[r].status = IF taps[r][c].yes THEN "approved" ELSE "rejected"
    BY <1>0, <1>3 DEF Decided, RowOK, RowInv
  <2>2. /\ taps' \in [Row -> TapRow] /\ \A x \in Row \ {r} : taps'[x] = taps[x]
        /\ taps'[r][c] = NoTap /\ \A d \in Caller \ {c} : taps'[r][d] = taps[r][d]
    BY <1>0, <1>3, <1>n, OneTap DEF Decided, Shape
  <2>3. \A d \in Caller : taps'[r][d].at # "tells"
    BY <1>0, <1>n, <2>1, <2>2 DEF RowOK, RowInv
  <2>4. CASE taps[r][c].yes
    <3>1. runs' = [runs EXCEPT ![r] = "starts"] /\ UNCHANGED polls
      BY <1>3, <2>1, <2>4 DEF Decided, Heard, Goes, Final
    <3>2. /\ runs' \in [Row -> RunRow] /\ \A x \in Row \ {r} : runs'[x] = runs[x]
          /\ runs'[r] = "starts"
      BY <1>0, <3>1 DEF Shape, RunRow
    <3>3. approval[r].status = "approved" /\ "approved" \notin Final
      BY <2>1, <2>4 DEF Final
    <3> QED BY <1>0, <2>1, <2>2, <2>3, <3>1, <3>2, <3>3 DEF Shape, RowOK, RowInv
  <2>5. CASE ~taps[r][c].yes
    <3>1. /\ polls' = [polls EXCEPT ![r] = IF @ = "waits" THEN "none" ELSE @]
          /\ UNCHANGED runs
      BY <1>3, <2>5 DEF Decided, Heard, Final
    <3>2. /\ polls' \in [Row -> {"none", "opens", "rereads", "waits"}]
          /\ \A x \in Row \ {r} : polls'[x] = polls[x]
          /\ polls'[r] # "waits"
      BY <1>0, <3>1 DEF Shape
    <3> QED BY <1>0, <2>1, <2>2, <2>3, <3>1, <3>2 DEF Shape, RowOK, RowInv
  <2> QED BY <2>4, <2>5
<1> QED BY <1>1, <1>2, <1>3, OneRow

\* The execution.
LEMMA RunInv ==
    ASSUME CommitAssumption, Inv, NEW r \in Row,
           Start(r) \/ Look(r) \/ Push(r) \/ Record(r) \/ Finish(r)
    PROVE  Inv'
<1> DEFINE Kept == \A x \in Row \ {r} :
               /\ approval'[x] = approval[x] /\ asking'[x] = asking[x] /\ taps'[x] = taps[x]
               /\ runs'[x] = runs[x] /\ polls'[x] = polls[x] /\ (x \in acted' <=> x \in acted)
           Ran == runs' \in [Row -> RunRow] /\ \A x \in Row \ {r} : runs'[x] = runs[x]
<1>0. Shape /\ RowOK(r)
  BY InvByRow
<1>00. \A at \in RunRow : Goes(r, at) => Ran /\ runs'[r] = at
  BY <1>0 DEF Goes, Shape
<1>1. ASSUME Start(r)
      PROVE  Shape' /\ RowOK(r)' /\ Kept
  <2>1. /\ UNCHANGED <<asking, taps, polls, origin, acted>> /\ approval[r].status = "approved"
        /\ Goes(r, "looks") /\ approval' = [approval EXCEPT ![r].status = "running"]
    BY <1>0, <1>1 DEF Start, Is, Set, RowOK, RowInv
  <2>2. Ran /\ runs'[r] = "looks"
    BY <1>00, <2>1 DEF RunRow
  <2>3. /\ approval' \in [Row -> ApprovalRow] /\ \A x \in Row \ {r} : approval'[x] = approval[x]
        /\ approval'[r].status = "running"
    BY <1>0, <2>1 DEF Shape, ApprovalRow, Statuses
  <2>4. /\ runs[r] = "starts" /\ r \notin acted /\ asking[r] = "none"
        /\ \A c \in Caller : taps[r][c].at # "tells"
    BY <1>0, <1>1, <2>1 DEF Start, RowOK, RowInv, Final
  <2> QED BY <1>0, <2>1, <2>2, <2>3, <2>4 DEF Shape, RowOK, RowInv, Final
<1>2. ASSUME Look(r)
      PROVE  Shape' /\ RowOK(r)' /\ Kept
  <2>1. PICK to \in {"failed", "done", "pushes"} : Goes(r, to)
    BY <1>2 DEF Look
  <2>2. UNCHANGED <<approval, asking, taps, polls, origin, acted>> /\ runs[r] = "looks"
    BY <1>2 DEF Look
  <2>3. Ran /\ runs'[r] = to
    BY <1>00, <2>1 DEF RunRow
  <2> QED BY <1>0, <2>2, <2>3 DEF Shape, RowOK, RowInv, Final
<1>3. ASSUME Push(r)
      PROVE  Shape' /\ RowOK(r)' /\ Kept
  <2>1. PICK to \in {"failed", "done"} : Goes(r, to)
    BY <1>3 DEF Push
  <2>2. UNCHANGED <<approval, asking, taps, polls>> /\ runs[r] = "pushes"
    BY <1>3 DEF Push
  <2>3. Ran /\ runs'[r] = to
    BY <1>00, <2>1 DEF RunRow
  <2>4. /\ origin' \in Commit /\ acted' \in SUBSET Row
        /\ \A x \in Row \ {r} : x \in acted' <=> x \in acted
    BY <1>0, <1>3 DEF Push, Shape, CommitAssumption
  <2> QED BY <1>0, <2>2, <2>3, <2>4 DEF Shape, RowOK, RowInv, Final
<1>4. ASSUME Record(r)
      PROVE  Shape' /\ RowOK(r)' /\ Kept
  <2>1. /\ UNCHANGED <<asking, taps, polls, origin, acted>> /\ runs[r] \in {"done", "failed"}
        /\ Goes(r, "tells") /\ approval' = [approval EXCEPT ![r].status = runs[r]]
    BY <1>0, <1>4 DEF Record, Is, Set, RowOK, RowInv
  <2>2. Ran /\ runs'[r] = "tells"
    BY <1>00, <2>1 DEF RunRow
  <2>3. /\ approval' \in [Row -> ApprovalRow] /\ \A x \in Row \ {r} : approval'[x] = approval[x]
        /\ approval'[r].status \in {"done", "failed"}
    BY <1>0, <2>1 DEF Shape, ApprovalRow, Statuses
  <2> QED BY <1>0, <2>1, <2>2, <2>3 DEF Shape, RowOK, RowInv, Final
<1>5. ASSUME Finish(r)
      PROVE  Shape' /\ RowOK(r)' /\ Kept
  <2>1. /\ UNCHANGED <<approval, asking, taps, origin, acted>> /\ runs[r] = "tells"
        /\ Goes(r, "none")
    BY <1>5 DEF Finish
  <2>2. Ran /\ runs'[r] = "none"
    BY <1>00, <2>1 DEF RunRow
  <2>3. /\ polls' \in [Row -> {"none", "opens", "rereads", "waits"}]
        /\ \A x \in Row \ {r} : polls'[x] = polls[x]
        /\ polls'[r] = "waits" => approval[r].status \notin Final
    BY <1>0, <1>5 DEF Finish, Heard, Shape
  <2>4. polls'[r] \in {"none", "opens", "rereads", "waits"}
    BY <2>3
  <2>5. r \in acted => approval[r].status \in Final
    BY <1>0, <2>1 DEF RowOK, RowInv
  <2> QED BY <1>0, <2>1, <2>2, <2>3, <2>4, <2>5 DEF Shape, RowOK, RowInv
<1> QED BY <1>1, <1>2, <1>3, <1>4, <1>5, OneRow

\* The agent's poll.
LEMMA PollInv ==
    ASSUME Inv, NEW r \in Row, Poll(r) \/ Subscribe(r) \/ Reread(r) \/ PollEnds(r)
    PROVE  Inv'
<1>0. Shape /\ RowOK(r)
  BY InvByRow
<1>1. /\ UNCHANGED <<approval, asking, taps, runs, origin, acted>>
      /\ polls' \in [Row -> {"none", "opens", "rereads", "waits"}]
      /\ \A x \in Row \ {r} : polls'[x] = polls[x]
      /\ polls'[r] = "waits" => approval[r].status \notin Final
  BY <1>0 DEF Poll, Subscribe, Reread, PollEnds, Shape
<1>2. Shape' /\ RowOK(r)'
  BY <1>0, <1>1 DEF Shape, RowOK, RowInv
<1> QED BY <1>1, <1>2, OneRow

\* The ref moves without the server, and the server goes down and comes back.
LEMMA OutsideInv ==
    ASSUME CommitAssumption, Inv, OthersPush \/ Restart
    PROVE  Inv'
<1>0. Shape /\ \A r \in Row : RowOK(r)
  BY InvByRow
<1>1. CASE OthersPush
  BY <1>0, <1>1, InvPrimed DEF OthersPush, Shape, RowOK
<1>2. CASE Restart
  <2>1. /\ asking' = [r \in Row |-> "none"] /\ runs' = [r \in Row |-> "none"]
        /\ polls' = [r \in Row |-> "none"] /\ UNCHANGED <<origin, acted>>
        /\ taps' = [r \in Row |-> [c \in Caller |-> NoTap]]
    BY <1>2 DEF Restart
  <2>2. /\ approval' \in [Row -> ApprovalRow]
        /\ \A r \in Row : \/ approval'[r].status = approval[r].status
                             /\ approval[r].status \notin {"approved", "running"}
                          \/ approval'[r].status = "expired"
    BY <1>0, <1>2 DEF Restart, Recovered, Shape, ApprovalRow, Statuses
  <2>3. NoTap \in TapState /\ NoTap.at = "none"
    BY DEF NoTap, TapState
  <2>4. taps' \in [Row -> TapRow] /\ \A r \in Row, c \in Caller : taps'[r][c].at = "none"
    BY <2>1, <2>3 DEF TapRow, TapState
  <2>5. Shape'
    BY <1>0, <2>1, <2>2, <2>4 DEF Shape, RunRow
  <2>6. ASSUME NEW r \in Row
        PROVE  RowOK(r)'
    BY <1>0, <2>1, <2>2, <2>4 DEF RowOK, RowInv, Shape, Final, RunRow
  <2> QED BY <2>5, <2>6, InvPrimed
<1> QED BY <1>1, <1>2

---------------------------------------------------------------------------
(* The theorems *)

\* As it begins.
LEMMA InitInv ==
    ASSUME CommitAssumption, Init
    PROVE  Inv
<1>1. NoTap \in TapState /\ NoTap.at = "none"
  BY DEF NoTap, TapState
<1>2. taps \in [Row -> TapRow] /\ \A r \in Row, c \in Caller : taps[r][c].at = "none"
  BY <1>1 DEF Init, TapRow, TapState
<1>3. Shape
  BY <1>2 DEF Init, Shape, ApprovalRow, Statuses, RunRow, CommitAssumption
<1>4. ASSUME NEW r \in Row
      PROVE  RowOK(r)
  BY <1>2, <1>3 DEF Init, Shape, RowOK, RowInv
<1> QED BY <1>3, <1>4, InvByRow

\* Every step keeps the invariant.
LEMMA NextInv ==
    ASSUME CommitAssumption, Inv, [Next]_approvalVars
    PROVE  Inv'
<1>1. CASE UNCHANGED approvalVars
  BY <1>1 DEF approvalVars, Inv, TypeOK, AskedOnce, RunOfApproved, OneTeller, PushedOnce,
              PollsHear, Is
<1>2. CASE OthersPush \/ Restart
  BY <1>2, OutsideInv
<1>3. ASSUME NEW r \in Row, ServerStep(r)
      PROVE  Inv'
  BY <1>3, AskInv, TapInv, RunInv DEF ServerStep
<1>4. ASSUME NEW r \in Row,
             \/ Ask(r) \/ \E c \in Surface, yes \in BOOLEAN : Tap(r, c, yes)
             \/ Poll(r) \/ Subscribe(r) \/ Reread(r) \/ PollEnds(r)
      PROVE  Inv'
  BY <1>4, AskInv, TapInv, PollInv
<1> QED BY <1>1, <1>2, <1>3, <1>4 DEF Next

\* Only a push that goes through takes an execution out of its push and moves
\* the ref.
LEMMA PushesApproved ==
    ASSUME CommitAssumption, Inv, [Next]_approvalVars
    PROVE  PushStep
<1> SUFFICES ASSUME origin' # origin, NEW r \in Row, runs[r] = "pushes", runs'[r] # "pushes"
             PROVE  /\ Is(r, "running") /\ r \notin acted
                    /\ origin' = Wants[r] /\ origin \in Below[origin']
  BY DEF PushStep
<1>1. Is(r, "running") /\ r \notin acted
  BY DEF Inv, RunOfApproved, PushedOnce, Is, Final
<1>2. PICK x \in Row : Push(x)
  BY DEF Next, ServerStep, approvalVars, OthersPush, Restart, Ask, Describe, Reuse, Create, Tap,
         Decide, Decided, Start, Look, Record, Finish, Poll, Subscribe, Reread, PollEnds
<1>3. x = r
  BY <1>2 DEF Push, Goes, Inv, TypeOK
<1> QED BY <1>1, <1>2, <1>3 DEF Push, FastForward

\* Every variable keeps its type.
THEOREM Typed ==
    ASSUME CommitAssumption
    PROVE  Spec => []TypeOK
<1>1. Init => Inv
  BY InitInv
<1>2. Inv /\ [Next]_approvalVars => Inv'
  BY NextInv
<1>3. Inv => TypeOK
  BY DEF Inv
<1> QED BY <1>1, <1>2, <1>3, PTL DEF Spec

\* The ref moves by the server only to the commit of a request that has a yes,
\* forward, and for no request twice, whatever was tapped on which surface
\* meanwhile and however often the server went down.
THEOREM PushesOnce ==
    ASSUME CommitAssumption
    PROVE  Spec => PushedAsApproved
<1>1. Init => Inv
  BY InitInv
<1>2. Inv /\ [Next]_approvalVars => Inv'
  BY NextInv
<1>3. Inv /\ [Next]_approvalVars => [PushStep]_approvalVars
  BY PushesApproved
<1>4. PushStep <=> (origin' # origin => \A r \in Row : runs[r] = "pushes" /\ runs'[r] # "pushes" =>
                       /\ Is(r, "running") /\ r \notin acted
                       /\ origin' = Wants[r] /\ origin \in Below[origin'])
  BY DEF PushStep
<1> QED BY <1>1, <1>2, <1>3, <1>4, PTL DEF Spec, PushedAsApproved

\* No agent's poll stands open on an answered request that nobody is about to
\* tell of.
THEOREM Hears ==
    ASSUME CommitAssumption
    PROVE  Spec => []PollsHear
<1>1. Init => Inv
  BY InitInv
<1>2. Inv /\ [Next]_approvalVars => Inv'
  BY NextInv
<1>3. Inv => PollsHear
  BY DEF Inv
<1> QED BY <1>1, <1>2, <1>3, PTL DEF Spec
=============================================================================
