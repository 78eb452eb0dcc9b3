----------------------------- MODULE Jobs_proofs -----------------------------
(***************************************************************************)
(* Theorems about Jobs, for any jobs, cadences and limits: the types, that *)
(* a job reads running exactly while a run of it is alive, and that on its *)
(* own a job runs once for a slot.                                         *)
(*                                                                         *)
(* The last one is kept from slot to slot by Spaced: while nobody planned  *)
(* or ran the job since its last counted run, its next slot lies a full    *)
(* cadence behind the slot of that run, and behind the end of it.          *)
(***************************************************************************)
EXTENDS Jobs, TLAPS

\* A run knows what it was started as, and is of a job that was created.
RunStarted == \A j \in Job :
    /\ run[j] # NoRun => run[j].after # "none"
    /\ Is(j, "unborn") => run[j] = NoRun /\ served[j] = Unserved

Spaced == \A j \in Job :
    served[j] # Unserved /\ job[j].status \in {"scheduled", "paused", "running"} =>
        /\ Every[j] # 0 /\ job[j].next # Never
        /\ job[j].next - served[j].slot >= Every[j] /\ job[j].next > served[j].at
        /\ Is(j, "running") => job[j].next <= 0

Inv == TypeOK /\ RunStarted /\ RunningIsLive /\ Spaced

\* What OncePerSlot says of a step.
OnceStep == \A j \in Job :
    Is(j, "scheduled") /\ Is(j, "running")' /\ served'[j] # Unserved =>
       /\ Every[j] # 0
       /\ served[j].at < 0 /\ job[j].next - served[j].slot >= Every[j]

JobRow == [status : {"unborn", "scheduled", "running", "paused", "done", "cancelled", "gone"},
           next : -Late .. Never, count : 0 .. MaxRuns]
RunRow == [after : {"none", "advance", "keep", "paused"}, slot : -Late .. 0,
           count : 0 .. MaxRuns, suspended : BOOLEAN]
ServedRow == [slot : -Memory .. 0, at : -Memory .. 0] \cup {Unserved}

\* The invariant of one job.
JobInv(jj, rr, ss, every) ==
    /\ jj \in JobRow /\ rr \in RunRow /\ ss \in ServedRow
    /\ rr # NoRun => rr.after # "none"
    /\ jj.status = "unborn" => rr = NoRun /\ ss = Unserved
    /\ jj.status = "running" <=> rr # NoRun /\ jj.status # "unborn" /\ jj.status # "gone"
    /\ ss # Unserved /\ jj.status \in {"scheduled", "paused", "running"} =>
        /\ every # 0 /\ jj.next # Never
        /\ jj.next - ss.slot >= every /\ jj.next > ss.at
        /\ jj.status = "running" => jj.next <= 0

\* The invariant is one of every job by itself.
LEMMA InvByJob ==
    Inv <=> /\ job \in [Job -> JobRow] /\ run \in [Job -> RunRow] /\ served \in [Job -> ServedRow]
            /\ retried \in SUBSET Job /\ paused \in BOOLEAN
            /\ \A j \in Job : JobInv(job[j], run[j], served[j], Every[j])
BY DEF Inv, TypeOK, RunStarted, RunningIsLive, Spaced, JobInv, Is, Exists, JobRow, RunRow, ServedRow

\* The same of the state a step leads to, as far as the steps need it.
LEMMA InvPrimed ==
    ASSUME job' \in [Job -> JobRow], run' \in [Job -> RunRow], served' \in [Job -> ServedRow],
           retried' \in SUBSET Job, paused' \in BOOLEAN,
           \A i \in Job : JobInv(job'[i], run'[i], served'[i], Every[i])
    PROVE  Inv'
BY DEF Inv, TypeOK, RunStarted, RunningIsLive, Spaced, JobInv, Is, Exists, JobRow, RunRow,
       ServedRow

\* A step that touches one job keeps the invariant if that job does.
LEMMA OneJob ==
    ASSUME Inv, NEW j \in Job,
           job' \in [Job -> JobRow], run' \in [Job -> RunRow], served' \in [Job -> ServedRow],
           retried' \in SUBSET Job, paused' \in BOOLEAN,
           \A i \in Job \ {j} : /\ job'[i] = job[i] /\ run'[i] = run[i]
                                /\ served'[i] = served[i],
           JobInv(job'[j], run'[j], served'[j], Every[j]),
           ~(Is(j, "scheduled") /\ Is(j, "running")' /\ served'[j] # Unserved)
    PROVE  Inv' /\ OnceStep
<1>1. \A i \in Job : JobInv(job'[i], run'[i], served'[i], Every[i])
  BY InvByJob
<1>2. OnceStep
  BY DEF OnceStep, Is
<1> QED BY <1>1, <1>2, InvPrimed

---------------------------------------------------------------------------
(* The steps *)

\* What the constants and the bounds made of them are.
LEMMA Constants ==
    ASSUME JobAssumption
    PROVE  /\ Ahead \in Nat /\ Ahead > 0 /\ Late \in Nat /\ MaxRuns \in Nat
           /\ Never = Ahead + 1 /\ Memory = Late + Ahead
           /\ \A j \in Job : Every[j] \in 0 .. Ahead
BY DEF JobAssumption, Never, Memory

\* Planning.
LEMMA PlanInv ==
    ASSUME JobAssumption, Inv, NEW j \in Job,
           \/ \E at \in Plan : Create(j, at) \/ Update(j, at)
           \/ PauseJob(j) \/ ResumeJob(j) \/ Cancel(j) \/ Remove(j)
    PROVE  Inv' /\ OnceStep
<1> USE Constants DEF Is
<1> DEFINE Kept == \A i \in Job \ {j} : /\ job'[i] = job[i] /\ run'[i] = run[i]
                                       /\ served'[i] = served[i]
           Typed == /\ job' \in [Job -> JobRow] /\ run' \in [Job -> RunRow]
                    /\ served' \in [Job -> ServedRow]
                    /\ retried' \in SUBSET Job /\ paused' \in BOOLEAN
           Here == JobInv(job'[j], run'[j], served'[j], Every[j])
<1>0. /\ job \in [Job -> JobRow] /\ run \in [Job -> RunRow] /\ served \in [Job -> ServedRow]
      /\ retried \in SUBSET Job /\ paused \in BOOLEAN
      /\ JobInv(job[j], run[j], served[j], Every[j])
  BY InvByJob
<1>1. ASSUME NEW at \in Plan, Create(j, at)
      PROVE  Typed /\ Kept /\ Here /\ job[j].status # "scheduled"
  <2>1. at \in -Late .. Never /\ 0 \in 0 .. MaxRuns
    BY DEF Plan
  <2>2. job' = [job EXCEPT ![j] = [status |-> "scheduled", next |-> at, count |-> 0]]
    BY <1>1 DEF Create
  <2>3. UNCHANGED <<run, served, retried, paused>> /\ job[j].status = "unborn"
    BY <1>1 DEF Create
  <2>4. [status |-> "scheduled", next |-> at, count |-> 0] \in JobRow
    BY <2>1 DEF JobRow
  <2>5. Typed /\ Kept
    BY <1>0, <2>2, <2>3, <2>4
  <2>6. Here
    BY <1>0, <2>2, <2>3, <2>4 DEF JobInv
  <2> QED BY <2>3, <2>5, <2>6
<1>2. ASSUME NEW at \in Plan, Update(j, at)
      PROVE  Typed /\ Kept /\ Here /\ served'[j] = Unserved
  <2>1. at \in -Late .. Never
    BY DEF Plan
  <2>2. /\ job'[j] \in JobRow /\ job' \in [Job -> JobRow]
        /\ job'[j].status = IF job[j].status = "done" THEN "scheduled" ELSE job[j].status
    BY <1>0, <1>2, <2>1 DEF Update, JobRow
  <2>3. served'[j] = Unserved /\ served' \in [Job -> ServedRow]
    BY <1>0, <1>2 DEF Update, ServedRow
  <2>4. Kept /\ UNCHANGED <<run, retried, paused>> /\ job[j].status \notin {"unborn", "gone"}
    BY <1>0, <1>2 DEF Update, Exists
  <2>5. Here
    BY <1>0, <2>2, <2>3, <2>4 DEF JobInv
  <2> QED BY <1>0, <2>2, <2>3, <2>4, <2>5
<1>3. ASSUME PauseJob(j)
      PROVE  Typed /\ Kept /\ Here /\ job'[j].status # "running"
  BY <1>0, <1>3 DEF PauseJob, JobInv, JobRow, RunRow, ServedRow
<1>4. ASSUME ResumeJob(j)
      PROVE  Typed /\ Kept /\ Here /\ job'[j].status # "running"
  <2>1. /\ job'[j] \in JobRow /\ job' \in [Job -> JobRow]
        /\ job'[j].status = "scheduled"
        /\ job'[j].next = IF job[j].next \in 1 .. Ahead THEN job[j].next ELSE 0
    <3> DEFINE next == IF job[j].next \in 1 .. Ahead THEN job[j].next ELSE 0
    <3>1. next \in -Late .. Never
      OBVIOUS
    <3>2. job' = [job EXCEPT ![j].status = "scheduled", ![j].next = next]
      BY <1>4 DEF ResumeJob
    <3> HIDE DEF next
    <3>3. /\ job'[j] \in JobRow /\ job' \in [Job -> JobRow]
          /\ job'[j].status = "scheduled" /\ job'[j].next = next
      BY <1>0, <3>1, <3>2 DEF JobRow
    <3> QED BY <3>3 DEF next
  <2>2. /\ Kept /\ UNCHANGED <<run, served, retried, paused>> /\ job[j].status = "paused"
    BY <1>0, <1>4 DEF ResumeJob
  <2>3. job[j].next \in -Late .. Never
    BY <1>0 DEF JobRow
  <2>4. Here
    BY <1>0, <2>1, <2>2, <2>3 DEF JobInv, ServedRow
  <2> QED BY <1>0, <2>1, <2>2, <2>4
<1>5. ASSUME Cancel(j)
      PROVE  Typed /\ Kept /\ Here /\ job'[j].status # "running"
  <2>1. /\ job'[j] \in JobRow /\ job' \in [Job -> JobRow]
        /\ job'[j].status = "cancelled"
    <3>1. Never \in -Late .. Never
      OBVIOUS
    <3> QED BY <1>0, <1>5, <3>1 DEF Cancel, JobRow
  <2>2. /\ Kept /\ UNCHANGED <<run, served, retried, paused>>
        /\ job[j].status \in {"scheduled", "paused", "done"}
    BY <1>0, <1>5 DEF Cancel
  <2>3. Here
    BY <1>0, <2>1, <2>2 DEF JobInv
  <2> QED BY <1>0, <2>1, <2>2, <2>3
<1>6. ASSUME Remove(j)
      PROVE  Typed /\ Kept /\ Here /\ job'[j].status # "running"
  BY <1>0, <1>6 DEF Remove, JobInv, JobRow, RunRow, ServedRow, Exists
<1>7. Typed /\ Kept /\ Here
      /\ ~(Is(j, "scheduled") /\ Is(j, "running")' /\ served'[j] # Unserved)
  BY <1>1, <1>2, <1>3, <1>4, <1>5, <1>6
<1> QED BY <1>7, OneJob

\* What execute makes of the job and its run, by whoever started it: served is
\* the caller's.
LEMMA Executed ==
    ASSUME JobAssumption, Inv, NEW j \in Job,
           NEW after \in {"advance", "keep", "paused"}, NEW slot \in -Late .. 0,
           Executes(j, after, slot)
    PROVE  /\ job' \in [Job -> JobRow] /\ run' \in [Job -> RunRow]
           /\ retried' \in SUBSET Job /\ paused' \in BOOLEAN
           /\ \A i \in Job \ {j} : job'[i] = job[i] /\ run'[i] = run[i]
           /\ job'[j].next = job[j].next
           /\ \/ job'[j].status = "running" /\ run'[j] # NoRun /\ run'[j].after = after
              \/ job'[j].status = "scheduled" /\ run'[j] = run[j]
<1>1. /\ job \in [Job -> JobRow] /\ run \in [Job -> RunRow]
      /\ retried \in SUBSET Job /\ paused \in BOOLEAN
  BY InvByJob
<1>2. retried' \in SUBSET Job /\ paused' \in BOOLEAN
  BY <1>1 DEF Executes
<1>3. CASE /\ job' = [job EXCEPT ![j].status = "running"]
           /\ run' = [run EXCEPT ![j] = [after |-> after, slot |-> slot,
                                         count |-> job[j].count, suspended |-> FALSE]]
  <2> DEFINE r == [after |-> after, slot |-> slot, count |-> job[j].count, suspended |-> FALSE]
  <2>1. r \in RunRow /\ r # NoRun /\ r.after = after
    BY <1>1 DEF RunRow, JobRow, NoRun
  <2>2. run' = [run EXCEPT ![j] = r]
    BY <1>3
  <2> HIDE DEF r
  <2>3. run' \in [Job -> RunRow] /\ run'[j] # NoRun /\ run'[j].after = after
    BY <1>1, <2>1, <2>2
  <2>4. /\ job' \in [Job -> JobRow] /\ job'[j].next = job[j].next
        /\ job'[j].status = "running"
    BY <1>1, <1>3 DEF JobRow
  <2> QED BY <1>2, <1>3, <2>3, <2>4
<1>4. CASE /\ job' = [job EXCEPT ![j].status = "scheduled"]
           /\ UNCHANGED run
  <2>1. /\ job' \in [Job -> JobRow] /\ job'[j].next = job[j].next
        /\ job'[j].status = "scheduled"
    BY <1>1, <1>4 DEF JobRow
  <2> QED BY <1>1, <1>2, <1>4, <2>1
<1> QED BY <1>3, <1>4 DEF Executes

\* The sweep fires a job.
LEMMA FireInv ==
    ASSUME JobAssumption, Inv, NEW j \in Job, Fire(j)
    PROVE  Inv' /\ OnceStep
<1>1. /\ job \in [Job -> JobRow] /\ served \in [Job -> ServedRow]
      /\ JobInv(job[j], run[j], served[j], Every[j])
      /\ \A i \in Job : JobInv(job[i], run[i], served[i], Every[i])
  BY InvByJob
<1>2. job[j].status = "scheduled" /\ job[j].next \in -Late .. 0
  BY <1>1, Constants DEF Fire, Due, Is, JobRow
<1>3. /\ job' \in [Job -> JobRow] /\ run' \in [Job -> RunRow]
      /\ retried' \in SUBSET Job /\ paused' \in BOOLEAN
      /\ \A i \in Job \ {j} : job'[i] = job[i] /\ run'[i] = run[i]
      /\ job'[j].next = job[j].next
      /\ \/ job'[j].status = "running" /\ run'[j] # NoRun /\ run'[j].after = "advance"
         \/ job'[j].status = "scheduled" /\ run'[j] = run[j]
  BY <1>2, Executed DEF Fire
<1>4. served' = served
  BY DEF Fire
<1>5. JobInv(job'[j], run'[j], served'[j], Every[j])
  BY <1>1, <1>2, <1>3, <1>4, Constants DEF JobInv
<1>6. \A i \in Job : JobInv(job'[i], run'[i], served'[i], Every[i])
  BY <1>1, <1>3, <1>4, <1>5
<1>7. OnceStep
  <2>1. served[j] # Unserved => served[j].at < 0
    <3>1. served[j] # Unserved => /\ served[j].at \in -Memory .. 0
                                  /\ job[j].next > served[j].at
      BY <1>1, <1>2 DEF JobInv, ServedRow
    <3> QED BY <1>2, <3>1, Constants
  <2>2. served[j] # Unserved => Every[j] # 0 /\ job[j].next - served[j].slot >= Every[j]
    BY <1>1, <1>2 DEF JobInv
  <2> QED BY <1>3, <1>4, <2>1, <2>2 DEF OnceStep, Is
<1> QED BY <1>1, <1>3, <1>4, <1>6, <1>7, InvPrimed

\* A human runs a job.
LEMMA RunNowInv ==
    ASSUME JobAssumption, Inv, NEW j \in Job, RunNow(j)
    PROVE  Inv' /\ OnceStep
<1>1. /\ job \in [Job -> JobRow] /\ served \in [Job -> ServedRow]
      /\ JobInv(job[j], run[j], served[j], Every[j])
  BY InvByJob
<1>2. PICK after \in {"advance", "keep", "paused"}, slot \in -Late .. 0 :
         Executes(j, after, slot) /\ job[j].status \in {"scheduled", "paused", "done"}
  <2>1. 0 \in -Late .. 0 /\ (job[j].next < 0 => job[j].next \in -Late .. 0)
    BY <1>1, Constants DEF JobRow
  <2> QED BY <2>1 DEF RunNow, Is, Due
<1>3. /\ job' \in [Job -> JobRow] /\ run' \in [Job -> RunRow]
      /\ retried' \in SUBSET Job /\ paused' \in BOOLEAN
      /\ \A i \in Job \ {j} : job'[i] = job[i] /\ run'[i] = run[i]
      /\ \/ job'[j].status = "running" /\ run'[j] # NoRun /\ run'[j].after = after
         \/ job'[j].status = "scheduled" /\ run'[j] = run[j]
  BY <1>2, Executed
<1>4. served' = [served EXCEPT ![j] = Unserved] /\ Unserved \in ServedRow
  BY DEF RunNow, ServedRow
<1>5. JobInv(job'[j], run'[j], served'[j], Every[j])
  BY <1>1, <1>2, <1>3, <1>4 DEF JobInv
<1> QED BY <1>1, <1>3, <1>4, <1>5, OneJob

\* A run ends.
LEMMA EndInv ==
    ASSUME JobAssumption, Inv, NEW j \in Job, NEW outcome \in {"result", "retry", "failed"},
           RunEnds(j, outcome)
    PROVE  Inv' /\ OnceStep
<1>1. /\ job \in [Job -> JobRow] /\ run \in [Job -> RunRow] /\ served \in [Job -> ServedRow]
      /\ retried \in SUBSET Job /\ paused \in BOOLEAN
      /\ JobInv(job[j], run[j], served[j], Every[j])
  BY InvByJob
<1>2. /\ run' = [run EXCEPT ![j] = NoRun] /\ run[j] # NoRun
      /\ retried' \in SUBSET Job /\ paused' \in BOOLEAN
      /\ \A i \in Job \ {j} : served'[i] = served[i]
  BY <1>1 DEF RunEnds
<1>3. NoRun \in RunRow /\ run' \in [Job -> RunRow]
  <2>1. 0 \in -Late .. 0 /\ 0 \in 0 .. MaxRuns
    BY Constants
  <2>2. NoRun \in RunRow
    BY <2>1 DEF NoRun, RunRow
  <2> QED BY <1>1, <1>2, <2>2
<1>4. CASE ~Exists(j)
  <2>1. UNCHANGED <<job, served>> /\ job[j].status \in {"unborn", "gone"}
    BY <1>4 DEF RunEnds, Settle, Exists, Is
  <2>2. JobInv(job'[j], run'[j], served'[j], Every[j]) /\ job'[j].status # "running"
    BY <1>1, <1>2, <1>3, <2>1 DEF JobInv
  <2> QED BY <1>1, <1>2, <1>3, <2>1, <2>2, OneJob DEF Is
<1>5. CASE Exists(j)
  <2>1. job[j].status = "running"
    BY <1>1, <1>2, <1>5 DEF JobInv, Exists, Is
  <2>2. /\ \A n \in 0 .. MaxRuns : Counted(n) \in 0 .. MaxRuns
        /\ job[j].count \in 0 .. MaxRuns
        /\ 0 \in -Late .. Never /\ 1 \in -Late .. Never
        /\ job[j].next \in -Late .. Never
        /\ run[j].slot \in -Late .. 0
    BY <1>1, Constants DEF Counted, JobRow, RunRow
  <2>3. ASSUME NEW s \in {"scheduled", "paused", "done"}, NEW next \in -Late .. Never,
               NEW n \in 0 .. MaxRuns, Back(j, s, next, n),
               served' \in [Job -> ServedRow],
               s # "done" /\ served'[j] # Unserved =>
                   /\ Every[j] # 0 /\ next # Never
                   /\ next - served'[j].slot >= Every[j] /\ next > served'[j].at
        PROVE  Inv' /\ OnceStep
    <3> DEFINE row == [status |-> s, next |-> next, count |-> n]
    <3>1. row \in JobRow /\ row.status = s /\ row.next = next
      BY DEF JobRow
    <3>2. job' = [job EXCEPT ![j] = row]
      BY <2>3 DEF Back
    <3> HIDE DEF row
    <3>3. job' \in [Job -> JobRow] /\ job'[j] = row /\ \A i \in Job \ {j} : job'[i] = job[i]
      BY <1>1, <3>1, <3>2
    <3>4. run'[j] = NoRun /\ \A i \in Job \ {j} : run'[i] = run[i]
      BY <1>1, <1>2
    <3>5. JobInv(row, NoRun, served'[j], Every[j])
      BY <1>3, <2>3, <3>1 DEF JobInv
    <3>6. ~(Is(j, "scheduled") /\ Is(j, "running")' /\ served'[j] # Unserved)
      BY <2>1 DEF Is
    <3> QED BY <1>2, <1>3, <2>3, <3>3, <3>4, <3>5, <3>6, OneJob
  <2>4. CASE run[j].suspended \/ outcome # "result" \/ run[j].after # "advance"
    <3>1. served' = served
      BY <2>4 DEF RunEnds
    <3>2. served[j] # Unserved =>
             /\ Every[j] # 0 /\ job[j].next <= 0 /\ job[j].next # Never
             /\ job[j].next - served[j].slot >= Every[j] /\ job[j].next > served[j].at
      BY <1>1, <2>1 DEF JobInv
    <3>3. served[j] # Unserved => served[j].slot \in Int /\ served[j].at \in Int
      BY <1>1, Constants DEF ServedRow
    <3>4. ASSUME NEW next \in {0, 1, job[j].next}, served[j] # Unserved
          PROVE  /\ Every[j] # 0 /\ next # Never
                 /\ next - served[j].slot >= Every[j] /\ next > served[j].at
      BY <2>2, <3>2, <3>3, <3>4, Constants
    <3>5. \E s \in {"scheduled", "paused"}, next \in {0, 1, job[j].next},
             n \in 0 .. MaxRuns : Back(j, s, next, n)
      BY <1>5, <2>2, <2>4 DEF RunEnds, Settle, SettleExtra
    <3> QED BY <1>1, <2>2, <2>3, <3>1, <3>4, <3>5
  <2>5. CASE ~run[j].suspended /\ outcome = "result" /\ run[j].after = "advance"
    <3> DEFINE next == NextRun(j, run[j].count + 1)
    <3>1. /\ Back(j, IF next = Never THEN "done" ELSE "scheduled", next, Counted(job[j].count))
          /\ served' = [served EXCEPT ![j] = [slot |-> run[j].slot, at |-> 0]]
      BY <1>5, <2>5 DEF RunEnds, Settle
    <3>2. [slot |-> run[j].slot, at |-> 0] \in ServedRow
      BY <2>2, Constants DEF ServedRow
    <3>3. next = Never \/ (Every[j] # 0 /\ next \in 1 .. Ahead /\ next - run[j].slot >= Every[j])
      BY <2>2, Constants DEF NextRun
    <3>4. next \in -Late .. Never
      BY <3>3, Constants
    <3> HIDE DEF next
    <3>5. served' \in [Job -> ServedRow] /\ served'[j] = [slot |-> run[j].slot, at |-> 0]
      BY <1>1, <3>1, <3>2
    <3>6. next # Never => /\ Every[j] # 0 /\ next - served'[j].slot >= Every[j]
                          /\ next > served'[j].at
      BY <3>3, <3>5
    <3> QED BY <2>2, <2>3, <3>1, <3>4, <3>5, <3>6
  <2> QED BY <2>4, <2>5
<1> QED BY <1>4, <1>5

\* Time passes: no difference between a slot and the history shrinks below the
\* cadence, as the history reaches further back than a job can be late.
LEMMA TickInv ==
    ASSUME JobAssumption, Inv, Tick
    PROVE  Inv' /\ OnceStep
<1>1. /\ job \in [Job -> JobRow] /\ run \in [Job -> RunRow] /\ served \in [Job -> ServedRow]
      /\ retried \in SUBSET Job /\ paused \in BOOLEAN
      /\ \A j \in Job : JobInv(job[j], run[j], served[j], Every[j])
  BY InvByJob
<1> DEFINE nj(j) == [job[j] EXCEPT !.next = Older(@, Late)]
           nr(j) == [run[j] EXCEPT !.slot = IF run[j] = NoRun THEN @ ELSE Older(@, Late)]
           ns(j) == [slot |-> Older(served[j].slot, Memory), at |-> Older(served[j].at, Memory)]
<1>2. /\ job' = [j \in Job |-> nj(j)] /\ run' = [j \in Job |-> nr(j)]
      /\ served' = [j \in Job |-> ns(j)] /\ UNCHANGED <<retried, paused>>
  BY DEF Tick
<1>3. ASSUME NEW j \in Job
      PROVE  /\ nj(j) \in JobRow /\ nr(j) \in RunRow /\ ns(j) \in ServedRow
             /\ JobInv(nj(j), nr(j), ns(j), Every[j])
             /\ nj(j).status = job[j].status
  <2>1. /\ job[j] \in JobRow /\ run[j] \in RunRow /\ served[j] \in ServedRow
        /\ JobInv(job[j], run[j], served[j], Every[j])
    BY <1>1
  <2>2. /\ job[j].next \in -Late .. Never /\ run[j].slot \in -Late .. 0
        /\ Never > 0 /\ Never \in Int
    BY <2>1, Constants DEF JobRow, RunRow
  <2>3. /\ Older(job[j].next, Late) \in -Late .. Never
        /\ Older(run[j].slot, Late) \in -Late .. 0
        /\ (job[j].next # Never => /\ Older(job[j].next, Late) # Never
                                   /\ Older(job[j].next, Late) >= job[j].next - 1
                                   /\ Older(job[j].next, Late) <= job[j].next)
    BY <2>2, Constants DEF Older
  <2>4. /\ nj(j) \in JobRow /\ nj(j).status = job[j].status
        /\ nj(j).next = Older(job[j].next, Late)
    BY <2>1, <2>3 DEF JobRow
  <2>5. nr(j) \in RunRow /\ nr(j).after = run[j].after /\ (nr(j) = NoRun <=> run[j] = NoRun)
    <3>1. CASE run[j] = NoRun
      <4>1. nr(j) = run[j]
        BY <2>1, <3>1 DEF RunRow
      <4> QED BY <2>1, <3>1, <4>1
    <3>2. CASE run[j] # NoRun
      <4>1. nr(j) = [run[j] EXCEPT !.slot = Older(@, Late)]
        BY <3>2
      <4>2. nr(j) \in RunRow /\ nr(j).after = run[j].after
        BY <2>1, <2>3, <4>1 DEF RunRow
      <4>3. run[j].after # "none"
        BY <2>1, <3>2 DEF JobInv
      <4> QED BY <3>2, <4>2, <4>3 DEF NoRun
    <3> QED BY <3>1, <3>2
  <2>6. CASE served[j] = Unserved
    <3>1. ns(j) = Unserved
      BY <2>6 DEF Older, Unserved
    <3> QED BY <2>1, <2>2, <2>3, <2>4, <2>5, <3>1 DEF JobInv, ServedRow
  <2>7. CASE served[j] # Unserved
    <3>1. served[j].slot \in -Memory .. 0 /\ served[j].at \in -Memory .. 0
      BY <2>1, <2>7 DEF ServedRow
    <3>2. /\ Older(served[j].slot, Memory) \in -Memory .. 0
          /\ Older(served[j].at, Memory) \in -Memory .. 0
          /\ Older(served[j].slot, Memory) \in {-Memory, served[j].slot - 1}
          /\ Older(served[j].at, Memory) \in {-Memory, served[j].at - 1}
      BY <2>2, <3>1, Constants DEF Older
    <3>3. ns(j) \in ServedRow /\ ns(j) # Unserved
      BY <2>2, <3>2 DEF ServedRow, Unserved
    <3>4. ASSUME job[j].status \in {"scheduled", "paused", "running"}
          PROVE  /\ Every[j] # 0 /\ nj(j).next # Never
                 /\ nj(j).next - ns(j).slot >= Every[j] /\ nj(j).next > ns(j).at
                 /\ job[j].status = "running" => nj(j).next <= 0
      <4>1. /\ Every[j] # 0 /\ job[j].next # Never
            /\ job[j].next - served[j].slot >= Every[j] /\ job[j].next > served[j].at
            /\ job[j].status = "running" => job[j].next <= 0
        BY <2>1, <2>7, <3>4 DEF JobInv
      <4>2. /\ nj(j).next >= -Late /\ nj(j).next \in Int /\ nj(j).next # Never
            /\ nj(j).next >= job[j].next - 1 /\ nj(j).next <= job[j].next
        BY <2>2, <2>3, <2>4, <4>1, Constants
      <4>3. nj(j).next - ns(j).slot >= Every[j]
        BY <2>2, <3>1, <3>2, <4>1, <4>2, Constants
      <4>4. nj(j).next > ns(j).at
        BY <2>2, <3>1, <3>2, <4>1, <4>2, Constants
      <4>5. job[j].status = "running" => nj(j).next <= 0
        BY <2>2, <4>1, <4>2
      <4> QED BY <4>1, <4>2, <4>3, <4>4, <4>5
    <3> HIDE DEF nj, nr, ns
    <3> QED BY <2>1, <2>4, <2>5, <2>7, <3>3, <3>4 DEF JobInv
  <2> QED BY <2>6, <2>7
<1> HIDE DEF nj, nr, ns
<1>4. Inv'
  BY <1>1, <1>2, <1>3, InvPrimed
<1>5. OnceStep
  BY <1>2, <1>3 DEF OnceStep, Is
<1> QED BY <1>4, <1>5

\* Pause all, Continue, and a new process.
LEMMA ServerInv ==
    ASSUME JobAssumption, Inv, Pause \/ Continue \/ Restart \/ UNCHANGED jobVars
    PROVE  Inv' /\ OnceStep
<1>1. /\ job \in [Job -> JobRow] /\ run \in [Job -> RunRow] /\ served \in [Job -> ServedRow]
      /\ retried \in SUBSET Job /\ paused \in BOOLEAN
      /\ \A j \in Job : JobInv(job[j], run[j], served[j], Every[j])
  BY InvByJob
<1>2. NoRun \in RunRow /\ 0 \in -Late .. Never /\ 0 # Never
  BY Constants DEF NoRun, RunRow
<1>3. CASE Pause
  <2>1. UNCHANGED <<job, served, retried>> /\ paused' = TRUE
    BY <1>3 DEF Pause
  <2>2. ASSUME NEW j \in Job
        PROVE  run'[j] \in RunRow /\ JobInv(job[j], run'[j], served[j], Every[j])
    <3>1. run'[j] \in {run[j], [run[j] EXCEPT !.suspended = TRUE], NoRun}
          /\ (run[j] = NoRun <=> run'[j] = NoRun)
      <4>1. run[j] # NoRun => [run[j] EXCEPT !.suspended = TRUE] # NoRun
        BY <1>1 DEF NoRun, RunRow
      <4> QED BY <1>1, <1>3, <4>1 DEF Pause, Live
    <3>2. run'[j] \in RunRow /\ (run'[j] # NoRun => run'[j].after = run[j].after)
      BY <1>1, <1>2, <3>1 DEF RunRow
    <3> QED BY <1>1, <3>1, <3>2 DEF JobInv
  <2>3. run' \in [Job -> RunRow]
    <3>1. run' = [j \in Job |-> run'[j]]
      BY <1>1, <1>3 DEF Pause
    <3> QED BY <2>2, <3>1
  <2>4. Inv'
    BY <1>1, <2>1, <2>2, <2>3, InvPrimed
  <2> QED BY <2>1, <2>4 DEF OnceStep, Is
<1>4. CASE Continue \/ UNCHANGED jobVars
  <2>1. UNCHANGED <<job, run, retried, served>> /\ paused' \in BOOLEAN
    BY <1>1, <1>4 DEF Continue, jobVars
  <2> QED BY <1>1, <2>1, InvPrimed DEF OnceStep, Is
<1>5. CASE Restart
  <2> DEFINE row(j) == IF Is(j, "running") THEN [job[j] EXCEPT !.status = "scheduled", !.next = 0]
                       ELSE job[j]
  <2>1. /\ job' = [j \in Job |-> row(j)] /\ run' = [j \in Job |-> NoRun]
        /\ retried' = {} /\ UNCHANGED <<paused, served>>
    BY <1>5 DEF Restart
  <2>2. ASSUME NEW j \in Job
        PROVE  row(j) \in JobRow /\ JobInv(row(j), NoRun, served[j], Every[j])
               /\ row(j).status # "running"
    <3>1. CASE Is(j, "running")
      <4>1. row(j) \in JobRow /\ row(j).status = "scheduled" /\ row(j).next = 0
        BY <1>1, <1>2, <3>1 DEF JobRow
      <4>2. served[j] # Unserved => /\ Every[j] # 0 /\ job[j].next <= 0
                                    /\ job[j].next - served[j].slot >= Every[j]
                                    /\ job[j].next > served[j].at
        BY <1>1, <3>1 DEF JobInv, Is
      <4>3. /\ job[j].next \in Int
            /\ served[j] # Unserved => served[j].slot \in Int /\ served[j].at \in Int
        BY <1>1, Constants DEF JobRow, ServedRow
      <4>4. served[j] # Unserved => 0 - served[j].slot >= Every[j] /\ 0 > served[j].at
        BY <4>2, <4>3, Constants
      <4> QED BY <1>1, <1>2, <4>1, <4>2, <4>4 DEF JobInv
    <3>2. CASE ~Is(j, "running")
      BY <1>1, <1>2, <3>2 DEF JobInv, Is
    <3> QED BY <3>1, <3>2
  <2> HIDE DEF row
  <2>3. Inv'
    BY <1>1, <1>2, <2>1, <2>2, InvPrimed
  <2> QED BY <2>1, <2>2, <2>3 DEF OnceStep, Is
<1> QED BY <1>3, <1>4, <1>5

\* Every step keeps the invariant, and fires no slot twice.
LEMMA NextInv ==
    ASSUME JobAssumption, Inv, [Next]_jobVars
    PROVE  Inv' /\ OnceStep
<1>1. ASSUME NEW j \in Job, HumanStep(j)
      PROVE  Inv' /\ OnceStep
  <2>1. CASE RunNow(j)
    BY <2>1, RunNowInv
  <2>2. CASE \/ \E at \in Plan : Create(j, at) \/ Update(j, at)
             \/ PauseJob(j) \/ ResumeJob(j) \/ Cancel(j) \/ Remove(j)
    BY <2>2, PlanInv
  <2> QED BY <1>1, <2>1, <2>2 DEF HumanStep
<1> QED BY <1>1, FireInv, EndInv, TickInv, ServerInv DEF Next, Ends

\* The invariant holds in every state.
LEMMA Invariant ==
    ASSUME JobAssumption
    PROVE  Spec => []Inv
<1>1. Init => Inv
  <2>1. ASSUME Init, NEW j \in Job
        PROVE  /\ job[j] = [status |-> "unborn", next |-> Never, count |-> 0]
               /\ run[j] = NoRun /\ served[j] = Unserved
               /\ JobInv(job[j], run[j], served[j], Every[j])
    <3>1. /\ job[j] = [status |-> "unborn", next |-> Never, count |-> 0]
          /\ run[j] = NoRun /\ served[j] = Unserved
      BY <2>1 DEF Init
    <3>2. /\ [status |-> "unborn", next |-> Never, count |-> 0] \in JobRow
          /\ NoRun \in RunRow /\ Unserved \in ServedRow
      BY Constants DEF JobRow, RunRow, ServedRow, NoRun
    <3> QED BY <3>1, <3>2 DEF JobInv
  <2>2. ASSUME Init
        PROVE  /\ job \in [Job -> JobRow] /\ run \in [Job -> RunRow]
               /\ served \in [Job -> ServedRow]
               /\ retried \in SUBSET Job /\ paused \in BOOLEAN
    BY <2>1, <2>2 DEF Init, JobInv
  <2> QED BY <2>1, <2>2, InvByJob
<1>2. Inv /\ [Next]_jobVars => Inv'
  BY NextInv
<1> QED BY <1>1, <1>2, PTL DEF Spec

---------------------------------------------------------------------------
(* The theorems *)

\* Every variable keeps its type: no plan lies outside its bounds.
THEOREM Typed ==
    ASSUME JobAssumption
    PROVE  Spec => []TypeOK
<1>1. Inv => TypeOK
  BY DEF Inv
<1> QED BY <1>1, Invariant, PTL

\* A job reads running exactly while a run of it is alive, whatever started the
\* run and however it ended.
THEOREM RunningAlive ==
    ASSUME JobAssumption
    PROVE  Spec => []RunningIsLive
<1>1. Inv => RunningIsLive
  BY DEF Inv
<1> QED BY <1>1, Invariant, PTL

\* On its own a job runs once for a slot, and no sooner than its cadence after
\* the last one.
THEOREM Once ==
    ASSUME JobAssumption
    PROVE  Spec => OncePerSlot
<1>1. Inv /\ [Next]_jobVars => [job' # job => OnceStep]_jobVars
  BY NextInv
<1>2. (job' # job => OnceStep) <=>
      (job' # job => \A j \in Job :
         Is(j, "scheduled") /\ Is(j, "running")' /\ served'[j] # Unserved =>
            /\ Every[j] # 0
            /\ served[j].at < 0 /\ job[j].next - served[j].slot >= Every[j])
  BY DEF OnceStep
<1> QED BY <1>1, <1>2, Invariant, PTL DEF Spec, OncePerSlot
=============================================================================
