--------------------------- MODULE PauseAll_proofs ---------------------------
(***************************************************************************)
(* Theorems about Pause all and Continue, for any tasks, checkouts, limits *)
(* and requests, where Continue waits for what the pause cut.  What has    *)
(* become of a turn that is due is said for restarts in a pause that catch *)
(* no start or retry on its way; the rest holds with those as well.        *)
(*                                                                         *)
(* Fit(t) says how the seven places a turn can be in go together: its row, *)
(* its start, its terminal, its back-off, the resume that is on its way,   *)
(* the round after it and the turn that is due.  Only a step of t and the  *)
(* sweeps, Continue and the boot touch them, so each action of one task is *)
(* a lemma about that task, and FrameFit keeps the others.                 *)
(***************************************************************************)
EXTENDS PauseAll, TLAPS

---------------------------------------------------------------------------
(* The invariant *)

\* A start that is under way has no terminal yet, and one that a pause stopped
\* winds down in that pause.
StartFit(t) ==
    /\ start[t] # NoStart => session[t] = "none" /\ Status(t) \in {"running", "done"}
    /\ start[t].at = "spawn" => Status(t) = "running"
    /\ start[t].at = "stopped" => paused /\ start[t].turn # "fresh" /\ t \in disk
    /\ session[t] \in {"work", "publish"} => Status(t) = "running"
    /\ session[t] # "none" => t \in disk

\* The turn that is due is the one at hand.
DueFit(t) ==
    Forced \/ /\ start[t] # NoStart /\ Status(t) = "running" => due[t] = start[t].turn
              /\ session[t] \in {"work", "publish"} => due[t] = session[t]
              /\ Status(t) = "done" => due[t] = "none"
              /\ Carried(t)

\* A marker is on a parked task, whose terminal is gone when it may be released.
MarkFit(t) ==
    /\ row[t].mark # "none" => Status(t) = "review"
    /\ row[t].mark # "none" /\ session[t] = "dying" => paused
    /\ row[t].mark = "land" => Forced \/ due[t] = "none"
    /\ row[t].mark = "resume" /\ t \notin disk => Forced /\ row[t].round = "none"

\* A retry is armed for a turn whose terminal lives, or died with nothing else.
BackoffFit(t) ==
    t \in backoff =>
        /\ t \in disk /\ (Forced \/ due[t] = "work") /\ resuming[t] # "land"
        /\ \/ Status(t) = "running" /\ session[t] = "work"
           \/ /\ Status(t) = "review" /\ session[t] = "none"
              /\ row[t].mark = "none" /\ row[t].round = "none" /\ loop[t] = "none"

\* A round runs for a task at rest that is owed nothing.
LoopFit(t) ==
    loop[t] # "none" =>
        /\ Status(t) \in {"review", "done"} /\ row[t].mark = "none"
        /\ Forced \/ due[t] = "none"
        /\ resuming[t] = "none"

\* What may have become of a task since a resume set out for it.
ResumeFit(t) ==
    /\ resuming[t] = "land" => (Forced \/ due[t] = "none") /\ Status(t) \in {"review", "done"}
    /\ resuming[t] \notin {"none", "land"} => row[t].mark # "land"
    /\ resuming[t] # "none" /\ t \notin disk =>
         Status(t) # "queued" /\ (start[t] # NoStart => start[t].by = "human")
    /\ resuming[t] = "resume" /\ t \notin disk =>
         Forced /\ row[t].mark \notin {"message", "publish"}
    /\ resuming[t] # "none" /\ row[t].mark = "none" /\ Status(t) = "review"
         => row[t].round = "none"

RoundFit(t) ==
    ~paused /\ row[t].round # "none" /\ Status(t) = "review"
      => loop[t] # "none" \/ row[t].mark # "none"

Fit(t) ==
    /\ StartFit(t) /\ DueFit(t) /\ MarkFit(t) /\ BackoffFit(t)
    /\ LoopFit(t) /\ ResumeFit(t) /\ RoundFit(t)

Inv ==
    /\ TypeOK
    /\ sweep = "waits" => paused
    /\ \A t \in Task : Fit(t)

---------------------------------------------------------------------------
(* Steps of one task *)

\* A task that a step leaves alone.
Same(t) ==
    /\ row'[t] = row[t] /\ start'[t] = start[t] /\ session'[t] = session[t]
    /\ resuming'[t] = resuming[t] /\ loop'[t] = loop[t] /\ due'[t] = due[t]
    /\ t \in disk' <=> t \in disk
    /\ t \in backoff' <=> t \in backoff

\* What is about t alone holds on while t is left alone.
LEMMA FrameFit ==
    ASSUME NEW t \in Task, Fit(t), Same(t), paused => paused'
    PROVE  Fit(t)'
<1> USE DEF Fit, Same, Status
<1>1. StartFit(t)' /\ MarkFit(t)'
  BY DEF StartFit, MarkFit
<1>2. DueFit(t)'
  BY DEF DueFit, Carried
<1>3. BackoffFit(t)' /\ LoopFit(t)'
  BY DEF BackoffFit, LoopFit
<1>4. ResumeFit(t)' /\ RoundFit(t)'
  BY DEF ResumeFit, RoundFit
<1> QED BY <1>1, <1>2, <1>3, <1>4

\* So a step of t is about t.
LEMMA StepFit ==
    ASSUME Inv, NEW t \in Task, TypeOK', UNCHANGED <<paused, sweep>>,
           Fit(t)', \A u \in Task \ {t} : Same(u)
    PROVE  Inv'
<1>1. ASSUME NEW u \in Task
      PROVE  Fit(u)'
  BY <1>1, FrameFit DEF Inv
<1> QED BY <1>1 DEF Inv

Statuses == {"queued", "running", "review", "done"}
Rounds == {"none", "pending", "reviewing"}

\* r is the table with these three written to the row of t.
Written(r, t, to, mark, round) ==
    /\ r \in [Task -> Rows]
    /\ r[t].status = to /\ r[t].mark = mark /\ r[t].round = round
    /\ \A u \in Task \ {t} : r[u] = row[u]

\* The ways the code writes a row: a move, a round, a marker, or several of them.
LEMMA Moves ==
    ASSUME NEW r \in [Task -> Rows], NEW t \in Task, \A u \in Task \ {t} : r[u] = row[u],
           NEW to \in Statuses, NEW mark \in Marks
    PROVE  Written(Moved(r, t, to, mark), t, to, mark, r[t].round)
BY DEF Moved, Written, Rows, Statuses

LEMMA RoundWrites ==
    ASSUME NEW r \in [Task -> Rows], NEW t \in Task, \A u \in Task \ {t} : r[u] = row[u],
           NEW round \in Rounds
    PROVE  Written([r EXCEPT ![t].round = round], t, r[t].status, r[t].mark, round)
BY DEF Written, Rows, Rounds

LEMMA MarkWrites ==
    ASSUME NEW r \in [Task -> Rows], NEW t \in Task, \A u \in Task \ {t} : r[u] = row[u],
           NEW mark \in Marks
    PROVE  Written([r EXCEPT ![t].mark = mark], t, r[t].status, mark, r[t].round)
BY DEF Written, Rows

LEMMA RowWrites ==
    ASSUME TypeOK, NEW t \in Task
    PROVE  /\ Written(row, t, row[t].status, row[t].mark, row[t].round)
           /\ \A to \in Statuses, mark \in Marks :
                 Written(Moved(row, t, to, mark), t, to, mark, row[t].round)
           /\ \A to \in Statuses, mark \in Marks, round \in Rounds :
                 Written([Moved(row, t, to, mark) EXCEPT ![t].round = round], t, to, mark, round)
           /\ \A round \in Rounds :
                 Written([row EXCEPT ![t].round = round], t, row[t].status, row[t].mark, round)
           /\ \A mark \in Marks :
                 Written([row EXCEPT ![t].mark = mark], t, row[t].status, mark, row[t].round)
<1>1. row \in [Task -> Rows]
  BY DEF TypeOK
<1>2. Written(row, t, row[t].status, row[t].mark, row[t].round)
  BY <1>1 DEF Written
<1>3. ASSUME NEW to \in Statuses, NEW mark \in Marks, NEW round \in Rounds
      PROVE  Written([Moved(row, t, to, mark) EXCEPT ![t].round = round], t, to, mark, round)
  <2> DEFINE moved == Moved(row, t, to, mark)
  <2>1. Written(moved, t, to, mark, row[t].round)
    BY <1>1, Moves
  <2> HIDE DEF moved
  <2>2. Written([moved EXCEPT ![t].round = round], t, moved[t].status, moved[t].mark, round)
    BY <2>1, RoundWrites DEF Written
  <2> QED BY <2>1, <2>2 DEF Written, moved
<1> QED BY <1>1, <1>2, <1>3, Moves, RoundWrites, MarkWrites

LEMMA RoundMarkWrites ==
    ASSUME TypeOK, NEW t \in Task, NEW mark \in Marks, NEW round \in Rounds
    PROVE  Written([row EXCEPT ![t].round = round, ![t].mark = mark],
                   t, row[t].status, mark, round)
<1> DEFINE rounded == [row EXCEPT ![t].round = round]
<1>1. Written(rounded, t, row[t].status, row[t].mark, round)
  BY RowWrites
<1> HIDE DEF rounded
<1>2. Written([rounded EXCEPT ![t].mark = mark], t, rounded[t].status, mark, rounded[t].round)
  BY <1>1, MarkWrites DEF Written
<1> QED BY <1>1, <1>2 DEF Written, rounded

---------------------------------------------------------------------------
(* Agents and humans *)

\* The API cuts a turn, and a suspended terminal goes.
LEMMA ApiFailsFit ==
    ASSUME Inv, NEW t \in Task, ApiFails(t) \/ Gone(t)
    PROVE  Inv'
<1>1. TypeOK' /\ \A u \in Task \ {t} : Same(u)
  BY DEF Inv, TypeOK, ApiFails, Gone, Same
<1>2. Fit(t) /\ UNCHANGED <<paused, sweep>>
  BY DEF Inv, ApiFails, Gone
<1>3. Fit(t)'
  BY <1>2 DEF Inv, TypeOK, Rows, ApiFails, Gone, Fit, StartFit, DueFit, Carried, MarkFit,
              BackoffFit, LoopFit, ResumeFit, RoundFit, Status
<1> QED BY <1>1, <1>2, <1>3, StepFit

\* A turn stops: a round is marked, or a landing is owed.
LEMMA StopFit ==
    ASSUME Inv, NEW t \in Task, StopArrives(t)
    PROVE  Inv'
<1> USE DEF Inv, TypeOK
<1>1. /\ Fit(t) /\ UNCHANGED <<paused, sweep, start, disk, backoff, resuming>>
      /\ session[t] = "work" /\ t \notin backoff /\ Status(t) = "running" /\ resuming[t] = "none"
      /\ session' = [session EXCEPT ![t] = "idle"] /\ due' = [due EXCEPT ![t] = "none"]
  BY DEF StopArrives
<1>2. start[t] = NoStart /\ loop[t] = "none" /\ t \in disk
  BY <1>1 DEF Fit, StartFit, LoopFit
<1>3. \/ /\ paused /\ Written(row', t, "review", "none", "pending") /\ loop' = loop
      \/ /\ ~paused /\ Written(row', t, "review", "none", "reviewing")
         /\ loop' = [loop EXCEPT ![t] = "runs"]
      \/ /\ Written(row', t, "review", "none", "none") /\ loop' = loop
      \/ /\ paused /\ Written(row', t, "review", "land", "none") /\ loop' = loop
  <2>1. \A mark \in {"none", "land"}, round \in Rounds :
          Written([Moved(row, t, "review", mark) EXCEPT ![t].round = round],
                  t, "review", mark, round)
    BY RowWrites DEF Statuses, Marks
  <2>2. [loop EXCEPT ![t] = "none"] = loop
    BY <1>2
  <2> QED BY <2>1, <2>2 DEF StopArrives, Rounds
<1>4. TypeOK' /\ \A u \in Task \ {t} : Same(u)
  BY <1>1, <1>3 DEF Same, Written
<1>5. Fit(t)'
  <2>1. StartFit(t)' /\ MarkFit(t)'
    BY <1>1, <1>2, <1>3 DEF StartFit, MarkFit, Written, Status, NoStart
  <2>2. DueFit(t)'
    BY <1>1, <1>2, <1>3 DEF DueFit, Carried, Written, Status, Turns
  <2>3. BackoffFit(t)' /\ LoopFit(t)'
    BY <1>1, <1>2, <1>3 DEF BackoffFit, LoopFit, Written, Status
  <2>4. ResumeFit(t)' /\ RoundFit(t)'
    BY <1>1, <1>2, <1>3 DEF ResumeFit, RoundFit, Written, Status
  <2> QED BY <2>1, <2>2, <2>3, <2>4 DEF Fit
<1> QED BY <1>1, <1>4, <1>5, StepFit

\* A publish turn ends, and is over for every place.
LEMMA PublishFit ==
    ASSUME Inv, NEW t \in Task, PublishEnds(t)
    PROVE  Inv'
<1>1. /\ Fit(t) /\ UNCHANGED <<paused, sweep, start, disk, backoff, resuming, loop>>
      /\ session[t] = "publish" /\ Status(t) = "running"
      /\ session' = [session EXCEPT ![t] = "idle"] /\ due' = [due EXCEPT ![t] = "none"]
  BY DEF PublishEnds, Inv
<1>2. /\ start[t] = NoStart /\ loop[t] = "none" /\ t \in disk /\ t \notin backoff
      /\ resuming[t] # "land"
  BY <1>1 DEF Fit, StartFit, LoopFit, BackoffFit, ResumeFit
<1>3. PICK to \in {"review", "done"} : Written(row', t, to, "none", "none")
  BY RowWrites DEF PublishEnds, Inv, Statuses, Marks, Rounds
<1>4. TypeOK' /\ \A u \in Task \ {t} : Same(u)
  BY <1>1, <1>3 DEF Same, Written, Inv, TypeOK
<1>5. due'[t] = "none" /\ session'[t] = "idle" /\ start'[t] = NoStart
  BY <1>1, <1>2 DEF Inv, TypeOK
<1>6. Fit(t)'
  <2>1. StartFit(t)' /\ MarkFit(t)'
    BY <1>1, <1>2, <1>3, <1>5 DEF StartFit, MarkFit, Written, Status, NoStart
  <2>2. DueFit(t)'
    BY <1>3, <1>5 DEF DueFit, Carried, Written, Status
  <2>3. BackoffFit(t)' /\ LoopFit(t)'
    BY <1>1, <1>2 DEF BackoffFit, LoopFit
  <2>4. ResumeFit(t)' /\ RoundFit(t)'
    BY <1>1, <1>2, <1>3, <1>5 DEF ResumeFit, RoundFit, Written, Status
  <2> QED BY <2>1, <2>2, <2>3, <2>4 DEF Fit
<1> QED BY <1>1, <1>4, <1>6, StepFit

\* An agent dies: with a retry armed, the turn is still due.
LEMMA DiesFit ==
    ASSUME Inv, NEW t \in Task, Dies(t)
    PROVE  Inv'
<1>1. /\ Fit(t) /\ UNCHANGED <<paused, sweep, start, disk, backoff, resuming, loop>>
      /\ session[t] = "work" /\ Status(t) = "running"
      /\ session' = [session EXCEPT ![t] = "none"]
      /\ due' = IF t \in backoff THEN due ELSE [due EXCEPT ![t] = "none"]
  BY DEF Dies, Inv
<1>2. /\ start[t] = NoStart /\ loop[t] = "none" /\ t \in disk /\ (Forced \/ due[t] = "work")
      /\ resuming[t] # "land"
  BY <1>1 DEF Fit, StartFit, DueFit, LoopFit, ResumeFit
<1>3. Written(row', t, "review", "none", "none")
  BY RowWrites DEF Dies, Inv, Statuses, Marks, Rounds
<1>4. TypeOK' /\ \A u \in Task \ {t} : Same(u)
  BY <1>1, <1>3 DEF Same, Written, Inv, TypeOK
<1>5. /\ Forced \/ due'[t] = IF t \in backoff THEN "work" ELSE "none"
      /\ session'[t] = "none" /\ start'[t] = NoStart
  BY <1>1, <1>2 DEF Inv, TypeOK
<1>6. Fit(t)'
  <2>1. StartFit(t)' /\ MarkFit(t)'
    BY <1>1, <1>2, <1>3, <1>5 DEF StartFit, MarkFit, Written, Status, NoStart
  <2>2. DueFit(t)'
    BY <1>1, <1>3, <1>5 DEF DueFit, Carried, Written, Status
  <2>3. BackoffFit(t)' /\ LoopFit(t)'
    BY <1>1, <1>2, <1>3, <1>5 DEF BackoffFit, LoopFit, Written, Status
  <2>4. ResumeFit(t)' /\ RoundFit(t)'
    BY <1>1, <1>2, <1>3, <1>5 DEF ResumeFit, RoundFit, Written, Status
  <2> QED BY <2>1, <2>2, <2>3, <2>4 DEF Fit
<1> QED BY <1>1, <1>4, <1>6, StepFit

\* A human ends the task: nothing is due any more.
LEMMA HumanMovesFit ==
    ASSUME Inv, NEW t \in Task, HumanMoves(t)
    PROVE  Inv'
<1>1. /\ Fit(t) /\ UNCHANGED <<paused, sweep, start, disk, resuming, loop>>
      /\ start[t].at # "spawn" /\ backoff' = backoff \ {t}
      /\ session' = [session EXCEPT ![t] = IF @ \in {"none", "idle"} THEN "none" ELSE "dying"]
      /\ due' = [due EXCEPT ![t] = "none"]
  BY DEF HumanMoves, Inv
<1>2. Written(row', t, "done", "none", row[t].round)
  BY RowWrites DEF HumanMoves, Inv, Statuses, Marks
<1>3. TypeOK' /\ \A u \in Task \ {t} : Same(u)
  BY <1>1, <1>2 DEF Same, Written, Inv, TypeOK
<1>4. /\ due'[t] = "none"
      /\ session'[t] = IF session[t] \in {"none", "idle"} THEN "none" ELSE "dying"
  BY <1>1 DEF Inv, TypeOK
<1>5. Fit(t)'
  <2>1. StartFit(t)' /\ MarkFit(t)'
    BY <1>1, <1>2, <1>4 DEF Fit, StartFit, MarkFit, Written, Status
  <2>2. DueFit(t)'
    BY <1>2, <1>4 DEF DueFit, Carried, Written, Status
  <2>3. BackoffFit(t)' /\ LoopFit(t)'
    BY <1>1, <1>2, <1>4 DEF Fit, BackoffFit, LoopFit, Written, Status
  <2>4. ResumeFit(t)' /\ RoundFit(t)'
    BY <1>1, <1>2, <1>4 DEF Fit, ResumeFit, RoundFit, Written, Status
  <2> QED BY <2>1, <2>2, <2>3, <2>4 DEF Fit
<1> QED BY <1>1, <1>3, <1>5, StepFit

---------------------------------------------------------------------------
(* Starts *)

\* A turn begins, for whoever asked for it: the task has neither a round under
\* way nor a landing on its way, and a resume that is under way knows of it.
Begun(t, by, turn) ==
    /\ \E round \in Rounds : Written(row', t, "running", "none", round)
    /\ start' = [start EXCEPT ![t] = [at |-> "gate", by |-> by, turn |-> turn]]
    /\ session' = [session EXCEPT ![t] = "none"]
    /\ backoff' = backoff \ {t}
    /\ due' = [due EXCEPT ![t] = turn]
    /\ UNCHANGED <<paused, sweep, disk>>
    /\ resuming' \in [Task -> Marks] /\ \A u \in Task \ {t} : resuming'[u] = resuming[u]
    /\ loop' \in [Task -> {"none", "runs", "cut"}] /\ \A u \in Task \ {t} : loop'[u] = loop[u]
    /\ loop'[t] = "none" /\ resuming'[t] # "land" /\ resuming'[t] \in {resuming[t], "none"}
    /\ resuming'[t] # "none" /\ t \notin disk => by = "human"

LEMMA BegunFit ==
    ASSUME Inv, NEW t \in Task, NEW by \in {"claim", "human", "server", "resume"},
           NEW turn \in Turns, Begun(t, by, turn)
    PROVE  Inv'
<1> DEFINE new == [at |-> "gate", by |-> by, turn |-> turn]
<1>1. new \in Starts /\ new.at = "gate" /\ new.by = by /\ new.turn = turn
  BY DEF Starts
<1>2. start' = [start EXCEPT ![t] = new]
  BY DEF Begun
<1> HIDE DEF new
<1>3. PICK round \in Rounds : Written(row', t, "running", "none", round)
  BY DEF Begun
<1>4. TypeOK' /\ \A u \in Task \ {t} : Same(u)
  <2>1. start' \in [Task -> Starts] /\ \A u \in Task \ {t} : start'[u] = start[u]
    BY <1>1, <1>2 DEF Inv, TypeOK
  <2>2. due' \in [Task -> Turns \cup {"none", "work"}] /\ \A u \in Task \ {t} : due'[u] = due[u]
    BY DEF Inv, TypeOK, Begun
  <2>3. /\ session' \in [Task -> {"none", "work", "publish", "idle", "dying"}]
        /\ \A u \in Task \ {t} : session'[u] = session[u]
    BY DEF Inv, TypeOK, Begun
  <2> QED BY <1>3, <2>1, <2>2, <2>3 DEF Same, Written, Inv, TypeOK, Begun
<1>5. /\ due'[t] = turn /\ session'[t] = "none" /\ start'[t] = new /\ t \notin backoff'
      /\ loop'[t] = "none" /\ resuming'[t] # "land" /\ disk' = disk /\ paused' = paused
      /\ resuming'[t] = "resume" /\ t \notin disk => Forced
      /\ resuming'[t] # "none" /\ t \notin disk => by = "human"
  BY <1>2 DEF Inv, TypeOK, Begun, Fit, ResumeFit
<1>6. Fit(t)'
  <2>1. StartFit(t)' /\ MarkFit(t)'
    BY <1>1, <1>3, <1>5 DEF StartFit, MarkFit, Written, Status
  <2>2. DueFit(t)'
    BY <1>1, <1>3, <1>5 DEF DueFit, Carried, Written, Status, Turns
  <2>3. BackoffFit(t)' /\ LoopFit(t)'
    BY <1>5 DEF BackoffFit, LoopFit
  <2>4. ResumeFit(t)' /\ RoundFit(t)'
    BY <1>1, <1>3, <1>5 DEF ResumeFit, RoundFit, Written, Status
  <2> QED BY <2>1, <2>2, <2>3, <2>4 DEF Fit
<1> QED BY <1>4, <1>6, StepFit DEF Begun

\* Claims, and the requests of humans.
LEMMA ClaimFit ==
    ASSUME Inv, AskedAssumption, NEW t \in Task,
           Claim(t) \/ \E turn \in Asked : HumanStarts(t, turn)
    PROVE  Inv'
<1> USE DEF Inv, TypeOK
<1>1. row[t].round \in Rounds /\ "running" \in Statuses /\ "none" \in Marks
  BY DEF Rows, Rounds, Statuses, Marks
<1>2. Written(Moved(row, t, "running", "none"), t, "running", "none", row[t].round)
  BY <1>1, RowWrites
<1>3. CASE Claim(t)
  <2>1. /\ loop[t] = "none" /\ resuming[t] # "land"
        /\ ~(resuming[t] # "none" /\ t \notin disk)
    BY <1>3 DEF Claim, Fit, LoopFit, ResumeFit
  <2>2. Begun(t, "claim", "fresh")
    BY <1>1, <1>2, <1>3, <2>1 DEF Claim, Begin, Begun
  <2> QED BY <2>2, BegunFit DEF Turns
<1>4. ASSUME NEW turn \in Asked, HumanStarts(t, turn)
      PROVE  Inv'
  <2>1. Begun(t, "human", turn)
    BY <1>1, <1>2, <1>4 DEF HumanStarts, Begin, Begun
  <2> QED BY <2>1, BegunFit DEF AskedAssumption
<1> QED BY <1>3, <1>4

---------------------------------------------------------------------------
(* Gates and spawns *)

\* While a start is under way nothing else has the turn.
LEMMA Starting ==
    ASSUME Inv, NEW t \in Task, start[t].at \in {"gate", "stopped", "spawn"}
    PROVE  /\ start[t] # NoStart /\ start[t].turn \in Turns /\ session[t] = "none"
           /\ t \notin backoff /\ Status(t) \in {"running", "done"}
           /\ Status(t) = "running" =>
                /\ (Forced \/ due[t] = start[t].turn) /\ loop[t] = "none" /\ resuming[t] # "land"
                /\ resuming[t] # "none" /\ t \notin disk => start[t].by = "human"
           /\ Status(t) = "done" => (Forced \/ due[t] = "none") /\ row[t].mark = "none"
<1>1. Fit(t) /\ start[t] \in Starts /\ start[t] # NoStart
  BY DEF Inv, TypeOK, NoStart
<1>2. start[t].turn \in Turns
  BY <1>1 DEF Starts
<1>3. session[t] = "none" /\ Status(t) \in {"running", "done"}
  BY <1>1 DEF Fit, StartFit
<1> QED BY <1>1, <1>2, <1>3 DEF Fit, DueFit, MarkFit, BackoffFit, LoopFit, ResumeFit

\* A start that does not come through leaves its turn to Continue or the queue.
LEMMA HeldFit ==
    ASSUME Inv, NEW t \in Task, start[t].at \in {"gate", "stopped"},
           start' = [start EXCEPT ![t] = NoStart],
           UNCHANGED <<paused, sweep, session, disk, backoff, resuming, loop, due>>,
           \/ /\ Status(t) # "running" /\ row' = row
           \/ /\ Status(t) = "running" /\ paused
              /\ t \in disk \/ start[t].by # "human"
              /\ \/ start[t].turn = "fresh" /\ row' = Moved(row, t, "queued", "none")
                 \/ start[t].turn # "fresh" /\ row' = Moved(row, t, "review", start[t].turn)
    PROVE  Inv'
<1>1. /\ start[t] # NoStart /\ start[t].turn \in Turns /\ session[t] = "none"
      /\ t \notin backoff /\ Status(t) \in {"running", "done"}
      /\ Status(t) = "running" =>
           /\ (Forced \/ due[t] = start[t].turn) /\ loop[t] = "none" /\ resuming[t] # "land"
           /\ resuming[t] # "none" /\ t \notin disk => start[t].by = "human"
      /\ Status(t) = "done" => (Forced \/ due[t] = "none") /\ row[t].mark = "none"
  BY Starting
<1>2. /\ Fit(t) /\ start'[t] = NoStart /\ NoStart.at = "none" /\ NoStart \in Starts
      /\ start' \in [Task -> Starts] /\ \A u \in Task \ {t} : start'[u] = start[u]
  BY DEF Inv, TypeOK, NoStart, Starts
<1>3. \/ /\ Status(t) = "done" /\ Written(row', t, "done", "none", row[t].round)
      \/ /\ Status(t) = "running" /\ paused /\ resuming[t] # "none" => t \in disk
         /\ \/ start[t].turn = "fresh" /\ Written(row', t, "queued", "none", row[t].round)
            \/ /\ start[t].turn \in {"message", "publish"}
               /\ Written(row', t, "review", start[t].turn, row[t].round)
  <2>1. CASE Status(t) # "running"
    BY <1>1, <2>1, RowWrites DEF Inv, Status
  <2>2. CASE Status(t) = "running"
    BY <1>1, <2>2, RowWrites DEF Inv, Turns, Statuses, Marks
  <2> QED BY <2>1, <2>2
<1>4. TypeOK' /\ \A u \in Task \ {t} : Same(u)
  BY <1>2, <1>3 DEF Same, Written, Inv, TypeOK
<1>5. Fit(t)'
  <2>1. StartFit(t)' /\ MarkFit(t)'
    BY <1>1, <1>2, <1>3 DEF Fit, StartFit, MarkFit, Written, Status
  <2>2. DueFit(t)'
    BY <1>1, <1>2, <1>3 DEF DueFit, Carried, Written, Status
  <2>3. BackoffFit(t)' /\ LoopFit(t)'
    BY <1>1, <1>2, <1>3 DEF Fit, BackoffFit, LoopFit, Written, Status
  <2>4. ResumeFit(t)' /\ RoundFit(t)'
    BY <1>1, <1>2, <1>3 DEF Fit, ResumeFit, RoundFit, Written, Status
  <2> QED BY <2>1, <2>2, <2>3, <2>4 DEF Fit
<1> QED BY <1>4, <1>5, StepFit

LEMMA GatesFit ==
    ASSUME Inv, NEW t \in Task, GatePasses(t) \/ GateAborts(t)
    PROVE  Inv'
<1>1. CASE GateAborts(t)
  <2>1. paused /\ start[t].turn # "fresh" /\ t \in disk
    BY <1>1 DEF GateAborts, Inv, Fit, StartFit
  <2> QED BY <1>1, <2>1, HeldFit DEF GateAborts, PauseOwed
<1>2. CASE GatePasses(t) /\ ~(Status(t) = "running" /\ (~paused \/ start[t].by = "human"))
  BY <1>2, HeldFit DEF GatePasses, Unspawned, PauseOwed
<1>3. CASE GatePasses(t) /\ Status(t) = "running" /\ (~paused \/ start[t].by = "human")
  <2>1. /\ start' = [start EXCEPT ![t].at = "spawn"] /\ start[t].at = "gate"
        /\ UNCHANGED <<paused, sweep, row, session, disk, backoff, resuming, loop, due>>
    BY <1>3 DEF GatePasses
  <2>2. /\ start[t] # NoStart /\ Fit(t) /\ start[t] \in Starts /\ start \in [Task -> Starts]
    BY <2>1, Starting DEF Inv, TypeOK
  <2>3. /\ start'[t] = [start[t] EXCEPT !.at = "spawn"] /\ start'[t] \in Starts \ {NoStart}
        /\ start'[t].at = "spawn" /\ start'[t].by = start[t].by /\ start'[t].turn = start[t].turn
        /\ start' \in [Task -> Starts] /\ \A u \in Task \ {t} : start'[u] = start[u]
    BY <2>1, <2>2 DEF Starts, NoStart
  <2>4. TypeOK' /\ \A u \in Task \ {t} : Same(u)
    BY <2>1, <2>3 DEF Same, Inv, TypeOK
  <2>5. Fit(t)'
    BY <1>3, <2>1, <2>2, <2>3 DEF Fit, StartFit, DueFit, Carried, MarkFit, BackoffFit,
                                  LoopFit, ResumeFit, RoundFit, Status
  <2> QED BY <2>1, <2>4, <2>5, StepFit
<1> QED BY <1>1, <1>2, <1>3

\* The terminal is up: the turn is a session's now.
LEMMA SpawnsFit ==
    ASSUME Inv, NEW t \in Task, Spawns(t)
    PROVE  Inv'
<1> DEFINE does == IF start[t].turn = "publish" THEN "publish" ELSE "work"
<1>1. /\ Fit(t) /\ UNCHANGED <<paused, sweep, row, backoff, resuming, loop>>
      /\ start[t].at = "spawn" /\ does \in {"work", "publish"}
      /\ session' = [session EXCEPT ![t] = does] /\ due' = [due EXCEPT ![t] = does]
      /\ start' = [start EXCEPT ![t] = NoStart] /\ disk' = disk \cup {t}
  BY DEF Spawns, Inv
<1> HIDE DEF does
<1>2. Status(t) = "running" /\ t \notin backoff /\ loop[t] = "none" /\ resuming[t] # "land"
  BY <1>1, Starting DEF Fit, StartFit
<1>3. /\ start'[t] = NoStart /\ NoStart.at = "none" /\ NoStart \in Starts
      /\ due'[t] = does /\ session'[t] = does /\ t \in disk'
  BY <1>1 DEF Inv, TypeOK, NoStart, Starts
<1>4. TypeOK' /\ \A u \in Task \ {t} : Same(u)
  BY <1>1, <1>3 DEF Same, Inv, TypeOK, Turns
<1>5. Fit(t)'
  <2>1. StartFit(t)' /\ MarkFit(t)'
    BY <1>1, <1>2, <1>3 DEF Fit, StartFit, MarkFit, Status
  <2>2. DueFit(t)'
    BY <1>1, <1>2, <1>3 DEF DueFit, Carried, Status
  <2>3. BackoffFit(t)' /\ LoopFit(t)'
    BY <1>1, <1>2 DEF BackoffFit, LoopFit
  <2>4. ResumeFit(t)' /\ RoundFit(t)'
    BY <1>1, <1>2, <1>3 DEF Fit, ResumeFit, RoundFit, Status
  <2> QED BY <2>1, <2>2, <2>3, <2>4 DEF Fit
<1> QED BY <1>1, <1>4, <1>5, StepFit

---------------------------------------------------------------------------
(* Rounds and landings *)

\* A verdict is for a task at rest that is owed nothing: the row of it moves, or
\* a turn that takes the verdict up begins.
LEMMA LandsFit ==
    ASSUME Inv, NEW t \in Task,
           Status(t) = "review", start[t] = NoStart, Forced \/ due[t] = "none", t \notin backoff,
           UNCHANGED <<paused, sweep, disk>>,
           resuming' \in [Task -> Marks], \A u \in Task \ {t} : resuming'[u] = resuming[u],
           loop' \in [Task -> {"none", "runs", "cut"}], \A u \in Task \ {t} : loop'[u] = loop[u],
           loop'[t] = "none", resuming'[t] = "none",
           \/ Lands(t)
           \/ /\ row' = [Moved(row, t, "running", "none") EXCEPT ![t].round = "none"]
              /\ start' = [start EXCEPT ![t] = [at |-> "gate", by |-> "server", turn |-> "message"]]
              /\ session' = [session EXCEPT ![t] = "none"]
              /\ due' = [due EXCEPT ![t] = "message"]
              /\ UNCHANGED backoff
           \/ /\ paused /\ row[t].mark = "none"
              /\ row' = [row EXCEPT ![t].round = "pending"]
              /\ UNCHANGED <<start, session, backoff, due>>
    PROVE  Inv'
<1>1. /\ Fit(t) /\ row[t].mark \in Marks /\ row[t].status = "review"
      /\ "running" \in Statuses /\ "done" \in Statuses
      /\ "none" \in Marks /\ "land" \in Marks /\ "none" \in Rounds /\ "pending" \in Rounds
  BY DEF Inv, TypeOK, Rows, Status, Statuses, Marks, Rounds
<1>2. \A turn \in Turns : Written([Moved(row, t, "running", "none") EXCEPT ![t].round = "none"],
                                  t, "running", "none", "none")
  BY <1>1, RowWrites DEF Inv
<1>3. ASSUME NEW turn \in Turns,
             row' = [Moved(row, t, "running", "none") EXCEPT ![t].round = "none"],
             start' = [start EXCEPT ![t] = [at |-> "gate", by |-> "server", turn |-> turn]],
             session' = [session EXCEPT ![t] = "none"],
             due' = [due EXCEPT ![t] = turn], UNCHANGED backoff
      PROVE  Inv'
  <2>1. backoff' = backoff \ {t}
    BY <1>3 DEF Inv, TypeOK
  <2>2. \E round \in Rounds : Written(row', t, "running", "none", round)
    BY <1>1, <1>2, <1>3
  <2>3. Begun(t, "server", turn)
    BY <1>3, <2>1, <2>2 DEF Begun
  <2> QED BY <2>3, BegunFit
<1>4. ASSUME \/ Written(row', t, "review", "none", "none")
             \/ Written(row', t, "done", "none", "none")
             \/ paused /\ Written(row', t, "review", row[t].mark, "none")
             \/ paused /\ Written(row', t, "review", "land", "none")
             \/ paused /\ Written(row', t, "review", "none", "pending"),
             \/ session' = session /\ row'[t].status = "review"
             \/ session' = [session EXCEPT ![t] = "none"],
             due' \in {due, [due EXCEPT ![t] = "none"]}, UNCHANGED <<start, backoff>>
      PROVE  Inv'
  <2>1. TypeOK' /\ \A u \in Task \ {t} : Same(u)
    BY <1>4 DEF Same, Written, Inv, TypeOK
  <2>2. session'[t] \in {session[t], "none"} /\ due'[t] \in {due[t], "none"}
    BY <1>4 DEF Inv, TypeOK
  <2>3. StartFit(t)' /\ MarkFit(t)'
    BY <1>1, <1>4, <2>2 DEF Fit, StartFit, MarkFit, Written, Status, NoStart
  <2>4. DueFit(t)'
    BY <1>1, <1>4, <2>2 DEF Fit, StartFit, DueFit, Carried, Written, Status, NoStart
  <2>5. BackoffFit(t)' /\ LoopFit(t)' /\ ResumeFit(t)' /\ RoundFit(t)'
    BY <1>4, <2>2 DEF BackoffFit, LoopFit, ResumeFit, RoundFit, Written, Status
  <2> QED BY <2>1, <2>3, <2>4, <2>5, StepFit DEF Fit
<1>6. CASE Lands(t)
  <2>1. CASE /\ row' = [row EXCEPT ![t].round = "none", ![t].mark = IF paused THEN @ ELSE "none"]
             /\ UNCHANGED <<start, session, backoff, due>>
    <3> DEFINE mark == IF paused THEN row[t].mark ELSE "none"
    <3>1. mark \in Marks
      BY <1>1
    <3>2. row' = [row EXCEPT ![t].round = "none", ![t].mark = mark]
      BY <2>1 DEF Inv, TypeOK, Rows
    <3> HIDE DEF mark
    <3>3. Written([row EXCEPT ![t].round = "none", ![t].mark = mark], t, row[t].status, mark, "none")
      BY <1>1, <3>1, RoundMarkWrites DEF Inv
    <3> QED BY <1>1, <1>4, <2>1, <3>2, <3>3 DEF Written, mark
  <2>2. CASE /\ row' = [Moved(row, t, "done", "none") EXCEPT ![t].round = "none"]
             /\ session' = [session EXCEPT ![t] = "none"]
             /\ due' = [due EXCEPT ![t] = "none"]
             /\ UNCHANGED <<start, backoff>>
    <3>1. Written(row', t, "done", "none", "none")
      BY <1>1, <2>2, RowWrites DEF Inv
    <3> QED BY <1>4, <2>2, <3>1
  <2>3. CASE /\ paused
             /\ row' = [row EXCEPT ![t].round = "none", ![t].mark = "land"]
             /\ UNCHANGED <<start, session, backoff, due>>
    <3>1. Written([row EXCEPT ![t].round = "none", ![t].mark = "land"], t, row[t].status, "land", "none")
      BY <1>1, RoundMarkWrites DEF Inv
    <3> QED BY <1>1, <1>4, <2>3, <3>1 DEF Written
  <2> QED BY <1>3, <1>6, <2>1, <2>2, <2>3 DEF Lands, Turns
<1>7. CASE /\ paused /\ row[t].mark = "none"
           /\ row' = [row EXCEPT ![t].round = "pending"]
           /\ UNCHANGED <<start, session, backoff, due>>
  <2>1. Written(row', t, "review", "none", "pending")
    BY <1>1, <1>7, RowWrites DEF Inv
  <2> QED BY <1>4, <1>7, <2>1 DEF Written
<1> QED BY <1>3, <1>6, <1>7 DEF Turns

\* A round without a verdict is over, or waits for Continue.
LEMMA RoundGoesFit ==
    ASSUME Inv, NEW t \in Task, loop[t] # "none", loop' = [loop EXCEPT ![t] = "none"],
           UNCHANGED <<paused, sweep, start, session, disk, backoff, resuming, due>>,
           NEW round \in {"none", "pending"}, round = "pending" => paused,
           row' = [row EXCEPT ![t].round = round]
    PROVE  Inv'
<1>1. /\ Fit(t) /\ Status(t) \in {"review", "done"} /\ row[t].mark = "none"
      /\ Forced \/ due[t] = "none"
      /\ resuming[t] = "none" /\ t \notin backoff
  BY DEF Inv, Fit, LoopFit, BackoffFit
<1>2. Written(row', t, row[t].status, "none", round)
  BY <1>1, RowWrites DEF Inv, Rounds
<1>3. TypeOK' /\ \A u \in Task \ {t} : Same(u)
  BY <1>2 DEF Same, Written, Inv, TypeOK
<1>4. loop'[t] = "none"
  BY DEF Inv, TypeOK
<1>5. Fit(t)'
  <2>1. StartFit(t)' /\ MarkFit(t)' /\ DueFit(t)'
    BY <1>1, <1>2 DEF Fit, StartFit, MarkFit, DueFit, Carried, Written, Status
  <2>2. BackoffFit(t)' /\ LoopFit(t)' /\ ResumeFit(t)' /\ RoundFit(t)'
    BY <1>1, <1>2, <1>4 DEF BackoffFit, LoopFit, ResumeFit, RoundFit, Written, Status
  <2> QED BY <2>1, <2>2 DEF Fit
<1> QED BY <1>3, <1>5, StepFit

LEMMA RoundEndsFit ==
    ASSUME Inv, NEW t \in Task, RoundEnds(t)
    PROVE  Inv'
<1>1. /\ Fit(t) /\ UNCHANGED <<paused, sweep, disk, resuming>>
      /\ loop[t] # "none" /\ loop' = [loop EXCEPT ![t] = "none"]
  BY DEF Inv, RoundEnds
<1>2. /\ Status(t) \in {"review", "done"} /\ row[t].mark = "none"
      /\ Forced \/ due[t] = "none"
      /\ resuming[t] = "none" /\ t \notin backoff
  BY <1>1 DEF Fit, LoopFit, BackoffFit
<1>3. /\ loop' \in [Task -> {"none", "runs", "cut"}] /\ loop'[t] = "none"
      /\ \A u \in Task \ {t} : loop'[u] = loop[u]
      /\ resuming' \in [Task -> Marks] /\ resuming'[t] = "none"
      /\ \A u \in Task \ {t} : resuming'[u] = resuming[u]
  BY <1>1, <1>2 DEF Inv, TypeOK
<1>4. Status(t) = "review" => start[t] = NoStart
  BY <1>1 DEF Fit, StartFit
<1>5. CASE /\ Status(t) = "review"
           /\ \/ Lands(t)
              \/ /\ row' = [Moved(row, t, "running", "none") EXCEPT ![t].round = "none"]
                 /\ start' = [start EXCEPT ![t] = [at |-> "gate", by |-> "server", turn |-> "message"]]
                 /\ session' = [session EXCEPT ![t] = "none"]
                 /\ due' = [due EXCEPT ![t] = "message"]
                 /\ UNCHANGED backoff
  BY <1>1, <1>2, <1>3, <1>4, <1>5, LandsFit
<1>6. CASE /\ paused /\ row' = [row EXCEPT ![t].round = "pending"]
           /\ UNCHANGED <<start, session, backoff, due>>
  BY <1>1, <1>6, RoundGoesFit
<1>7. CASE row' = [row EXCEPT ![t].round = "none"] /\ UNCHANGED <<start, session, backoff, due>>
  BY <1>1, <1>7, RoundGoesFit
<1> QED BY <1>5, <1>6, <1>7 DEF RoundEnds

\* The landing a pause held decides, or finds that the task has moved on.
LEMMA LandingFit ==
    ASSUME Inv, NEW t \in Task, LandingEnds(t)
    PROVE  Inv'
<1>1. /\ Fit(t) /\ UNCHANGED <<paused, sweep, disk, loop>>
      /\ resuming[t] = "land" /\ resuming' = [resuming EXCEPT ![t] = "none"]
  BY DEF Inv, LandingEnds
<1>2. (Forced \/ due[t] = "none") /\ loop[t] = "none" /\ t \notin backoff
  BY <1>1 DEF Fit, ResumeFit, LoopFit, BackoffFit
<1>3. /\ resuming' \in [Task -> Marks] /\ resuming'[t] = "none"
      /\ \A u \in Task \ {t} : resuming'[u] = resuming[u]
      /\ loop' \in [Task -> {"none", "runs", "cut"}] /\ loop'[t] = "none"
      /\ \A u \in Task \ {t} : loop'[u] = loop[u]
  BY <1>1, <1>2 DEF Inv, TypeOK, Marks
<1>4. CASE Status(t) = "review" /\ row[t].round = "none" /\ start[t] = NoStart
  <2>1. Lands(t)
    BY <1>4 DEF LandingEnds
  <2> QED BY <1>1, <1>2, <1>3, <1>4, <2>1, LandsFit
<1>5. CASE ~(Status(t) = "review" /\ row[t].round = "none" /\ start[t] = NoStart)
  <2>1. UNCHANGED <<row, start, session, backoff, due>>
    BY <1>5 DEF LandingEnds
  <2>2. TypeOK' /\ \A u \in Task \ {t} : Same(u)
    BY <1>1, <1>3, <2>1 DEF Same, Inv, TypeOK
  <2>3. StartFit(t)' /\ DueFit(t)' /\ MarkFit(t)'
    BY <1>1, <2>1 DEF Fit, StartFit, DueFit, Carried, MarkFit, Status
  <2>4. BackoffFit(t)' /\ LoopFit(t)' /\ ResumeFit(t)' /\ RoundFit(t)'
    BY <1>1, <1>2, <1>3, <2>1 DEF Fit, BackoffFit, LoopFit, ResumeFit, RoundFit, Status
  <2> QED BY <1>1, <2>2, <2>3, <2>4, StepFit DEF Fit
<1> QED BY <1>4, <1>5

---------------------------------------------------------------------------
(* Resumes and retries *)

\* A resume sets out.
LEMMA ResumeFiresFit ==
    ASSUME Inv, NEW t \in Task, ResumeFires(t)
    PROVE  Inv'
<1>1. /\ Fit(t) /\ row[t].mark \in Marks \ {"none"} /\ resuming[t] = "none"
      /\ resuming' = [resuming EXCEPT ![t] = row[t].mark]
      /\ UNCHANGED <<paused, sweep, row, start, session, disk, backoff, loop, due>>
  BY DEF Inv, TypeOK, Rows, ResumeFires, Owed, Resuming
<1>2. /\ Status(t) = "review" /\ start[t] = NoStart /\ loop[t] = "none" /\ t \notin backoff
      /\ row[t].mark = "land" => Forced \/ due[t] = "none"
  BY <1>1 DEF Fit, StartFit, MarkFit, LoopFit, BackoffFit
<1>3. TypeOK' /\ \A u \in Task \ {t} : Same(u)
  BY <1>1 DEF Same, Inv, TypeOK
<1>4. resuming'[t] = row[t].mark
  BY <1>1 DEF Inv, TypeOK
<1>5. StartFit(t)' /\ DueFit(t)' /\ MarkFit(t)'
  BY <1>1 DEF Fit, StartFit, DueFit, Carried, MarkFit, Status
<1>6. BackoffFit(t)' /\ LoopFit(t)'
  BY <1>1, <1>2 DEF BackoffFit, LoopFit
<1>7. ResumeFit(t)' /\ RoundFit(t)'
  BY <1>1, <1>2, <1>4 DEF Fit, MarkFit, ResumeFit, RoundFit, Status
<1> QED BY <1>1, <1>3, <1>5, <1>6, <1>7, StepFit DEF Fit

\* Refused, a resume finds that its task has moved on, or that no session of it
\* is on disk, which takes a restart that caught its start.
LEMMA ResumeTurnFit ==
    ASSUME Inv, NEW t \in Task, ResumeTurn(t)
    PROVE  Inv'
<1>1. /\ Fit(t) /\ UNCHANGED <<paused, sweep, disk, loop>>
      /\ resuming[t] \in Turns \cup {"resume"} /\ resuming' = [resuming EXCEPT ![t] = "none"]
  BY DEF Inv, ResumeTurn
<1>2. loop[t] = "none" /\ resuming[t] \notin {"none", "land"}
  BY <1>1 DEF Fit, LoopFit, Turns
<1>3. /\ resuming' \in [Task -> Marks] /\ resuming'[t] = "none"
      /\ \A u \in Task \ {t} : resuming'[u] = resuming[u]
      /\ loop' \in [Task -> {"none", "runs", "cut"}] /\ loop'[t] = "none"
      /\ \A u \in Task \ {t} : loop'[u] = loop[u]
  BY <1>1, <1>2 DEF Inv, TypeOK, Marks
<1>4. CASE UNCHANGED <<row, start, session, backoff, due>>
  <2>1. TypeOK' /\ \A u \in Task \ {t} : Same(u)
    BY <1>1, <1>3, <1>4 DEF Same, Inv, TypeOK
  <2>2. StartFit(t)' /\ DueFit(t)' /\ MarkFit(t)'
    BY <1>1, <1>4 DEF Fit, StartFit, DueFit, Carried, MarkFit, Status
  <2>3. BackoffFit(t)' /\ LoopFit(t)' /\ ResumeFit(t)' /\ RoundFit(t)'
    BY <1>1, <1>3, <1>4 DEF Fit, BackoffFit, LoopFit, ResumeFit, RoundFit, Status
  <2> QED BY <1>1, <2>1, <2>2, <2>3, StepFit DEF Fit
<1>5. CASE /\ ~paused /\ Refused(t)
           /\ row' = [row EXCEPT ![t].mark = "none"]
           /\ UNCHANGED <<start, session, backoff, due>>
  <2>1. row[t].mark \in Marks
    BY DEF Inv, TypeOK, Rows
  <2>2. row[t].mark # "none" =>
          Forced /\ row[t].mark = "resume" /\ t \notin disk /\ row[t].round = "none" /\ Status(t) = "review"
    BY <1>1, <1>2, <1>5, <2>1 DEF Refused, Marks, Fit, StartFit, MarkFit, ResumeFit
  <2>3. Written(row', t, row[t].status, "none", row[t].round)
    BY <1>5, RowWrites DEF Inv, Marks
  <2>5. TypeOK' /\ \A u \in Task \ {t} : Same(u)
    BY <1>1, <1>3, <1>5, <2>3 DEF Same, Written, Inv, TypeOK
  <2>6. StartFit(t)' /\ MarkFit(t)'
    BY <1>1, <1>5, <2>3 DEF Fit, StartFit, MarkFit, Written, Status
  <2>7. DueFit(t)'
    BY <1>1, <1>5, <2>2, <2>3 DEF Fit, StartFit, DueFit, Carried, Written, Status
  <2>8. BackoffFit(t)' /\ LoopFit(t)'
    BY <1>1, <1>3, <1>5, <2>2, <2>3 DEF Fit, BackoffFit, LoopFit, Written, Status
  <2>9. ResumeFit(t)' /\ RoundFit(t)'
    BY <1>1, <1>3, <1>5, <2>2, <2>3 DEF Fit, ResumeFit, RoundFit, Written, Status
  <2> QED BY <1>1, <2>5, <2>6, <2>7, <2>8, <2>9, StepFit DEF Fit
<1>6. ASSUME NEW turn \in {"message", "publish"}, Begin(t, "resume", turn)
      PROVE  Inv'
  <2>1. row[t].round \in Rounds /\ "running" \in Statuses /\ "none" \in Marks
    BY DEF Inv, TypeOK, Rows, Rounds, Statuses, Marks
  <2>2. Written(Moved(row, t, "running", "none"), t, "running", "none", row[t].round)
    BY <2>1, RowWrites DEF Inv
  <2>3. Begun(t, "resume", turn)
    BY <1>1, <1>3, <1>6, <2>1, <2>2 DEF Begin, Begun
  <2> QED BY <1>6, <2>3, BegunFit DEF Turns
<1> QED BY <1>4, <1>5, <1>6 DEF ResumeTurn

\* A retry asks again in its terminal or a new one, or leaves the turn owed.
LEMMA BackoffFiresFit ==
    ASSUME Inv, NEW t \in Task, BackoffFires(t)
    PROVE  Inv'
<1>1. /\ Fit(t) /\ UNCHANGED <<paused, sweep, disk, resuming, loop>>
      /\ t \in backoff /\ backoff' = backoff \ {t}
  BY DEF Inv, BackoffFires, Begin
<1>2. /\ t \in disk /\ (Forced \/ due[t] = "work") /\ resuming[t] # "land" /\ loop[t] = "none"
      /\ \/ Status(t) = "running" /\ session[t] = "work"
         \/ Status(t) = "review" /\ session[t] = "none" /\ row[t].mark = "none"
      /\ start[t] = NoStart
  BY <1>1 DEF Fit, BackoffFit, LoopFit, StartFit
<1>3. CASE paused
  <2>1. Marked(t) = "resume" /\ (t \in Suspended <=> Status(t) = "running")
    BY <1>1, <1>2 DEF Marked, Suspended, Gates, NoStart
  <2>2. /\ row' = Moved(row, t, IF t \in Suspended THEN "review" ELSE row[t].status, Marked(t))
        /\ session' = [session EXCEPT ![t] = IF t \in Suspended THEN "dying" ELSE @]
        /\ UNCHANGED <<start, due>>
    BY <1>3 DEF BackoffFires, Moved
  <2>3. Written(row', t, "review", "resume", row[t].round)
    <3>1. (IF t \in Suspended THEN "review" ELSE row[t].status) = "review"
      BY <1>2, <2>1 DEF Status
    <3>2. row' = Moved(row, t, "review", "resume")
      BY <2>1, <2>2, <3>1
    <3>3. Written(Moved(row, t, "review", "resume"), t, "review", "resume", row[t].round)
      BY RowWrites DEF Inv, Statuses, Marks
    <3> QED BY <3>2, <3>3
  <2>4. session'[t] \in {"none", "dying"} /\ (session'[t] = "none" => session[t] = "none")
    BY <1>2, <2>1, <2>2 DEF Inv, TypeOK
  <2>5. TypeOK' /\ \A u \in Task \ {t} : Same(u)
    BY <1>1, <2>2, <2>3 DEF Same, Written, Inv, TypeOK
  <2>6. StartFit(t)' /\ MarkFit(t)'
    BY <1>1, <1>2, <1>3, <2>2, <2>3, <2>4 DEF StartFit, MarkFit, Written, Status, NoStart
  <2>7. DueFit(t)' /\ BackoffFit(t)' /\ LoopFit(t)'
    BY <1>1, <1>2, <2>2, <2>3, <2>4 DEF DueFit, Carried, BackoffFit, LoopFit, Written, Status
  <2>8. ResumeFit(t)' /\ RoundFit(t)'
    BY <1>1, <1>2, <1>3, <2>2, <2>3 DEF Fit, ResumeFit, RoundFit, Written, Status
  <2> QED BY <1>1, <2>5, <2>6, <2>7, <2>8, StepFit DEF Fit
<1>4. CASE session[t] = "work" /\ UNCHANGED <<row, start, session, due>>
  <2>1. TypeOK' /\ \A u \in Task \ {t} : Same(u)
    BY <1>1, <1>4 DEF Same, Inv, TypeOK
  <2>2. StartFit(t)' /\ DueFit(t)' /\ MarkFit(t)'
    BY <1>1, <1>4 DEF Fit, StartFit, DueFit, Carried, MarkFit, Status
  <2>3. BackoffFit(t)' /\ LoopFit(t)' /\ ResumeFit(t)' /\ RoundFit(t)'
    BY <1>1, <1>4 DEF Fit, BackoffFit, LoopFit, ResumeFit, RoundFit, Status
  <2> QED BY <1>1, <2>1, <2>2, <2>3, StepFit DEF Fit
<1>5. CASE Begin(t, "server", "message")
  <2>1. row[t].round \in Rounds /\ "running" \in Statuses /\ "none" \in Marks
    BY DEF Inv, TypeOK, Rows, Rounds, Statuses, Marks
  <2>2. Written(Moved(row, t, "running", "none"), t, "running", "none", row[t].round)
    BY <2>1, RowWrites DEF Inv
  <2>3. Begun(t, "server", "message")
    BY <1>1, <1>2, <1>5, <2>1, <2>2 DEF Begin, Begun, Inv, TypeOK
  <2> QED BY <2>3, BegunFit DEF Turns
<1> QED BY <1>3, <1>4, <1>5 DEF BackoffFires

---------------------------------------------------------------------------
(* Pause *)

\* A sweep leaves every turn it ends, and every armed retry, to Continue.
LEMMA SweepFit ==
    ASSUME Inv, SuspendSweep, paused', sweep' \in {"none", "waits"}, paused' \in BOOLEAN
    PROVE  Inv'
<1>1. PICK stop \in SUBSET {t \in Task : start[t].at = "gate" /\ start[t].turn # "fresh"
                                          /\ t \in disk} :
        start' = [t \in Task |-> IF t \in stop THEN [start[t] EXCEPT !.at = "stopped"]
                                 ELSE start[t]]
  BY DEF SuspendSweep
<1>2. ASSUME NEW t \in Task
      PROVE  /\ Marked(t) \in Marks
             /\ row'[t] = [row[t] EXCEPT !.status = IF t \in Suspended THEN "review" ELSE @,
                                         !.mark = Marked(t)]
             /\ row'[t] \in Rows /\ row'[t].round = row[t].round /\ row'[t].mark = Marked(t)
             /\ row'[t].status = IF t \in Suspended THEN "review" ELSE row[t].status
  <2>1. Marked(t) \in Marks
    BY DEF Marked, Marks, Inv, TypeOK, Rows
  <2>2. row'[t] = [row[t] EXCEPT !.status = IF t \in Suspended THEN "review" ELSE @,
                                 !.mark = Marked(t)]
    BY DEF SuspendSweep
  <2>3. row[t] \in Rows
    BY DEF Inv, TypeOK
  <2> QED BY <2>1, <2>2, <2>3 DEF Rows
<1>3. ASSUME NEW t \in Task
      PROVE  /\ start'[t] \in Starts /\ start'[t].by = start[t].by
             /\ start'[t].turn = start[t].turn /\ (start'[t] = NoStart <=> start[t] = NoStart)
             /\ \/ start'[t] = start[t]
                \/ /\ start'[t].at = "stopped" /\ start[t].at = "gate"
                   /\ start[t].turn # "fresh" /\ t \in disk
  <2>1. start[t] \in Starts
    BY DEF Inv, TypeOK
  <2>2. CASE t \in stop
    <3>1. start[t].at = "gate" /\ start[t].turn # "fresh" /\ t \in disk /\ start[t] # NoStart
      BY <2>2 DEF NoStart
    <3>2. start'[t] = [start[t] EXCEPT !.at = "stopped"]
      BY <1>1, <2>2
    <3> QED BY <2>1, <3>1, <3>2 DEF Starts, NoStart
  <2> QED BY <1>1, <2>1, <2>2
<1>4. ASSUME NEW t \in Task
      PROVE  /\ session'[t] = IF t \in Suspended THEN "dying" ELSE session[t]
             /\ loop'[t] \in {"none", "runs", "cut"} /\ (loop'[t] = "none" <=> loop[t] = "none")
             /\ t \in backoff' <=> t \in backoff /\ t \notin Suspended /\ Status(t) # "review"
             /\ disk' = disk /\ resuming' = resuming /\ due' = due
  BY DEF SuspendSweep, Inv, TypeOK
<1>5. TypeOK'
  <2>1. row' \in [Task -> Rows]
    BY <1>2 DEF SuspendSweep
  <2>2. start' \in [Task -> Starts]
    BY <1>1, <1>3
  <2>3. session' \in [Task -> {"none", "work", "publish", "idle", "dying"}]
    BY DEF SuspendSweep, Inv, TypeOK
  <2>4. loop' \in [Task -> {"none", "runs", "cut"}] /\ backoff' \in SUBSET Task
    BY DEF SuspendSweep, Inv, TypeOK
  <2> QED BY <2>1, <2>2, <2>3, <2>4 DEF SuspendSweep, Inv, TypeOK
<1>6. ASSUME NEW t \in Task
      PROVE  Fit(t)'
  <2> USE DEF Status
  <2>1. Fit(t)
    BY DEF Inv
  <2>2. /\ row'[t].status = IF t \in Suspended THEN "review" ELSE row[t].status
        /\ row'[t].mark = Marked(t) /\ row'[t].round = row[t].round
        /\ start'[t].turn = start[t].turn /\ start'[t].by = start[t].by
        /\ start'[t] = NoStart <=> start[t] = NoStart
        /\ \/ start'[t] = start[t]
           \/ start'[t].at = "stopped" /\ start[t].turn # "fresh" /\ t \in disk
    <3>1. /\ row'[t].status = IF t \in Suspended THEN "review" ELSE row[t].status
          /\ row'[t].mark = Marked(t) /\ row'[t].round = row[t].round
      BY <1>2
    <3>2. /\ start'[t].turn = start[t].turn /\ start'[t].by = start[t].by
          /\ start'[t] = NoStart <=> start[t] = NoStart
      BY <1>3
    <3>3. \/ start'[t] = start[t]
          \/ start'[t].at = "stopped" /\ start[t].turn # "fresh" /\ t \in disk
      BY <1>3
    <3> QED BY <3>1, <3>2, <3>3
  <2>3. /\ session'[t] = IF t \in Suspended THEN "dying" ELSE session[t]
        /\ loop'[t] = "none" <=> loop[t] = "none"
        /\ t \in backoff' <=> t \in backoff /\ t \notin Suspended /\ Status(t) # "review"
        /\ disk' = disk /\ resuming'[t] = resuming[t] /\ due'[t] = due[t]
    BY <1>4
  <2>4. CASE t \in Suspended
    <3>1. /\ Status(t) = "running" /\ session[t] \in {"work", "publish"} /\ start[t] = NoStart
          /\ t \in disk /\ loop[t] = "none" /\ resuming[t] # "land"
          /\ Forced \/ due[t] = session[t]
          /\ Marked(t) = IF session[t] = "publish" THEN "publish" ELSE "resume"
      BY <2>1, <2>4 DEF Suspended, Marked, Fit, StartFit, DueFit, LoopFit, ResumeFit
    <3>2. StartFit(t)' /\ MarkFit(t)'
      BY <2>2, <2>3, <2>4, <3>1 DEF StartFit, MarkFit, NoStart
    <3>3. DueFit(t)'
      BY <2>2, <2>3, <2>4, <3>1 DEF DueFit, Carried
    <3>4. BackoffFit(t)' /\ LoopFit(t)' /\ ResumeFit(t)' /\ RoundFit(t)'
      BY <2>2, <2>3, <2>4, <3>1 DEF BackoffFit, LoopFit, ResumeFit, RoundFit
    <3> QED BY <3>2, <3>3, <3>4 DEF Fit
  <2>5. CASE t \notin Suspended /\ t \in backoff
    <3>1. /\ Status(t) = "review" /\ session[t] = "none" /\ start[t] = NoStart
          /\ t \in disk /\ loop[t] = "none" /\ resuming[t] # "land"
          /\ Forced \/ due[t] = "work"
          /\ row[t].mark = "none"
      BY <2>1, <2>5 DEF Suspended, Gates, Fit, StartFit, BackoffFit, NoStart
    <3>2. Marked(t) = "resume"
      BY <2>5, <3>1 DEF Marked
    <3>3. StartFit(t)' /\ MarkFit(t)'
      BY <2>2, <2>3, <2>5, <3>1, <3>2 DEF StartFit, MarkFit, NoStart
    <3>4. DueFit(t)'
      BY <2>2, <2>3, <2>5, <3>1, <3>2 DEF DueFit, Carried
    <3>5. BackoffFit(t)' /\ LoopFit(t)' /\ ResumeFit(t)' /\ RoundFit(t)'
      BY <2>2, <2>3, <2>5, <3>1, <3>2 DEF BackoffFit, LoopFit, ResumeFit, RoundFit
    <3> QED BY <3>3, <3>4, <3>5 DEF Fit
  <2>6. CASE t \notin Suspended /\ t \notin backoff
    <3>1. Marked(t) = row[t].mark
      BY <2>6 DEF Marked
    <3>2. StartFit(t)' /\ MarkFit(t)'
      BY <2>2, <2>3, <2>1, <2>6, <3>1 DEF Fit, StartFit, MarkFit
    <3>3. DueFit(t)'
      BY <2>2, <2>3, <2>1, <2>6, <3>1 DEF Fit, DueFit, Carried
    <3>4. BackoffFit(t)' /\ LoopFit(t)'
      BY <2>2, <2>3, <2>1, <2>6, <3>1 DEF Fit, BackoffFit, LoopFit
    <3>5. ResumeFit(t)' /\ RoundFit(t)'
      BY <2>2, <2>3, <2>1, <2>6, <3>1 DEF Fit, ResumeFit, RoundFit
    <3> QED BY <3>2, <3>3, <3>4, <3>5 DEF Fit
  <2> QED BY <2>4, <2>5, <2>6
<1> QED BY <1>5, <1>6 DEF Inv

\* The drain form raises the flag alone, and nothing depends on it being down.
LEMMA DrainFit ==
    ASSUME Inv, Drain
    PROVE  Inv'
<1>1. TypeOK' /\ sweep' = sweep /\ paused' /\ \A t \in Task : Same(t)
  BY DEF Drain, Inv, TypeOK, Same
<1>2. ASSUME NEW t \in Task
      PROVE  Fit(t)'
  BY <1>1, FrameFit DEF Inv
<1> QED BY <1>1, <1>2 DEF Inv

---------------------------------------------------------------------------
(* Continue and the boot *)

\* Starting rounds again touches a row's round alone.
LEMMA RerunWrites ==
    ASSUME NEW r \in [Task -> Rows], NEW l \in [Task -> {"none", "runs", "cut"}], NEW away,
           ResumeVerifyRounds(r, l, away)
    PROVE  /\ row' \in [Task -> Rows] /\ loop' \in [Task -> {"none", "runs", "cut"}]
           /\ \A t \in Task :
                /\ row'[t].status = r[t].status /\ row'[t].mark = r[t].mark
                /\ row'[t].round = IF t \in Rerun(r, l, away) THEN "reviewing" ELSE r[t].round
                /\ loop'[t] = IF t \in Rerun(r, l, away) THEN "runs" ELSE l[t]
<1>1. ASSUME NEW t \in Task
      PROVE  /\ row'[t] \in Rows
             /\ row'[t].status = r[t].status /\ row'[t].mark = r[t].mark
             /\ row'[t].round = IF t \in Rerun(r, l, away) THEN "reviewing" ELSE r[t].round
             /\ loop'[t] = IF t \in Rerun(r, l, away) THEN "runs" ELSE l[t]
  <2>1. row'[t] = IF t \in Rerun(r, l, away) THEN [r[t] EXCEPT !.round = "reviewing"] ELSE r[t]
    BY DEF ResumeVerifyRounds
  <2>2. loop'[t] = IF t \in Rerun(r, l, away) THEN "runs" ELSE l[t]
    BY DEF ResumeVerifyRounds
  <2>3. r[t] \in Rows
    OBVIOUS
  <2> QED BY <2>1, <2>2, <2>3 DEF Rows
<1>2. row' \in [Task -> Rows]
  BY <1>1 DEF ResumeVerifyRounds
<1>3. loop' \in [Task -> {"none", "runs", "cut"}]
  BY <1>1 DEF ResumeVerifyRounds
<1> QED BY <1>1, <1>2, <1>3

\* A parked task with no marker and no armed retry is owed nothing.
LEMMA NothingDue ==
    ASSUME NEW t \in Task, Fit(t), Status(t) \in {"review", "done"}, row[t].mark = "none",
           t \notin backoff, due[t] \in Turns \cup {"none", "work"}
    PROVE  Forced \/ due[t] = "none"
<1>1. /\ session[t] \notin {"work", "publish"}
      /\ Status(t) = "review" => start[t] = NoStart
      /\ Forced \/ ((Status(t) = "done" => due[t] = "none") /\ Carried(t))
  BY DEF Fit, StartFit, DueFit
<1> QED BY <1>1 DEF Carried, Turns, NoStart

\* Continue after the wind-down: every round that is due runs, or waits for a
\* marker, since a task whose owed turn is on its way has none.
LEMMA ContinueFit ==
    ASSUME Inv, Continue, WoundDown
    PROVE  Inv'
<1>1. /\ ~paused' /\ paused' \in BOOLEAN /\ sweep = "none"
      /\ ResumeVerifyRounds(row, loop, Resuming)
      /\ UNCHANGED <<sweep, start, session, disk, backoff, resuming, due>>
  BY DEF Continue, WoundDown
<1>2. /\ row' \in [Task -> Rows] /\ loop' \in [Task -> {"none", "runs", "cut"}]
      /\ \A t \in Task :
           /\ row'[t].status = row[t].status /\ row'[t].mark = row[t].mark
           /\ row'[t].round = IF t \in Rerun(row, loop, Resuming) THEN "reviewing"
                              ELSE row[t].round
           /\ loop'[t] = IF t \in Rerun(row, loop, Resuming) THEN "runs" ELSE loop[t]
  BY <1>1, RerunWrites DEF Inv, TypeOK
<1>3. TypeOK'
  BY <1>1, <1>2 DEF Inv, TypeOK
<1>4. ASSUME NEW t \in Task
      PROVE  Fit(t)'
  <2> USE DEF Status
  <2>1. Fit(t) /\ session[t] # "dying" /\ start[t].at # "stopped"
    BY DEF Inv, WoundDown
  <2>2. /\ row'[t].status = row[t].status /\ row'[t].mark = row[t].mark
        /\ start'[t] = start[t] /\ session'[t] = session[t] /\ resuming'[t] = resuming[t]
        /\ due'[t] = due[t] /\ disk' = disk /\ backoff' = backoff
    BY <1>1, <1>2
  <2>3. CASE t \in Rerun(row, loop, Resuming)
    <3>1. /\ row[t].status \in {"review", "done"} /\ row[t].round # "none"
          /\ row[t].mark = "none" /\ resuming[t] = "none"
      BY <2>3 DEF Rerun, Resuming
    <3>2. t \notin backoff
      BY <2>1, <3>1 DEF Fit, BackoffFit
    <3>3. Forced \/ due[t] = "none"
      BY <2>1, <3>1, <3>2, NothingDue DEF Inv, TypeOK
    <3>4. row'[t].round # "none" /\ loop'[t] = "runs"
      BY <1>2, <2>3
    <3>5. StartFit(t)' /\ MarkFit(t)' /\ DueFit(t)'
      BY <2>1, <2>2, <3>1, <3>3 DEF Fit, StartFit, MarkFit, DueFit, Carried
    <3>6. BackoffFit(t)' /\ LoopFit(t)' /\ ResumeFit(t)' /\ RoundFit(t)'
      BY <2>2, <3>1, <3>2, <3>3, <3>4 DEF BackoffFit, LoopFit, ResumeFit, RoundFit
    <3> QED BY <3>5, <3>6 DEF Fit
  <2>4. CASE t \notin Rerun(row, loop, Resuming)
    <3>1. row'[t].round = row[t].round /\ loop'[t] = loop[t]
      BY <1>2, <2>4
    <3>2. row[t].round # "none" /\ Status(t) = "review" => loop[t] # "none" \/ row[t].mark # "none"
      <4>1. SUFFICES ASSUME row[t].round # "none", Status(t) = "review", loop[t] = "none",
                            row[t].mark = "none"
                     PROVE  FALSE
        OBVIOUS
      <4>2. t \in Resuming
        BY <2>4, <4>1 DEF Rerun
      <4>3. start[t] = NoStart
        BY <2>1, <4>1 DEF Fit, StartFit
      <4>4. resuming[t] # "none"
        BY <4>2, <4>3 DEF Resuming, NoStart
      <4> QED BY <2>1, <4>1, <4>4 DEF Fit, ResumeFit
    <3>3. StartFit(t)' /\ MarkFit(t)' /\ DueFit(t)'
      BY <2>1, <2>2, <3>1 DEF Fit, StartFit, MarkFit, DueFit, Carried
    <3>4. BackoffFit(t)' /\ LoopFit(t)' /\ ResumeFit(t)' /\ RoundFit(t)'
      BY <2>1, <2>2, <3>1, <3>2 DEF Fit, BackoffFit, LoopFit, ResumeFit, RoundFit
    <3> QED BY <3>3, <3>4 DEF Fit
  <2> QED BY <2>3, <2>4
<1> QED BY <1>1, <1>3, <1>4 DEF Inv

\* What the boot writes to the rows of turns that were cut.
LEMMA BootWrites ==
    ASSUME TypeOK
    PROVE  /\ BootRow \in [Task -> Rows]
           /\ \A t \in Task :
                /\ Status(t) # "running" =>
                     /\ BootRow[t].status = Status(t) /\ BootRow[t].mark = row[t].mark
                     /\ BootRow[t].round = row[t].round
                /\ Status(t) = "running" =>
                     /\ BootRow[t].status = "review" /\ BootRow[t].round = "none"
                     /\ BootRow[t].mark = IF OwedAtBoot(t) THEN BootMark(t) ELSE "none"
<1>1. ASSUME NEW t \in Task
      PROVE  /\ BootRow[t] \in Rows
             /\ Status(t) # "running" =>
                  /\ BootRow[t].status = Status(t) /\ BootRow[t].mark = row[t].mark
                  /\ BootRow[t].round = row[t].round
             /\ Status(t) = "running" =>
                  /\ BootRow[t].status = "review" /\ BootRow[t].round = "none"
                  /\ BootRow[t].mark = IF OwedAtBoot(t) THEN BootMark(t) ELSE "none"
  <2>1. row[t] \in Rows /\ BootMark(t) \in {"publish", "resume"}
    BY DEF TypeOK, BootMark
  <2>2. CASE Status(t) # "running"
    <3>1. BootRow[t] = row[t]
      BY <2>2 DEF BootRow
    <3> QED BY <2>1, <2>2, <3>1 DEF Status
  <2>3. CASE Status(t) = "running"
    <3>1. BootRow[t] = [status |-> "review", round |-> "none",
                        mark |-> IF OwedAtBoot(t) THEN BootMark(t) ELSE "none"]
      BY <2>3 DEF BootRow
    <3> QED BY <2>1, <2>3, <3>1 DEF Rows, Marks
  <2> QED BY <2>2, <2>3
<1>2. BootRow \in [Task -> Rows]
  BY <1>1 DEF BootRow
<1> QED BY <1>1, <1>2

\* The boot finds only the rows and the sessions on disk, and owes what it can.
LEMMA RestartFit ==
    ASSUME Inv, Restart
    PROVE  Inv'
<1> DEFINE idle == [t \in Task |-> "none"]
           again == IF paused THEN {} ELSE Rerun(BootRow, idle, {})
<1>1. /\ UNCHANGED <<paused, disk>> /\ sweep' = "none" /\ backoff' = {}
      /\ start' = [t \in Task |-> NoStart]
      /\ session' = idle /\ resuming' = idle
  BY DEF Restart
<1>2. /\ BootRow \in [Task -> Rows] /\ idle \in [Task -> {"none", "runs", "cut"}]
      /\ idle \in [Task -> Marks]
      /\ idle \in [Task -> {"none", "work", "publish", "idle", "dying"}]
      /\ NoStart \in Starts /\ NoStart.at = "none" /\ NoStart.turn = "none"
      /\ \A t \in Task : idle[t] = "none"
  BY BootWrites DEF Inv, Marks, Starts, NoStart
<1>3. /\ row' \in [Task -> Rows] /\ loop' \in [Task -> {"none", "runs", "cut"}]
      /\ \A t \in Task :
           /\ row'[t].status = BootRow[t].status /\ row'[t].mark = BootRow[t].mark
           /\ row'[t].round = IF t \in again THEN "reviewing" ELSE BootRow[t].round
           /\ loop'[t] = IF t \in again THEN "runs" ELSE "none"
  <2>1. CASE paused
    BY <1>2, <2>1 DEF Restart
  <2>2. CASE ~paused
    <3>1. ResumeVerifyRounds(BootRow, idle, {})
      BY <2>2 DEF Restart
    <3> HIDE DEF idle
    <3> QED BY <1>2, <2>2, <3>1, RerunWrites
  <2> QED BY <2>1, <2>2
<1> HIDE DEF idle
<1>4. ASSUME NEW t \in Task
      PROVE  due'[t] = IF paused \/ row[t].mark # "none" \/ Status(t) = "queued" THEN due[t]
                       ELSE "none"
  BY DEF Restart, Owed
<1>5. TypeOK'
  <2>1. due' \in [Task -> Turns \cup {"none", "work"}]
    BY DEF Restart, Inv, TypeOK
  <2>2. start' \in [Task -> Starts]
    BY <1>1, <1>2
  <2> QED BY <1>1, <1>2, <1>3, <2>1, <2>2 DEF Inv, TypeOK
<1>6. ASSUME NEW t \in Task
      PROVE  Fit(t)'
  <2> USE DEF Status
  <2>1. Fit(t)
    BY DEF Inv
  <2>2. /\ row'[t].status = BootRow[t].status /\ row'[t].mark = BootRow[t].mark
        /\ row'[t].round = IF t \in again THEN "reviewing" ELSE BootRow[t].round
        /\ loop'[t] = IF t \in again THEN "runs" ELSE "none"
        /\ start'[t] = NoStart /\ NoStart.at = "none" /\ NoStart.turn = "none"
        /\ session'[t] = "none" /\ resuming'[t] = "none"
        /\ t \notin backoff' /\ disk' = disk /\ paused' = paused
    BY <1>1, <1>2, <1>3
  <2>3. t \in again <=> /\ ~paused /\ BootRow[t].status \in {"review", "done"}
                        /\ BootRow[t].round # "none" /\ BootRow[t].mark = "none"
    BY <1>2 DEF Rerun
  <2>4. StartFit(t)' /\ BackoffFit(t)' /\ ResumeFit(t)'
    BY <2>2 DEF StartFit, BackoffFit, ResumeFit
  <2>7. paused /\ ~Forced =>
          start[t] = NoStart /\ (t \in backoff => session[t] = "work" /\ Status(t) = "running")
    BY <2>1 DEF Restart, Caught, Fit, BackoffFit
  <2>5. CASE Status(t) = "running"
    <3>1. /\ row'[t].status = "review" /\ row'[t].round = "none" /\ loop'[t] = "none"
          /\ row'[t].mark = IF OwedAtBoot(t) THEN BootMark(t) ELSE "none"
      BY <2>2, <2>3, <2>5, BootWrites DEF Inv
    <3>2. BootMark(t) \in {"publish", "resume"} /\ row[t].mark = "none"
      BY <2>1, <2>5 DEF BootMark, Fit, MarkFit
    <3>3. ASSUME ~Forced, due'[t] # "none"
          PROVE  /\ paused /\ OwedAtBoot(t) /\ due'[t] \in {"work", "publish"}
                 /\ BootMark(t) = IF due'[t] = "publish" THEN "publish" ELSE "resume"
      <4>1. paused /\ due'[t] = due[t]
        BY <1>4, <2>5, <3>2, <3>3
      <4>2. /\ start[t] = NoStart /\ (t \in backoff => session[t] = "work")
            /\ Carried(t) /\ (session[t] \in {"work", "publish"} => due[t] = session[t])
            /\ session[t] # "none" => t \in disk
        BY <2>1, <2>7, <3>3, <4>1 DEF Fit, StartFit, DueFit
      <4>3. due[t] \in Turns \cup {"none", "work"}
        BY DEF Inv, TypeOK
      <4>4. session[t] \in {"work", "publish"} /\ due[t] = session[t]
        BY <1>2, <2>5, <3>2, <3>3, <4>1, <4>2, <4>3 DEF Carried, Turns
      <4> QED BY <1>2, <2>5, <4>1, <4>2, <4>4 DEF OwedAtBoot, BootMark
    <3>6. ASSUME ~Forced, OwedAtBoot(t)
          PROVE  t \in disk
      BY <1>2, <2>1, <2>7, <3>6 DEF OwedAtBoot, Fit, StartFit
    <3>4. DueFit(t)' /\ MarkFit(t)'
      BY <2>2, <3>1, <3>2, <3>3, <3>6 DEF DueFit, Carried, MarkFit
    <3>5. LoopFit(t)' /\ RoundFit(t)'
      BY <3>1 DEF LoopFit, RoundFit
    <3> QED BY <2>4, <3>4, <3>5 DEF Fit
  <2>6. CASE Status(t) # "running"
    <3>1. /\ row'[t].status = Status(t) /\ row'[t].mark = row[t].mark
          /\ BootRow[t].status = Status(t) /\ BootRow[t].round = row[t].round
          /\ row[t].status \in Statuses
      BY <2>2, <2>6, BootWrites DEF Inv, TypeOK, Rows, Statuses
    <3>3. Forced \/ Carried(t)'
      <4>1. /\ session[t] \notin {"work", "publish"}
            /\ t \in backoff => row[t].mark = "none" /\ Status(t) = "review"
            /\ row[t].mark # "none" => Status(t) = "review"
            /\ Status(t) \in {"queued", "review"} => start[t].turn = "none"
        BY <1>2, <2>1, <2>6 DEF Fit, StartFit, MarkFit, BackoffFit
      <4> QED BY <1>2, <1>4, <2>1, <2>2, <2>6, <2>7, <3>1, <4>1 DEF Fit, DueFit, Carried
    <3>4. DueFit(t)' /\ MarkFit(t)'
      BY <1>4, <2>1, <2>2, <2>3, <3>1, <3>3 DEF Fit, DueFit, MarkFit
    <3>5. LoopFit(t)' /\ RoundFit(t)'
      BY <1>4, <2>2, <2>3, <3>1 DEF LoopFit, RoundFit
    <3> QED BY <2>4, <3>4, <3>5 DEF Fit
  <2> QED BY <2>5, <2>6
<1> QED BY <1>1, <1>5, <1>6 DEF Inv

---------------------------------------------------------------------------
(* Theorems *)

LEMMA InitFit == Init => Inv
<1> SUFFICES ASSUME Init PROVE Inv
  OBVIOUS
<1>1. TypeOK
  BY DEF Init, TypeOK, Rows, Starts, Marks
<1>2. ASSUME NEW t \in Task
      PROVE  Fit(t)
  BY DEF Init, NoStart, Fit, StartFit, DueFit, Carried, MarkFit, BackoffFit, LoopFit,
         ResumeFit, RoundFit, Status
<1> QED BY <1>1, <1>2 DEF Inv, Init

\* Continue is pressed when what the pause cut has wound down, and humans ask
\* for turns there are.
LEMMA NextFit ==
    ASSUME AskedAssumption, ~Hurried, Inv, [Next]_vars
    PROVE  Inv'
<1>1. CASE Pause
  <2>1. SuspendSweep /\ paused' = TRUE /\ sweep' \in {"none", "waits"}
    BY <1>1 DEF Pause
  <2> QED BY <2>1, SweepFit
<1>2. CASE PauseEnds
  <2>1. SuspendSweep /\ paused' = paused /\ sweep' = "none" /\ paused /\ paused \in BOOLEAN
    BY <1>2 DEF PauseEnds, Inv, TypeOK
  <2> QED BY <2>1, SweepFit
<1>3. CASE Drain
  BY <1>3, DrainFit
<1>4. CASE Continue
  <2>1. WoundDown
    BY <1>4 DEF Continue
  <2> QED BY <1>4, <2>1, ContinueFit
<1>5. CASE Restart
  BY <1>5, RestartFit
<1>6. ASSUME NEW t \in Task, ServerStep(t)
      PROVE  Inv'
  BY <1>6, ClaimFit, GatesFit, SpawnsFit, RoundEndsFit, ResumeFiresFit, ResumeTurnFit,
     LandingFit, BackoffFiresFit DEF ServerStep
<1>7. ASSUME NEW t \in Task, AgentStep(t)
      PROVE  Inv'
  BY <1>7, StopFit, PublishFit, DiesFit, ApiFailsFit DEF AgentStep
<1>8. ASSUME NEW t \in Task, HumanStep(t)
      PROVE  Inv'
  BY <1>8, HumanMovesFit, ClaimFit DEF HumanStep
<1>9. CASE UNCHANGED vars
  <2>1. TypeOK' /\ UNCHANGED <<sweep, paused>> /\ \A t \in Task : Same(t)
    BY <1>9 DEF vars, Inv, TypeOK, Same
  <2>2. ASSUME NEW t \in Task
        PROVE  Fit(t)'
    BY <2>1, FrameFit DEF Inv
  <2> QED BY <2>1, <2>2 DEF Inv
<1> QED BY <1>1, <1>2, <1>3, <1>4, <1>5, <1>6, <1>7, <1>8, <1>9 DEF Next

\* The places of a turn go together in every state, whatever a pause cuts.
THEOREM Invariance ==
    ASSUME AskedAssumption, ~Hurried
    PROVE  Spec => []Inv
<1>1. Inv /\ [Next]_vars => Inv'
  BY NextFit
<1> QED BY InitFit, <1>1, PTL DEF Spec

\* Only a claim makes a start of the scheduler's.
LEMMA OnlyClaims ==
    ASSUME Inv, Next, NEW t \in Task, start[t].by # "claim", start'[t].by = "claim"
    PROVE  Claim(t)
<1>1. start \in [Task -> Starts] /\ NoStart.by = "none"
  BY DEF Inv, TypeOK, NoStart
<1>2. start' # start
  OBVIOUS
<1>3. ASSUME NEW u \in Task
      PROVE  /\ start' # [start EXCEPT ![u] = NoStart]
             /\ start' # [start EXCEPT ![u].at = "spawn"]
             /\ \A by \in {"human", "server", "resume"} : \A turn :
                   start' # [start EXCEPT ![u] = [at |-> "gate", by |-> by, turn |-> turn]]
  <2>1. start' # [start EXCEPT ![u] = NoStart]
    BY <1>1
  <2>2. ASSUME start' = [start EXCEPT ![u].at = "spawn"]
        PROVE  FALSE
    <3>1. start[t] \in Starts
      BY <1>1
    <3>2. [start[t] EXCEPT !.at = "spawn"].by = start[t].by
      BY <3>1 DEF Starts, NoStart
    <3>3. start'[t] = start[t] \/ start'[t] = [start[t] EXCEPT !.at = "spawn"]
      BY <1>1, <2>2
    <3> QED BY <3>2, <3>3
  <2>3. ASSUME NEW by \in {"human", "server", "resume"}, NEW turn,
               start' = [start EXCEPT ![u] = [at |-> "gate", by |-> by, turn |-> turn]]
        PROVE  FALSE
    <3> DEFINE new == [at |-> "gate", by |-> by, turn |-> turn]
    <3>1. new.by = by /\ start' = [start EXCEPT ![u] = new]
      BY <2>3
    <3> HIDE DEF new
    <3> QED BY <1>1, <3>1
  <2> QED BY <2>1, <2>2, <2>3
<1>4. ~SuspendSweep
  <2>1. SUFFICES ASSUME SuspendSweep PROVE FALSE
    OBVIOUS
  <2>2. start'[t] = start[t] \/ start'[t] = [start[t] EXCEPT !.at = "stopped"]
    BY <2>1 DEF SuspendSweep
  <2>3. start[t] \in Starts
    BY <1>1
  <2>4. [start[t] EXCEPT !.at = "stopped"].by = start[t].by
    BY <2>3 DEF Starts, NoStart
  <2> QED BY <2>2, <2>4
<1>5. ~Restart
  BY <1>1 DEF Restart
<1>6. ASSUME NEW u \in Task, ServerStep(u)
      PROVE  Claim(u)
  <2>1. ~GatePasses(u) /\ ~GateAborts(u) /\ ~Spawns(u) /\ ~ResumeFires(u)
    BY <1>2, <1>3 DEF GatePasses, GateAborts, Spawns, ResumeFires
  <2>2. ~RoundEnds(u) /\ ~LandingEnds(u)
    BY <1>2, <1>3 DEF RoundEnds, LandingEnds, Lands
  <2>3. ~ResumeTurn(u) /\ ~BackoffFires(u)
    BY <1>2, <1>3 DEF ResumeTurn, BackoffFires, Begin
  <2> QED BY <1>6, <2>1, <2>2, <2>3 DEF ServerStep
<1>7. ASSUME NEW u \in Task
      PROVE  ~AgentStep(u) /\ ~HumanStep(u)
  BY <1>2, <1>3 DEF AgentStep, StopArrives, PublishEnds, Dies, ApiFails, Gone,
                    HumanStep, HumanMoves, HumanStarts, Begin
<1>8. PICK u \in Task : Claim(u)
  BY <1>2, <1>4, <1>5, <1>6, <1>7 DEF Next, Pause, PauseEnds, Drain, Continue
<1>9. u = t
  BY <1>1, <1>8 DEF Claim, Begin
<1> QED BY <1>8, <1>9

\* A task that does not hold its repository has no turn that was cut.
LEMMA NotCut ==
    ASSUME Inv, ~Forced, NEW u \in Task, ~HoldsRepo(u)
    PROVE  due[u] \in {"none", "fresh"} \/ u \in backoff
<1>1. /\ Fit(u) /\ row[u].status \in Statuses /\ due[u] \in Turns \cup {"none", "work"}
      /\ Status(u) # "running" /\ row[u].mark = "none"
  BY DEF Inv, TypeOK, Rows, Statuses, HoldsRepo, Owed
<1>2. CASE Status(u) \in {"review", "done"}
  BY <1>1, <1>2, NothingDue
<1>3. CASE Status(u) = "queued"
  <2>1. start[u] = NoStart /\ session[u] \notin {"work", "publish"} /\ Carried(u)
    BY <1>1, <1>3 DEF Fit, StartFit, DueFit
  <2> QED BY <1>1, <1>3, <2>1 DEF Carried, Turns, NoStart
<1> QED BY <1>1, <1>2, <1>3 DEF Statuses, Status

\* Rows, starts, terminals, retries, resumes and rounds keep to their values
\* (PauseAll, as MCParts composes it).
THEOREM Typed ==
    ASSUME AskedAssumption, ~Hurried
    PROVE  Spec => []TypeOK
<1>1. Inv => TypeOK
  BY DEF Inv
<1> QED BY <1>1, Invariance, PTL

\* No pause loses a turn that was given: in whatever phase it is cut, a start, a
\* terminal, a retry, the queue or a marker carries it on, through second pauses
\* and restarts (pauseOwed, suspendTask, reconcilePausedBoot).
THEOREM TurnsSurvive ==
    ASSUME AskedAssumption, ~Hurried, ~Forced
    PROVE  Spec => []TurnKept
<1>1. Inv => TurnKept
  BY DEF Inv, Fit, DueFit, TurnKept
<1> QED BY <1>1, Invariance, PTL

\* Outside a pause no round that is due is forgotten: somebody runs it, or the
\* task is owed a turn first (resumeVerifyRounds).
THEOREM RoundsSurvive ==
    ASSUME AskedAssumption, ~Hurried
    PROVE  Spec => []RoundKept
<1>1. Inv => RoundKept
  BY DEF Inv, Fit, RoundFit, RoundKept, Owed
<1> QED BY <1>1, Invariance, PTL

\* No claim takes a checkout in which a turn that was cut waits (heldBy), but
\* that of a retry, which does not hold it.
THEOREM CutWorkStays ==
    ASSUME AskedAssumption, ~Hurried, ~Forced
    PROVE  Spec => CutWorkUndisturbed
<1> DEFINE Stays == \A t, u \in Task :
             start[t].by # "claim" /\ start'[t].by = "claim" /\ t # u /\ RepoOf[t] = RepoOf[u]
               => due[u] \in {"none", "fresh"} \/ u \in backoff
<1>1. Inv /\ [Next]_vars => (start' # start => Stays)
  <2>1. SUFFICES ASSUME Inv, Next, NEW t \in Task, NEW u \in Task,
                        start[t].by # "claim", start'[t].by = "claim",
                        t # u, RepoOf[t] = RepoOf[u]
                 PROVE  due[u] \in {"none", "fresh"} \/ u \in backoff
    BY DEF vars
  <2>2. ~HoldsRepo(u)
    BY <2>1, OnlyClaims DEF Claim
  <2> QED BY <2>1, <2>2, NotCut
<1>2. Inv /\ [Next]_vars => [start' # start => Stays]_vars
  BY <1>1
<1> HIDE DEF Stays
<1>3. Spec => [][start' # start => Stays]_vars
  BY <1>2, Invariance, PTL DEF Spec
<1> QED BY <1>3 DEF CutWorkUndisturbed, Stays
=============================================================================
