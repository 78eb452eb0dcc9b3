-------------------------- MODULE VerifyLoop_proofs --------------------------
(***************************************************************************)
(* Theorems about the verify loop, for any changes, budgets and switches.  *)
(*                                                                         *)
(* What is landed was judged: AliveInv and LandInv follow a pass from its  *)
(* start to its end.  The text a pass read is the text of the task as long *)
(* as the task has stayed parked and no Stop has joined the round, since   *)
(* only a turn edits and only a Stop parks.  That is why LandInv speaks of *)
(* runs without a pause and without a session that ends with code 0 in its *)
(* turn, the two other ways into review, and without a turn that fits into *)
(* a stage the reading of which is not looked at again.                    *)
(***************************************************************************)
EXTENDS VerifyLoop, TLAPS

---------------------------------------------------------------------------
(* Types *)

Statuses == {"queued", "running", "review", "done", "landed", "failed"}
Marks == {"none", "land", "turn"}
Found == {"none", "passed", "flagged", "error"}
Results == {"none", "green", "red", "error"}
Hashes == Content \cup {Nothing}

Rows == [status : Statuses, mark : Marks,
         review : ReviewStates, verdict : Found, reviewed : Hashes,
         checks : CheckStates, results : Results, checked : Hashes]

AtStages == {"none", "start", "checks", "checked", "review", "cut", "end", "lands"}
Loops == [at : AtStages, forced : BOOLEAN, hash : Content \cup {NoChange, Nothing}]
Budgets == [review : 0 .. ReviewRounds, checks : 0 .. CheckRounds, hash : Hashes]
Judgements == [clean : SUBSET Content, green : SUBSET Content]

\* What a check or a reviewer reads is a change, and not the empty one.
Reads == loop.at \in {"checks", "review", "cut"} => loop.hash \in Content

\* TypeOK alone is not inductive: a verdict is written over what was read.
TypeInv ==
    /\ row \in Rows /\ tree \in Content \cup {NoChange}
    /\ loop \in Loops /\ recheck \in BOOLEAN /\ fixes \in Budgets
    /\ idle \in BOOLEAN /\ paused \in BOOLEAN /\ judged \in Judgements
    /\ Reads

---------------------------------------------------------------------------
(* No round is left alone *)

\* Where the marks of a row may stand while the loop is at a stage.
Stages ==
    /\ loop.at = "checks" => row.checks = "running"
    /\ loop.at = "checked" => ~ChecksDue
    /\ loop.at \in {"review", "cut", "end"} /\ ~recheck => ~ChecksDue
    /\ loop.at = "cut" => paused
    /\ row.review = "reviewing" => ~ChecksDue
    /\ loop.at = "end" => row.review # "reviewing"
    /\ loop.at = "lands" => LandingReason(row)
    /\ loop.at \in {"start", "checks", "checked"} /\ ~loop.forced /\ ~ReviewOn
         => row.review # "reviewing"

\* A fix turn that reads review was cut by a pause, a landing that is owed has
\* its reason, and a pass that ends has seen to the review, or is paused.
Owes ==
    /\ row.review = "fixing" /\ row.status = "review" => row.mark = "turn"
    /\ row.mark = "land" => LandingReason(row) /\ loop.at = "none"
    /\ loop.at = "end" /\ ~recheck /\ row.status = "review" /\ row.review = "pending" => paused

AliveInv == TypeInv /\ Stages /\ Owes /\ RoundAlive

---------------------------------------------------------------------------
(* What lands was judged *)

\* The verdicts of a row are what was found of the change they are about.
Verdicts ==
    /\ row.verdict = "passed" => row.reviewed \in judged.clean \cup {Nothing}
    /\ row.verdict = "none" => row.reviewed = Nothing
    /\ row.results = "green" => row.checked \in judged.green

\* What was read is still what the task has, if it is parked as it was then.
Current ==
    /\ loop.at = "checks" /\ row.status = "review" => loop.hash = tree
    /\ loop.at = "review" /\ row.status = "review" /\ ~recheck => loop.hash = tree

\* A parked task whose checks keep it from nothing has passed them.
Checked ==
    ChecksOn /\ row.status = "review" /\ row.checks \in {"none", "green"}
      => tree \in judged.green \cup {NoChange}

\* At the end of its pass, one that may land was found clean.
Reviewed ==
    ReviewOn /\ row.status = "review" /\ loop.at = "end" /\ ~recheck /\ LandingReason(row)
      => tree \in judged.clean \cup {NoChange}

\* And still while its landing is under way: a turn that starts there is not
\* over before that is.
Decided ==
    loop.at = "lands" /\ row.status \in {"review", "done"}
      => /\ ReviewOn => tree \in judged.clean \cup {NoChange}
         /\ ChecksOn => tree \in judged.green \cup {NoChange}

LandInv ==
    /\ TypeInv
    /\ ~paused /\ row.mark = "none" /\ loop.at # "cut"
    /\ Verdicts /\ Current /\ Checked /\ Reviewed /\ Decided

---------------------------------------------------------------------------
(* Types are kept *)

\* TypeInv is TypeOK, part by part, with Reads.
LEMMA TypesOf == TypeInv => TypeOK
BY DEF TypeInv, TypeOK, Rows, Statuses, Marks, Found, Results, Hashes, Loops, AtStages,
       Budgets, Judgements

\* The words the code writes into a row.
LEMMA Words ==
    /\ {"running", "review", "done", "landed", "failed"} \subseteq Statuses
    /\ {"none", "land", "turn"} \subseteq Marks
    /\ {"none", "pending", "reviewing", "fixing", "passed", "flagged", "skipped", "error"}
         \subseteq ReviewStates
    /\ Found \subseteq ReviewStates
    /\ {"none", "pending", "running", "green", "red", "error"} \subseteq CheckStates
    /\ {"green", "red", "error"} \subseteq Results
    /\ {"passed", "flagged", "error"} \subseteq Found
    /\ {"none", "start", "checks", "checked", "review", "cut", "end", "lands"}
         \subseteq AtStages
BY DEF Statuses, Marks, ReviewStates, Found, CheckStates, Results, AtStages

\* A loop that starts, ends or goes on to another stage.
LEMMA LoopMoves ==
    ASSUME NoChangeAssumption, loop \in Loops
    PROVE  /\ Ends => loop' \in Loops /\ loop'.at = "none" /\ recheck' \in BOOLEAN
           /\ \A forced \in BOOLEAN : Starts(forced) => loop' \in Loops /\ loop'.at = "start"
           /\ \A stage \in AtStages : At(stage) => loop' \in Loops /\ loop'.at = stage
                                                     /\ loop'.hash = loop.hash
<1>1. Ends => loop' \in Loops /\ loop'.at = "none" /\ recheck' \in BOOLEAN
  <2>1. NoLoop \in Loops /\ NoLoop.at = "none"
    BY DEF NoLoop, Loops, AtStages
  <2> QED BY <2>1 DEF Ends
<1>2. ASSUME NEW forced \in BOOLEAN, Starts(forced)
      PROVE  loop' \in Loops /\ loop'.at = "start"
  BY <1>2 DEF Starts, Loops, AtStages
<1>3. ASSUME NEW stage \in AtStages, At(stage)
      PROVE  loop' \in Loops /\ loop'.at = stage /\ loop'.hash = loop.hash
  BY <1>3 DEF At, Loops
<1> QED BY <1>1, <1>2, <1>3

\* What was read and found joins the changes found so.
LEMMA JudgedMoves ==
    ASSUME judged \in Judgements, NEW h \in Content
    PROVE  /\ [judged EXCEPT !.clean = @ \cup {h}] \in Judgements
           /\ [judged EXCEPT !.green = @ \cup {h}] \in Judgements
BY DEF Judgements

\* Budgets that are given back, and those that are used.
LEMMA BudgetMoves ==
    ASSUME BudgetAssumption, fixes \in Budgets
    PROVE  /\ [fixes EXCEPT !.review = 0] \in Budgets
           /\ [fixes EXCEPT !.checks = 0, !.hash = Nothing] \in Budgets
           /\ NoFixes \in Budgets
           /\ fixes.review < ReviewRounds => [fixes EXCEPT !.review = @ + 1] \in Budgets
           /\ \A h \in Hashes : fixes.checks < CheckRounds =>
                 [fixes EXCEPT !.checks = @ + 1, !.hash = h] \in Budgets
<1>1. /\ 0 \in 0 .. ReviewRounds /\ 0 \in 0 .. CheckRounds
      /\ Nothing \in Hashes
      /\ fixes.review < ReviewRounds => fixes.review + 1 \in 0 .. ReviewRounds
      /\ fixes.checks < CheckRounds => fixes.checks + 1 \in 0 .. CheckRounds
  BY DEF BudgetAssumption, Budgets, Hashes
<1> QED BY <1>1 DEF Budgets, NoFixes

\* The initial state has its types.
LEMMA InitTyped ==
    ASSUME NoChangeAssumption, BudgetAssumption, Init
    PROVE  TypeInv
<1>1. row \in Rows
  BY DEF Init, Rows, Statuses, Marks, Found, Results, Hashes, ReviewStates, CheckStates
<1>2. loop \in Loops /\ Reads
  BY DEF Init, NoLoop, Loops, AtStages, Reads
<1>3. fixes \in Budgets /\ judged \in Judgements
  BY DEF Init, NoFixes, Budgets, Judgements, Hashes, BudgetAssumption
<1> QED BY <1>1, <1>2, <1>3 DEF TypeInv, Init

\* The steps of a session and of a human keep the types.
LEMMA TurnTyped ==
    ASSUME NoChangeAssumption, BudgetAssumption, TypeInv, AgentStep \/ HumanStep
    PROVE  TypeInv'
<1> USE DEF TypeInv, Reads, Moves
<1>1. CASE Edit \/ IdleEvicted
  BY <1>1 DEF Edit, IdleEvicted
<1>2. CASE Stop
  <2>1. row' \in Rows
    BY <1>2, Words DEF Stop, Rows
  <2>2. loop' \in Loops /\ Reads' /\ recheck' \in BOOLEAN
    BY <1>2, LoopMoves DEF Stop, Joins, TurnMayEnd
  <2> QED BY <1>2, <2>1, <2>2 DEF Stop
<1>3. CASE TurnDies
  <2>1. row' \in Rows
    BY <1>3, Words DEF TurnDies, Rows
  <2> QED BY <1>3, <2>1 DEF TurnDies
<1>4. CASE FollowUp \/ MarkDone
  <2>1. row' \in Rows
    BY <1>4, Words DEF FollowUp, MarkDone, Rows
  <2> QED BY <1>4, <2>1 DEF FollowUp, MarkDone
<1>5. CASE ReviewNow
  <2>1. row' \in Rows
    BY <1>5, Words DEF ReviewNow, Rows, Hashes
  <2>2. loop' \in Loops /\ Reads' /\ fixes' \in Budgets
    BY <1>5, LoopMoves, BudgetMoves DEF ReviewNow
  <2> QED BY <1>5, <2>1, <2>2 DEF ReviewNow
<1>6. CASE Pause
  <2>1. row' \in Rows
    BY <1>6, Words DEF Pause, Rows
  <2>2. loop' \in Loops /\ Reads'
    BY <1>6 DEF Pause, Loops, AtStages
  <2> QED BY <1>6, <2>1, <2>2 DEF Pause
<1>7. CASE Continue
  <2>1. (row.review \in {"pending", "reviewing"}) \in BOOLEAN
    OBVIOUS
  <2>2. loop' \in Loops /\ Reads'
    BY <1>7, <2>1, LoopMoves DEF Continue, Rerun
  <2> QED BY <1>7, <2>2 DEF Continue
<1> QED BY <1>1, <1>2, <1>3, <1>4, <1>5, <1>6, <1>7 DEF AgentStep, HumanStep

\* So do the steps of a round.
LEMMA RoundTyped ==
    ASSUME NoChangeAssumption, BudgetAssumption, TypeInv, RoundStep
    PROVE  TypeInv'
<1> USE DEF TypeInv, Reads, Moves
<1>1. CASE PassPaused \/ LandBegins \/ Lands
  <2>1. row' \in Rows
    BY <1>1, Words DEF PassPaused, DeferLanding, LandBegins, Lands, Landed, Reopened, Rows
  <2>2. loop' \in Loops /\ Reads' /\ recheck' \in BOOLEAN
    BY <1>1, LoopMoves
       DEF PassPaused, DeferLanding, LandBegins, Lands, Ends, NoLoop, AtStages
  <2> QED BY <1>1, <2>1, <2>2 DEF PassPaused, LandBegins, Lands, Reopened
<1>2. CASE PassBegins
  <2>1. row' \in Rows
    BY <1>2, Words DEF PassBegins, Rows
  <2>2. loop' \in Loops /\ Reads'
    <3>1. CASE ChecksDue /\ row.status = "review" /\ tree # NoChange /\ ~UnchangedGreen
      BY <1>2, <3>1 DEF PassBegins, Loops, AtStages
    <3>2. CASE At("checked")
      BY <3>2, LoopMoves DEF AtStages
    <3> QED BY <1>2, <3>1, <3>2 DEF PassBegins
  <2>3. fixes' \in Budgets
    BY <1>2, BudgetMoves DEF PassBegins
  <2> QED BY <1>2, <2>1, <2>2, <2>3 DEF PassBegins
<1>3. CASE ChecksCut \/ ChecksPass
  <2>0. loop.at = "checks" /\ loop.hash \in Content /\ loop.hash \in Hashes
    BY <1>3 DEF ChecksCut, ChecksPass, Hashes
  <2>1. row' \in Rows
    <3>1. CASE ChecksCut
      BY <3>1, Words DEF ChecksCut, Rows
    <3>2. ASSUME NEW v \in {"green", "error"},
                 row' = [row EXCEPT !.checks = v, !.results = v, !.checked = loop.hash]
          PROVE  row' \in Rows
      <4>1. v \in CheckStates /\ v \in Results
        BY Words
      <4> QED BY <2>0, <3>2, <4>1 DEF Rows
    <3> QED BY <1>3, <3>1, <3>2 DEF ChecksPass
  <2>2. loop' \in Loops /\ Reads'
    BY <1>3, LoopMoves DEF ChecksCut, ChecksPass, AtStages
  <2>3. fixes' \in Budgets /\ judged' \in Judgements
    BY <1>3, <2>0, BudgetMoves, JudgedMoves DEF ChecksCut, ChecksPass, NoCheckFixes
  <2> QED BY <1>3, <2>1, <2>2, <2>3 DEF ChecksCut, ChecksPass
<1>4. CASE ChecksRed
  <2>1. \A state \in {"red", "pending"} : Red(state) \in Rows
    BY <1>4, Words DEF ChecksRed, Red, Rows, Hashes
  <2>2. row' \in Rows
    BY <1>4, <2>1, Words DEF ChecksRed, Rows
  <2>3. loop' \in Loops /\ Reads' /\ recheck' \in BOOLEAN
    BY <1>4, LoopMoves DEF ChecksRed, Ends, NoLoop, AtStages
  <2>4. fixes' \in Budgets /\ idle' \in BOOLEAN
    <3>1. loop.hash \in Hashes
      BY <1>4 DEF ChecksRed, Hashes
    <3> QED BY <1>4, <3>1, BudgetMoves DEF ChecksRed, NoCheckFixes, MayFixChecks
  <2> QED BY <1>4, <2>2, <2>3, <2>4 DEF ChecksRed
<1>5. CASE ReviewBegins
  <2>1. row' \in Rows
    BY <1>5, Words DEF ReviewBegins, SettledReview, Rows
  <2>2. loop' \in Loops /\ Reads'
    <3>1. CASE At("end")
      BY <3>1, LoopMoves DEF AtStages
    <3>2. CASE tree # NoChange /\ loop' = [loop EXCEPT !.at = "review", !.hash = tree]
      BY <3>2 DEF Loops, AtStages
    <3> QED BY <1>5, <3>1, <3>2 DEF ReviewBegins
  <2>3. fixes' \in Budgets
    BY <1>5, BudgetMoves DEF ReviewBegins
  <2> QED BY <1>5, <2>1, <2>2, <2>3 DEF ReviewBegins
<1>6. CASE ReviewEnds
  <2>0. loop.hash \in Content /\ loop.hash \in Hashes
    BY <1>6 DEF ReviewEnds, Hashes
  <2>1. row' \in Rows
    <3>1. ASSUME NEW v \in Found, Recorded(v, v)
          PROVE  row' \in Rows
      BY <2>0, <3>1, Words DEF Recorded, Rows
    <3>2. CASE row' = [row EXCEPT !.review = "pending"]
      BY <3>2, Words DEF Rows
    <3>3. CASE row' = [Moves(row, "running") EXCEPT
                         !.review = "fixing", !.verdict = "flagged", !.reviewed = loop.hash]
      BY <2>0, <3>3, Words DEF Rows
    <3> QED BY <1>6, <3>1, <3>2, <3>3, Words DEF ReviewEnds
  <2>2. loop' \in Loops /\ Reads'
    BY <1>6, LoopMoves DEF ReviewEnds, AtStages
  <2>3. fixes' \in Budgets /\ judged' \in Judgements /\ idle' \in BOOLEAN
    BY <1>6, <2>0, BudgetMoves, JudgedMoves DEF ReviewEnds, MayFixReview
  <2> QED BY <1>6, <2>1, <2>2, <2>3 DEF ReviewEnds
<1>7. CASE NextPass
  <2>1. loop' \in Loops /\ Reads' /\ recheck' \in BOOLEAN
    BY <1>7, LoopMoves DEF NextPass, Ends, NoLoop
  <2> QED BY <1>7, <2>1 DEF NextPass
<1> QED BY <1>1, <1>2, <1>3, <1>4, <1>5, <1>6, <1>7 DEF RoundStep

\* Every step keeps the types.
LEMMA StepTyped ==
    ASSUME NoChangeAssumption, BudgetAssumption, TypeInv, [VerifyNext]_verifyVars
    PROVE  TypeInv'
<1> USE DEF TypeInv, Reads, Moves
<1>1. CASE RoundThrows
  <2>1. row' \in Rows
    BY <1>1, Words DEF RoundThrows, Rows
  <2>2. loop' \in Loops /\ Reads' /\ recheck' \in BOOLEAN
    BY <1>1, LoopMoves DEF RoundThrows, Ends, NoLoop
  <2> QED BY <1>1, <2>1, <2>2 DEF RoundThrows
<1>2. CASE ResumeOwed
  <2>1. row' \in Rows
    BY <1>2, Words DEF ResumeOwed, Landed, Reopened, Rows
  <2>2. loop' \in Loops /\ Reads'
    BY <1>2, LoopMoves DEF ResumeOwed
  <2> QED BY <1>2, <2>1, <2>2 DEF ResumeOwed, Reopened
<1>3. CASE Boot
  <2>1. BootTurn \in Rows
    BY Words DEF BootTurn, Rows
  <2>2. row' \in Rows
    BY <1>3, <2>1, Words DEF Boot, BootMarks, SettledReview, Rows
  <2>3. loop' \in Loops /\ Reads' /\ fixes' \in Budgets
    <3>1. (BootMarks(BootTurn).review \in {"pending", "reviewing"}) \in BOOLEAN
      OBVIOUS
    <3>2. fixes' \in Budgets
      BY <1>3, BudgetMoves DEF Boot
    <3>3. CASE Starts(BootMarks(BootTurn).review \in {"pending", "reviewing"})
      BY <3>1, <3>2, <3>3, LoopMoves
    <3>4. NoLoop \in Loops /\ NoLoop.at = "none"
      BY DEF NoLoop, Loops, AtStages
    <3>5. CASE loop' = NoLoop
      BY <3>2, <3>4, <3>5
    <3> QED BY <1>3, <3>3, <3>5 DEF Boot
  <2> QED BY <1>3, <2>2, <2>3 DEF Boot
<1>4. CASE UNCHANGED verifyVars
  BY <1>4 DEF verifyVars
<1> QED BY <1>1, <1>2, <1>3, <1>4, TurnTyped, RoundTyped DEF VerifyNext

\* Every variable keeps its type.
THEOREM Typed ==
    ASSUME NoChangeAssumption, BudgetAssumption
    PROVE  VerifySpec => []TypeOK
<1>1. VerifySpec => []TypeInv
  BY InitTyped, StepTyped, PTL DEF VerifySpec
<1> QED BY <1>1, TypesOf, PTL

---------------------------------------------------------------------------
(* Rounds stay alive *)

\* Init leaves no round open.
LEMMA InitAlive ==
    ASSUME NoChangeAssumption, BudgetAssumption, Init
    PROVE  AliveInv
<1>1. Stages /\ Owes /\ RoundAlive
  BY DEF Init, Stages, Owes, RoundAlive, VerifyOpen, ChecksDue, ReviewDue, NoLoop
<1> QED BY <1>1, InitTyped DEF AliveInv

\* A turn that stops leaves its round to the loop; one that a pause cuts is
\* owed first.
LEMMA TurnAlive ==
    ASSUME Detours \subseteq {"pause"}, AliveInv, AgentStep \/ HumanStep
    PROVE  Stages' /\ Owes' /\ RoundAlive'
<1> USE DEF AliveInv, Stages, Owes, RoundAlive, VerifyOpen, ChecksDue, ReviewDue, LandingReason, Moves
<1>0. row \in Rows /\ loop \in Loops
  BY DEF TypeInv
<1> USE <1>0 DEF Rows, Loops
<1>1. CASE Edit \/ IdleEvicted
  BY <1>1 DEF Edit, IdleEvicted
<1>2. CASE Stop
  BY <1>2 DEF Stop, Joins, TurnMayEnd, Starts
<1>3. CASE TurnDies
  BY <1>3 DEF TurnDies, TurnMayEnd
<1>4. CASE FollowUp \/ MarkDone
  BY <1>4 DEF FollowUp, MarkDone, Judgeable
<1>5. CASE ReviewNow
  BY <1>5 DEF ReviewNow, Starts
<1>6. CASE Pause
  BY <1>6 DEF Pause, TurnMayEnd
<1>7. CASE Continue
  <2>1. row' = row /\ recheck' = recheck /\ loop.at \in {"none", "checks", "review", "lands"}
    BY <1>7 DEF Continue
  <2>2. CASE Reruns(row)
    <3>1. loop' = [at |-> "start", forced |-> ReviewDue, hash |-> Nothing]
      BY <1>7, <2>2 DEF Continue, Rerun, Starts
    <3>2. loop'.at = "start" /\ row.mark = "none"
      BY <2>2, <3>1 DEF Reruns
    <3>3. row.review = "reviewing" => loop'.forced = TRUE
      BY <3>1
    <3> QED BY <2>1, <3>2, <3>3
  <2>3. CASE ~Reruns(row)
    <3>1. loop' = loop
      BY <1>7, <2>3 DEF Continue
    <3>2. loop.at = "none" => ~(row.status = "review" /\ row.mark = "none" /\ (ReviewDue \/ ChecksDue))
      BY <2>3 DEF Reruns, Judgeable
    <3>3. row.mark \in {"none", "land", "turn"}
      BY DEF Marks
    <3> QED BY <2>1, <3>1, <3>2, <3>3
  <2> QED BY <2>2, <2>3
<1> QED BY <1>1, <1>2, <1>3, <1>4, <1>5, <1>6, <1>7 DEF AgentStep, HumanStep

\* A pass sees to what is due, or leaves it to the pause.
LEMMA RoundAliveStep ==
    ASSUME Detours \subseteq {"pause"}, AliveInv, RoundStep \/ RoundThrows
    PROVE  Stages' /\ Owes' /\ RoundAlive'
<1> USE DEF AliveInv, Stages, Owes, RoundAlive, VerifyOpen, ChecksDue, ReviewDue, LandingReason, Moves
<1>0. row \in Rows /\ loop \in Loops
  BY DEF TypeInv
<1> USE <1>0 DEF Rows, Loops
<1>1. CASE PassPaused
  BY <1>1 DEF PassPaused, DeferLanding, Ends, NoLoop
<1>2. CASE PassBegins
  BY <1>2 DEF PassBegins, At
<1>3. CASE ChecksCut \/ ChecksPass
  BY <1>3 DEF ChecksCut, ChecksPass, At
<1>4. CASE ChecksRed
  <2>1. /\ loop.at = "checks" /\ row.checks = "running" /\ row.review # "reviewing"
        /\ paused' = paused
    BY <1>4 DEF ChecksRed
  <2>0. (paused /\ loop'.at = "none") \/ (~paused /\ loop'.at = "end")
    BY <1>4 DEF ChecksRed, At, Ends, NoLoop
  <2>2. CASE row' = Red("red")
    BY <2>0, <2>1, <2>2 DEF Red
  <2>3. CASE paused /\ row' = Red("pending")
    BY <2>0, <2>1, <2>3 DEF Red
  <2>4. CASE row' = Moves(Red("red"), "running")
    BY <2>0, <2>1, <2>4 DEF Red
  <2> QED BY <1>4, <2>2, <2>3, <2>4 DEF ChecksRed
<1>5. CASE ReviewBegins
  <2>1. /\ loop.at = "checked" /\ ~ChecksDue /\ UNCHANGED <<recheck, paused>>
        /\ row.status = "review" => row.status \in ReviewableFrom
        /\ SettledReview \in {"skipped", "passed", "flagged", "error"}
        /\ At("end") => loop'.at = "end"
    BY <1>5 DEF ReviewBegins, ReviewableFrom, Judgeable, SettledReview, At, Found
  <2>2. CASE /\ row.status \notin ReviewableFrom /\ At("end")
             /\ row' = [row EXCEPT !.review =
                          IF ~ReviewDue THEN @ ELSE IF row.verdict = "none" THEN "none"
                          ELSE SettledReview]
    BY <2>1, <2>2
  <2>3. CASE /\ ~(loop.forced \/ ReviewOn) /\ At("end")
             /\ row' = [row EXCEPT !.review = IF @ = "pending" THEN "none" ELSE @]
    BY <2>1, <2>3
  <2>4. CASE /\ At("end")
             /\ row' = [row EXCEPT !.review = IF tree = NoChange THEN "skipped" ELSE SettledReview]
    BY <2>1, <2>4
  <2>5. CASE row' = [row EXCEPT !.review = "reviewing"]
             /\ loop' = [loop EXCEPT !.at = "review", !.hash = tree]
    BY <2>1, <2>5
  <2> QED BY <1>5, <2>2, <2>3, <2>4, <2>5 DEF ReviewBegins
<1>6. CASE ReviewEnds
  <2>1. /\ loop.at \in {"review", "cut"} /\ UNCHANGED <<recheck, paused>>
        /\ loop'.at = "end" /\ row.mark # "land"
    BY <1>6 DEF ReviewEnds, At
  <2>2. ASSUME NEW v \in {"passed", "flagged", "error"}, Recorded(v, v)
        PROVE  Stages' /\ Owes' /\ RoundAlive'
    BY <2>1, <2>2 DEF Recorded
  <2>3. CASE paused /\ row' = [row EXCEPT !.review = "pending"]
    BY <2>1, <2>3
  <2>4. CASE row' = [Moves(row, "running") EXCEPT
                       !.review = "fixing", !.verdict = "flagged", !.reviewed = loop.hash]
    BY <2>1, <2>4
  <2> QED BY <1>6, <2>2, <2>3, <2>4 DEF ReviewEnds
<1>7. CASE NextPass
  <2>1. /\ loop.at = "end" /\ row.review # "reviewing" /\ row' = row /\ paused' = paused
    BY <1>7 DEF NextPass
  <2>2. \/ row.status = "review" /\ loop'.at = "start"
        \/ row.status # "review" /\ loop'.at = "none"
    <3>1. /\ Starts(FALSE) => loop'.at = "start"
          /\ Ends => loop'.at = "none"
      BY DEF Starts, Ends, NoLoop
    <3> QED BY <1>7, <3>1 DEF NextPass
  <2> QED BY <2>1, <2>2
<1>8. CASE LandBegins
  BY <1>8 DEF LandBegins, At, Ends, NoLoop
<1>9. CASE Lands
  BY <1>9 DEF Lands, Landed, Ends, NoLoop
<1>10. CASE RoundThrows
  BY <1>10 DEF RoundThrows, Ends, NoLoop
<1> QED BY <1>1, <1>2, <1>3, <1>4, <1>5, <1>6, <1>7, <1>8, <1>9, <1>10 DEF RoundStep

\* What Continue and a boot find due they start.
LEMMA ResumeAlive ==
    ASSUME Detours \subseteq {"pause"}, AliveInv, ResumeOwed \/ Boot \/ UNCHANGED verifyVars
    PROVE  Stages' /\ Owes' /\ RoundAlive'
<1> USE DEF AliveInv, Stages, Owes, RoundAlive, VerifyOpen, ChecksDue, ReviewDue, LandingReason, Moves
<1>0. row \in Rows /\ loop \in Loops
  BY DEF TypeInv
<1> USE <1>0 DEF Rows, Loops
<1>1. CASE ResumeOwed
  <2>1. Starts(FALSE) => loop'.at = "start" /\ loop'.forced = FALSE
    BY DEF Starts
  <2> QED BY <1>1, <2>1 DEF ResumeOwed, MayLand, Landed, Reopened
<1>2. CASE Boot
  <2>1. PICK r : r = BootMarks(BootTurn)
    OBVIOUS
  <2>2. /\ row' = r /\ paused' = paused
        /\ LET due == r.review \in {"pending", "reviewing"}
           IN  IF ~paused /\ (due \/ r.checks \in {"pending", "running"})
               THEN loop'.at = "start" /\ loop'.forced = due ELSE loop'.at = "none"
    BY <1>2, <2>1 DEF Boot, Starts, NoLoop
  <2>3. /\ r.review # "fixing"
        /\ r.status \in {row.status, "review", "failed"}
        /\ r.review = "reviewing" => row.review = "reviewing"
        /\ r.checks \in {"pending", "running"} => row.checks = r.checks
        /\ r.mark = "land" => row.mark = "land" /\ LandingReason(r)
    <3>1. SettledReview \in {"skipped", "passed", "flagged", "error"}
      BY DEF SettledReview, Found
    <3>2. CASE row.status # "running"
      BY <2>1, <3>1, <3>2 DEF BootMarks, BootTurn
    <3>3. CASE row.status = "running"
      BY <2>1, <3>1, <3>3 DEF BootMarks, BootTurn
    <3> QED BY <3>2, <3>3
  <2> QED BY <2>2, <2>3
<1>3. CASE UNCHANGED verifyVars
  BY <1>3 DEF verifyVars
<1> QED BY <1>1, <1>2, <1>3

\* A round that is due on a task at rest is run, or held by the pause, or comes
\* after the turn the task is owed.
THEOREM RoundsLive ==
    ASSUME NoChangeAssumption, BudgetAssumption, Detours \subseteq {"pause"}
    PROVE  VerifySpec => []RoundAlive
<1>1. AliveInv /\ [VerifyNext]_verifyVars => AliveInv'
  BY TurnAlive, RoundAliveStep, ResumeAlive, StepTyped DEF AliveInv, VerifyNext
<1>2. AliveInv => RoundAlive
  BY DEF AliveInv
<1> QED BY InitAlive, <1>1, <1>2, PTL DEF VerifySpec

---------------------------------------------------------------------------
(* Landings *)

\* What LandInv says beyond the types.
LandOK ==
    /\ ~paused /\ row.mark = "none" /\ loop.at # "cut"
    /\ Verdicts /\ Current /\ Checked /\ Reviewed /\ Decided

\* Init has nothing judged and nothing parked.
LEMMA InitLand ==
    ASSUME NoChangeAssumption, BudgetAssumption, Init
    PROVE  LandInv
<1>1. Verdicts /\ Current /\ Checked /\ Reviewed /\ Decided
  BY DEF Init, Verdicts, Current, Checked, Reviewed, Decided, NoLoop
<1>2. ~paused /\ row.mark = "none" /\ loop.at # "cut"
  BY DEF Init, NoLoop
<1> QED BY <1>1, <1>2, InitTyped DEF LandInv

\* A turn edits while its task is not parked, and its Stop marks the checks due
\* and has a round that is under way look again.
LEMMA TurnLand ==
    ASSUME Detours \cap {"pause", "exit", "late"} = {}, LandInv,
           AgentStep \/ HumanStep \/ UNCHANGED verifyVars
    PROVE  LandOK'
<1> USE DEF LandInv, LandOK, Verdicts, Current, Checked, Reviewed, Decided, LandingReason, Moves
<1>0. row \in Rows /\ loop \in Loops
  BY DEF TypeInv
<1> USE <1>0 DEF Rows, Loops
<1>1. CASE Edit \/ IdleEvicted \/ UNCHANGED verifyVars
  BY <1>1 DEF Edit, IdleEvicted, verifyVars
<1>2. CASE Stop
  BY <1>2 DEF Stop, Joins, TurnMayEnd, Starts
<1>3. CASE TurnDies
  BY <1>3 DEF TurnDies, TurnMayEnd
<1>4. CASE FollowUp \/ MarkDone
  <2>1. /\ UNCHANGED <<tree, loop, recheck, paused, judged>>
        /\ \/ row' = Moves(row, "running")
           \/ row.status = "review" /\ row' = Moves(row, "done")
    BY <1>4 DEF FollowUp, MarkDone
  <2>2. /\ row'.mark = "none" /\ row'.status # "review"
        /\ UNCHANGED <<row.verdict, row.reviewed, row.results, row.checked>>
        /\ row'.status = "running" \/ row.status = "review"
    BY <2>1
  <2>3. Verdicts' /\ Current' /\ Checked' /\ Reviewed'
    BY <2>1, <2>2
  <2>4. Decided'
    BY <2>1, <2>2
  <2> QED BY <2>1, <2>2, <2>3, <2>4
<1>5. CASE ReviewNow
  BY <1>5 DEF ReviewNow, Starts
<1>6. CASE Pause \/ Continue
  BY <1>6 DEF Pause, Continue
<1> QED BY <1>1, <1>2, <1>3, <1>4, <1>5, <1>6 DEF AgentStep, HumanStep

\* A pass writes down what it found of the change it read, and reads what the
\* task has.
LEMMA RoundLand ==
    ASSUME NoChangeAssumption, LandInv, RoundStep \/ RoundThrows
    PROVE  LandOK'
<1> USE DEF LandInv, LandOK, Verdicts, Current, Checked, Reviewed, Decided, LandingReason, Moves
<1>0. row \in Rows /\ loop \in Loops /\ judged \in Judgements /\ tree \in Content \cup {NoChange}
  BY DEF TypeInv
<1> USE <1>0 DEF Rows, Loops, Judgements
<1>1. CASE PassPaused
  BY <1>1 DEF PassPaused
<1>2. CASE PassBegins
  <2>1. /\ loop.at = "start" /\ recheck' = FALSE /\ UNCHANGED <<tree, paused, judged>>
    BY <1>2 DEF PassBegins
  <2>2. CASE ChecksDue /\ row.status = "review" /\ tree # NoChange /\ ~UnchangedGreen
    <3>1. /\ row' = [row EXCEPT !.checks = "running"]
          /\ loop' = [loop EXCEPT !.at = "checks", !.hash = tree]
      BY <1>2, <2>2 DEF PassBegins
    <3> QED BY <2>1, <3>1
  <2>3. CASE ~(ChecksDue /\ row.status = "review" /\ tree # NoChange /\ ~UnchangedGreen)
    <3>1. /\ row' = [row EXCEPT !.checks =
                       IF ~ChecksDue THEN @
                       ELSE IF row.status = "review" /\ UnchangedGreen THEN "green" ELSE "none"]
          /\ loop' = [loop EXCEPT !.at = "checked"]
      BY <1>2, <2>3 DEF PassBegins, At
    <3>2. /\ Verdicts' /\ Current' /\ Reviewed' /\ Decided'
          /\ row'.mark = "none" /\ loop'.at # "cut"
      BY <2>1, <3>1
    <3>3. Checked'
      BY <2>1, <2>3, <3>1 DEF UnchangedGreen
    <3> QED BY <2>1, <3>2, <3>3
  <2> QED BY <2>2, <2>3
<1>3. CASE ChecksCut
  BY <1>3 DEF ChecksCut, At
<1>4. CASE ChecksPass
  BY <1>4 DEF ChecksPass, At
<1>5. CASE ChecksRed
  <2>1. /\ ~paused /\ loop' = [loop EXCEPT !.at = "end"]
        /\ UNCHANGED <<tree, recheck, paused, judged>>
    BY <1>5 DEF ChecksRed, At
  <2>2. row' = Red("red") \/ row' = Moves(Red("red"), "running")
    BY <1>5, <2>1 DEF ChecksRed
  <2>3. /\ row'.checks = "red" /\ row'.results = "red"
        /\ row'.mark = "none"
        /\ UNCHANGED <<row.verdict, row.reviewed>>
    <3>1. CASE row' = Red("red")
      BY <3>1 DEF Red
    <3>2. CASE row' = Moves(Red("red"), "running")
      BY <3>2 DEF Red
    <3> QED BY <2>2, <3>1, <3>2
  <2>4. Verdicts' /\ Checked'
    BY <2>1, <2>3
  <2>5. Current' /\ Reviewed'
    BY <2>1, <2>3
  <2> QED BY <2>1, <2>3, <2>4, <2>5
<1>6. CASE ReviewBegins
  <2>1. loop'.at \in {"end", "review"}
    BY <1>6 DEF ReviewBegins, At
  <2>2. ~paused' /\ row'.mark = "none" /\ Decided'
    BY <1>6, <2>1 DEF ReviewBegins
  <2>3. Verdicts' /\ Current'
    BY <1>6 DEF ReviewBegins, At
  <2>4. Checked'
    BY <1>6 DEF ReviewBegins
  <2>5. Reviewed'
    BY <1>6 DEF ReviewBegins, ReviewableFrom, Judgeable, SettledReview, SameDiff, At, Found,
                NoChangeAssumption
  <2> QED BY <2>1, <2>2, <2>3, <2>4, <2>5
<1>7. CASE ReviewEnds
  <2>1. /\ loop.at = "review" /\ loop' = [loop EXCEPT !.at = "end"]
        /\ UNCHANGED <<tree, recheck, paused>>
    BY <1>7 DEF ReviewEnds, At
  <2>2. CASE /\ Recorded("passed", "passed")
             /\ judged' = [judged EXCEPT !.clean = @ \cup {loop.hash}]
    <3>1. /\ judged'.clean = judged.clean \cup {loop.hash} /\ judged'.green = judged.green
          /\ row' = [row EXCEPT !.review = "passed", !.verdict = "passed", !.reviewed = loop.hash]
      BY <2>2 DEF Recorded
    <3>2. /\ row'.verdict = "passed" /\ row'.reviewed = loop.hash
          /\ row'.status = row.status /\ row'.mark = row.mark
          /\ UNCHANGED <<row.checks, row.results, row.checked>>
      BY <3>1
    <3>3. Verdicts' /\ Current'
      BY <2>1, <3>1, <3>2
    <3>4. Checked' /\ Reviewed'
      BY <2>1, <3>1, <3>2
    <3> QED BY <2>1, <3>2, <3>3, <3>4
  <2>3. CASE /\ Recorded("flagged", "flagged") \/ Recorded("error", "error")
             /\ UNCHANGED judged
    <3>1. /\ row'.review \in {"flagged", "error"} /\ row'.verdict \in {"flagged", "error"}
          /\ row'.status = row.status /\ row'.mark = row.mark
          /\ UNCHANGED <<row.checks, row.results, row.checked>>
      <4>1. ASSUME NEW v \in {"flagged", "error"}, Recorded(v, v)
            PROVE  /\ row'.review = v /\ row'.verdict = v
                   /\ row'.status = row.status /\ row'.mark = row.mark
                   /\ UNCHANGED <<row.checks, row.results, row.checked>>
        BY <4>1 DEF Recorded
      <4> QED BY <2>3, <4>1
    <3>2. Verdicts' /\ Current'
      BY <2>1, <2>3, <3>1
    <3>3. Checked' /\ Reviewed'
      BY <2>1, <2>3, <3>1
    <3> QED BY <2>1, <3>1, <3>2, <3>3
  <2>4. CASE /\ row' = [Moves(row, "running") EXCEPT
                          !.review = "fixing", !.verdict = "flagged", !.reviewed = loop.hash]
             /\ UNCHANGED judged
    BY <2>1, <2>4
  <2> QED BY <1>7, <2>2, <2>3, <2>4 DEF ReviewEnds
<1>8. CASE NextPass
  <2>1. UNCHANGED <<row, tree, paused, judged>>
    BY <1>8 DEF NextPass
  <2>2. Starts(FALSE) => loop'.at = "start"
    BY DEF Starts
  <2>3. Ends => loop'.at = "none"
    BY DEF Ends, NoLoop
  <2>4. loop'.at \in {"start", "none"}
    BY <1>8, <2>2, <2>3 DEF NextPass
  <2>5. Verdicts' /\ Checked'
    BY <2>1
  <2>6. Current' /\ Reviewed'
    BY <2>4
  <2> QED BY <2>1, <2>4, <2>5, <2>6
<1>9. CASE LandBegins
  BY <1>9 DEF LandBegins, At, Ends, NoLoop
<1>10. CASE Lands
  <2>1. /\ loop'.at = "none" /\ UNCHANGED <<tree, paused, judged>>
        /\ \/ row' = row \/ row' = Moves(row, "landed")
           \/ row' = [row EXCEPT !.status = "review", !.mark = "none",
                                 !.checks = "pending", !.results = "red"]
    BY <1>10 DEF Lands, Landed, Reopened, Ends, NoLoop
  <2>2. Verdicts' /\ Checked' /\ row'.mark = "none"
    BY <2>1
  <2> QED BY <2>1, <2>2
<1>11. CASE RoundThrows
  BY <1>11 DEF RoundThrows, ChecksDue, Ends, NoLoop
<1> QED BY <1>1, <1>2, <1>3, <1>4, <1>5, <1>6, <1>7, <1>8, <1>9, <1>10, <1>11 DEF RoundStep

\* No landing is owed, and a boot parks nothing.
LEMMA BootLand ==
    ASSUME LandInv, ResumeOwed \/ Boot
    PROVE  LandOK'
<1> USE DEF LandInv, LandOK, Verdicts, Current, Checked, Reviewed, Decided, LandingReason, Moves
<1>0. row \in Rows /\ loop \in Loops
  BY DEF TypeInv
<1> USE <1>0 DEF Rows, Loops
<1>1. CASE ResumeOwed
  BY <1>1 DEF ResumeOwed
<1>2. CASE Boot
  BY <1>2 DEF Boot, BootMarks, BootTurn, Starts, NoLoop
<1> QED BY <1>1, <1>2

\* Without a pause and an early exit LandInv holds throughout.
LEMMA LandInvariance ==
    ASSUME NoChangeAssumption, BudgetAssumption, Detours \cap {"pause", "exit", "late"} = {}
    PROVE  VerifySpec => []LandInv
<1>1. LandInv /\ [VerifyNext]_verifyVars => LandInv'
  <2>1. LandInv <=> TypeInv /\ LandOK
    BY DEF LandInv, LandOK
  <2>2. LandInv' <=> TypeInv' /\ LandOK'
    BY DEF LandInv, LandOK
  <2>3. LandInv /\ [VerifyNext]_verifyVars => LandOK'
    BY TurnLand, RoundLand, BootLand DEF VerifyNext
  <2> QED BY <2>1, <2>2, <2>3, StepTyped
<1> QED BY InitLand, <1>1, PTL DEF VerifySpec

\* Where nothing is owed, only a round lands a task.
LEMMA OnlyRoundsLand ==
    ASSUME LandInv, [VerifyNext]_verifyVars, row.status # "landed", row'.status = "landed"
    PROVE  loop.at = "lands" /\ row.status \in {"review", "done"}
<1> USE DEF LandInv, Moves
<1>0. row \in Rows
  BY DEF TypeInv
<1> USE <1>0 DEF Rows
<1>1. row' # row
  OBVIOUS
<1>2. ~AgentStep
  BY <1>1 DEF AgentStep, Edit, Stop, TurnDies, IdleEvicted
<1>3. ~HumanStep
  BY <1>1 DEF HumanStep, FollowUp, MarkDone, ReviewNow, Pause, Continue
<1>4. ~(ResumeOwed \/ Boot \/ RoundThrows \/ UNCHANGED verifyVars)
  BY <1>1 DEF ResumeOwed, MayLand, Boot, BootMarks, BootTurn, RoundThrows, verifyVars
<1>5. ~(PassPaused \/ PassBegins \/ ChecksCut \/ ChecksPass \/ ReviewBegins \/ NextPass
          \/ LandBegins)
  BY <1>1 DEF PassPaused, PassBegins, ChecksCut, ChecksPass, ReviewBegins, NextPass, LandBegins
<1>6. ~ChecksRed
  BY <1>1 DEF ChecksRed, Red
<1>7. ~ReviewEnds
  BY <1>1 DEF ReviewEnds, Recorded
<1> QED BY <1>1, <1>2, <1>3, <1>4, <1>5, <1>6, <1>7 DEF VerifyNext, RoundStep, Lands, Reopened

\* What a tier lands, its reviewer has found clean.
THEOREM Reviews ==
    ASSUME NoChangeAssumption, BudgetAssumption, Detours \cap {"pause", "exit", "late"} = {}
    PROVE  VerifySpec => LandsReviewed
<1>1. LandInv /\ [VerifyNext]_verifyVars =>
        [ReviewOn /\ row.status # "landed" /\ row'.status = "landed"
           => tree \in judged.clean \cup {NoChange}]_verifyVars
  BY OnlyRoundsLand DEF LandInv, Decided
<1> QED BY LandInvariance, <1>1, PTL DEF VerifySpec, LandsReviewed

\* And its checks have passed.
THEOREM Checks ==
    ASSUME NoChangeAssumption, BudgetAssumption, Detours \cap {"pause", "exit", "late"} = {}
    PROVE  VerifySpec => LandsChecked
<1>1. LandInv /\ [VerifyNext]_verifyVars =>
        [ChecksOn /\ row.status # "landed" /\ row'.status = "landed"
           => tree \in judged.green \cup {NoChange}]_verifyVars
  BY OnlyRoundsLand DEF LandInv, Decided
<1> QED BY LandInvariance, <1>1, PTL DEF VerifySpec, LandsChecked
=============================================================================
